---------------------------- MODULE ServiceProofs ---------------------------
(***************************************************************************)
(* Proofs about the two services built on background tasks.                *)
(*                                                                         *)
(* The A2A provider: what a caller sees of a task is backed, for any       *)
(* number of server processes, attempts, analyses, exits and errors; and   *)
(* what one server process keeps to, whose event loop runs one coroutine   *)
(* at a time.                                                              *)
(*                                                                         *)
(* The knowledge documents: the index recalls what the rows serve, for any *)
(* number of workers, versions, jobs, reviews and faults.                  *)
(***************************************************************************)
EXTENDS A2AProvider, KnowledgeDocs, FiniteSetTheorems, TLAPS

-----------------------------------------------------------------------------
(* The inductive invariant. *)

Copy == [state : States, arts : Nat]

RowType ==
  /\ state \in States /\ arts \in Nat /\ attempts \in Nat
  /\ internal \in Analysis \cup {NoAnalysis}
  /\ lease \in {NoLease} \cup (0 .. LeaseTicks)

JobType ==
  /\ pc \in [Proc -> PCs] /\ copy \in [Proc -> Copy]
  /\ mine \in [Proc -> Analysis \cup {NoAnalysis}] /\ polls \in [Proc -> Nat]
  /\ call \in [Proc -> {"none", "start", "continue", "poll", "done"}]
  /\ res \in [Proc -> Results]

CallerType ==
  /\ acc \in [Proc -> {"none", "create", "append"}] /\ acopy \in [Proc -> Copy]
  /\ cxl \in [Proc -> {"none", "stopping", "stopped", "publishing"}]
  /\ ccopy \in [Proc -> Copy] /\ cfor \in [Proc -> Analysis \cup {NoAnalysis}]

WorldType ==
  /\ up \subseteq Proc /\ continued \in BOOLEAN
  /\ ana \in [Analysis -> AnalysisStatus] /\ host \in [Analysis -> Proc \cup {NoProc}]
  /\ worker \subseteq Analysis
  /\ stops \in 0 .. MaxStops /\ errors \in 0 .. MaxErrors

Types == RowType /\ JobType /\ CallerType /\ WorldType

\* The analysis of the task is known, or is no longer asked for: true for good
\* once it is true.
Known == internal # NoAnalysis \/ state \in Terminal

\* A Task, in the row or in the memory of some coroutine, that may be shown or
\* saved at any later time.
Backed(c) ==
  /\ c.state = "COMPLETED" => c.arts > 0
  /\ c.state = "FAILED" => attempts >= MaxAttempts
  /\ c.state = "INPUT_REQUIRED" => Known

TasksBacked ==
  /\ Backed(Row)
  /\ \A p \in Proc : Backed(copy[p]) /\ Backed(acopy[p]) /\ Backed(ccopy[p])

\* What a job has made sure of where it is now.
Drives == {"continuing", "recordRead", "recordSave", "asking", "polling", "polled",
           "progress", "deciding", "sleeping"}
JobKnows(p) ==
  /\ pc[p] = "completing" => copy[p].state \in Terminal \/ copy[p].arts > 0
  /\ pc[p] = "givingUp" => attempts >= MaxAttempts
  /\ pc[p] \in Drives => mine[p] \in Analysis
  /\ pc[p] \in Drives \ {"recordRead", "recordSave"} => Known
JobsKnow == \A p \in Proc : JobKnows(p)

\* What its thread works on; a thread outlives its job.
ThreadKnows(p) ==
  /\ pc[p] = "starting" =>
       call[p] \in {"start", "done"} /\ (call[p] = "done" /\ res[p] # "raised" => mine[p] \in Analysis)
  /\ call[p] \in {"continue", "poll"} => mine[p] \in Analysis
  /\ cxl[p] = "stopping" => cfor[p] \in Analysis
ThreadsKnow == \A p \in Proc : ThreadKnows(p)

IInv == Types /\ TasksBacked /\ JobsKnow /\ ThreadsKnow

\* In an initial state there is no task and no job.
LEMMA InitInv == Init => IInv
  <1> SUFFICES ASSUME Init PROVE IInv
    OBVIOUS
  <1> USE DEF Init, NoTask, NoLease, NoAnalysis
  <1>1. Types
    <2>1. RowType
      BY NumberAssumption DEF RowType, States
    <2>2. JobType
      BY DEF JobType, Copy, States, Results, AnalysisStatus, PCs, Suspended
    <2>3. CallerType
      BY DEF CallerType, Copy, States
    <2>4. WorldType
      <3>1. stops \in 0 .. MaxStops /\ errors \in 0 .. MaxErrors
        BY NumberAssumption
      <3>2. ana \in [Analysis -> AnalysisStatus] /\ host \in [Analysis -> Proc \cup {NoProc}]
        BY DEF AnalysisStatus
      <3> QED
        BY <3>1, <3>2 DEF WorldType
    <2> QED
      BY <2>1, <2>2, <2>3, <2>4 DEF Types
  <1>2. TasksBacked
    BY DEF TasksBacked, Backed, Row
  <1>3. JobsKnow /\ ThreadsKnow
    BY DEF JobsKnow, JobKnows, ThreadsKnow, ThreadKnows, Drives
  <1> QED
    BY <1>1, <1>2, <1>3 DEF IInv

\* The parts of the invariant are the types of the module.
LEMMA TypeParts == Types => TypeOK
  BY DEF Types, RowType, JobType, CallerType, WorldType, Copy, TypeOK

-----------------------------------------------------------------------------
(* Type correctness. *)

\* The row changes by a save of some typed copy, or in one column.
LEMMA RowTypeStep == ASSUME Types, JobsKnow, [Next]_vars PROVE RowType'
  <1> USE NumberAssumption DEF Types, RowType
  <1>1. ASSUME NEW c \in Copy, Save(c) PROVE state' \in States /\ arts' \in Nat
    BY <1>1 DEF Save, Copy
  <1>2. ASSUME NEW p \in Proc, NEW s \in States, Publish(p, s) PROVE state' \in States /\ arts' \in Nat
    <2>1. [copy[p] EXCEPT !.state = s] \in Copy
      BY DEF JobType, Copy
    <2> QED
      BY <1>1, <1>2, <2>1 DEF Publish
  <1>3. ASSUME NEW p \in Proc, PublishArtifact(p) PROVE state' \in States /\ arts' \in Nat
    <2>1. [copy[p] EXCEPT !.arts = @ + 1] \in Copy
      BY DEF JobType, Copy
    <2> QED
      BY <1>1, <1>3, <2>1 DEF PublishArtifact
  <1>4. ASSUME NEW p \in Proc,
               PublishWorking(p) \/ PublishInput(p) \/ PublishProgress(p) \/ PublishCompleted(p)
               \/ Requeue(p) \/ GiveUp(p)
        PROVE  RowType'
    <2>1. \E s \in States : Publish(p, s)
      BY <1>4 DEF PublishWorking, PublishInput, PublishProgress, PublishCompleted, Requeue, GiveUp,
         States, Terminal
    <2>2. UNCHANGED <<internal, lease, attempts>>
      BY <1>4 DEF PublishWorking, PublishInput, PublishProgress, PublishCompleted, Requeue, GiveUp
    <2> QED
      BY <1>2, <2>1, <2>2
  <1>5. ASSUME NEW p \in Proc, PublishArtifact(p) PROVE RowType'
    BY <1>3, <1>5 DEF PublishArtifact
  <1>6. ASSUME NEW p \in Proc, StoreMessage(p) PROVE RowType'
    <2>1. state' \in States /\ arts' \in Nat
      BY <1>1, <1>6 DEF StoreMessage, States, CallerType
    <2> QED
      BY <1>6, <2>1 DEF StoreMessage
  <1>7. ASSUME NEW p \in Proc, CancelPublish(p) PROVE RowType'
    <2>1. [ccopy[p] EXCEPT !.state = "CANCELED"] \in Copy
      BY DEF CallerType, Copy, States, Terminal
    <2> QED
      BY <1>1, <1>7, <2>1 DEF CancelPublish
  <1>8. ASSUME NEW p \in Proc, RecordSave(p) PROVE RowType'
    BY <1>1, <1>8 DEF RecordSave, JobType
  <1>9. ASSUME NEW p \in Proc, ClaimExecution(p) PROVE RowType'
    BY <1>9 DEF ClaimExecution
  <1>10. ASSUME NEW p \in Proc, Raised(p) \/ End(p) \/ Exit(p) PROVE RowType'
    BY <1>10 DEF Raised, End, Exit, Free
  <1>11. CASE Tick
    BY <1>11 DEF Tick, NoLease
  <1>12. ASSUME UNCHANGED row PROVE RowType'
    BY <1>12 DEF row
  <1>13. ASSUME NEW p \in Proc,
                Accept(p) \/ CancelRead(p) \/ CancelStop(p) \/ ThreadStep(p) \/ StoreError(p) \/ Restart(p)
         PROVE  UNCHANGED row
    BY <1>13 DEF Accept, CancelRead, CancelStop, ThreadStep, StartAnalysis, ContinueAnalysis,
       PollAnalysis, StoreError, Restart
  <1>14. ASSUME NEW p \in Proc,
                Begin(p) \/ ReadInternal(p) \/ Resume(p) \/ RecordRead(p) \/ Polled(p) \/ Decide(p)
                \/ PollAgain(p) \/ Timeout(p) \/ ErrorRead(p)
         PROVE  UNCHANGED row
    BY <1>14 DEF Begin, ReadInternal, Resume, RecordRead, Polled, Decide, PollAgain, Timeout, ErrorRead
  <1>15. ASSUME NEW i \in Analysis, AnalysisEnds(i) PROVE UNCHANGED row
    BY <1>15 DEF AnalysisEnds
  <1>16. CASE UNCHANGED vars
    BY <1>12, <1>16 DEF vars
  <1> QED
    BY <1>4, <1>5, <1>6, <1>7, <1>8, <1>9, <1>10, <1>11, <1>12, <1>13, <1>14, <1>15, <1>16
    DEF Next, CallerStep, JobStep

\* A Task read from the row or changed by its owner stays a Task.
LEMMA CallerTypeStep == ASSUME Types, [Next]_vars PROVE CallerType'
  <1> USE DEF Types, RowType, CallerType
  <1>1. Row \in Copy /\ NoTask \in Copy
    BY DEF Row, NoTask, Copy, States
  <1>2. ASSUME NEW p \in Proc, Accept(p) \/ StoreMessage(p) PROVE CallerType'
    BY <1>1, <1>2 DEF Accept, StoreMessage, cancelling
  <1>3. ASSUME NEW p \in Proc, CancelRead(p) \/ CancelStop(p) \/ CancelPublish(p) PROVE CallerType'
    BY <1>1, <1>3 DEF CancelRead, CancelStop, CancelPublish, accepting
  <1>4. ASSUME NEW p \in Proc, StoreError(p) PROVE CallerType'
    BY <1>1, <1>4 DEF StoreError, JobStoreError, CancelStoreError, accepting
  <1>5. ASSUME NEW p \in Proc, Exit(p) PROVE CallerType'
    BY <1>1, <1>5 DEF Exit
  <1>6. ASSUME UNCHANGED <<accepting, cancelling>> PROVE CallerType'
    BY <1>6 DEF accepting, cancelling
  <1>7. ASSUME NEW p \in Proc, ThreadStep(p) \/ Restart(p) PROVE UNCHANGED <<accepting, cancelling>>
    BY <1>7 DEF ThreadStep, StartAnalysis, ContinueAnalysis, PollAnalysis, Restart, Rest
  <1>8. ASSUME NEW p \in Proc, JobStep(p) PROVE UNCHANGED Rest
    BY <1>8 DEF JobStep, ClaimExecution, Begin, PublishWorking, ReadInternal, Resume, RecordRead,
       RecordSave, PublishInput, Polled, PublishProgress, Decide, PollAgain, Timeout, PublishArtifact,
       PublishCompleted, Raised, ErrorRead, Requeue, GiveUp, End
  <1>9. CASE Tick \/ (\E i \in Analysis : AnalysisEnds(i)) \/ UNCHANGED vars
    BY <1>6, <1>9 DEF Tick, AnalysisEnds, Rest, vars
  <1> QED
    BY <1>2, <1>3, <1>4, <1>5, <1>6, <1>7, <1>8, <1>9 DEF Next, CallerStep, Rest

\* What a process sees of an analysis is a status.
LEMMA SeenType ==
  ASSUME WorldType, NEW p, NEW i \in Analysis, NEW s \in Seen(p, i)
  PROVE  s \in Results
  BY DEF WorldType, Seen, Results, AnalysisStatus

\* The result of a thread's call.
LEMMA AnswerType ==
  ASSUME JobType, NEW p \in Proc, NEW r \in Results, Answer(p, r)
  PROVE  /\ res' \in [Proc -> Results]
         /\ call' \in [Proc -> {"none", "start", "continue", "poll", "done"}]
  BY DEF JobType, Answer

\* A job's own state, and that of the thread it waits for.
LEMMA JobTypeStep == ASSUME Types, ThreadsKnow, [Next]_vars PROVE JobType'
  <1> USE DEF Types, RowType, JobType
  <1>1. Row \in Copy /\ NoTask \in Copy
    BY DEF Row, NoTask, Copy, States
  <1>2. "none" \in Results /\ "raised" \in Results /\ "awaiting" \in Results /\ "running" \in Results
    BY DEF Results, AnalysisStatus
  <1>3. ASSUME NEW p \in Proc, NEW s \in States, Publish(p, s) PROVE copy' \in [Proc -> Copy]
    BY <1>3 DEF Publish, Copy
  <1>4. ASSUME NEW p \in Proc,
               PublishWorking(p) \/ PublishInput(p) \/ PublishProgress(p) \/ PublishCompleted(p)
               \/ Requeue(p) \/ GiveUp(p)
        PROVE  JobType'
    <2>1. \E s \in States : Publish(p, s)
      BY <1>4 DEF PublishWorking, PublishInput, PublishProgress, PublishCompleted, Requeue, GiveUp,
         States, Terminal
    <2>2. \E l \in PCs : Go(p, l)
      BY <1>4 DEF PublishWorking, PublishInput, PublishProgress, PublishCompleted, Requeue, GiveUp,
         PCs, Body, Handler
    <2>3. UNCHANGED <<mine, polls, thread>>
      BY <1>4 DEF PublishWorking, PublishInput, PublishProgress, PublishCompleted, Requeue, GiveUp
    <2> QED
      BY <1>3, <2>1, <2>2, <2>3 DEF Go, thread
  <1>5. ASSUME NEW p \in Proc, PublishArtifact(p) PROVE JobType'
    BY <1>5 DEF PublishArtifact, Go, Copy, PCs, Body, thread
  <1>6. ASSUME NEW p \in Proc, NEW n \in Nat, Poll(p, n)
        PROVE  /\ pc' \in [Proc -> PCs] /\ copy' \in [Proc -> Copy] /\ polls' \in [Proc -> Nat]
               /\ call' \in [Proc -> {"none", "start", "continue", "poll", "done"}]
               /\ res' \in [Proc -> Results]
    BY <1>1, <1>2, <1>6 DEF Poll, Go, PCs, Suspended
  <1>7. ASSUME NEW p \in Proc, Resume(p) PROVE JobType'
    <2>1. CASE Poll(p, 1)
      BY <1>6, <1>7, <2>1 DEF Resume
    <2>2. CASE ~Poll(p, 1)
      BY <1>7, <2>2 DEF Resume, Go, PCs, Body, Handler
    <2> QED
      BY <2>1, <2>2
  <1>8. ASSUME NEW p \in Proc, RecordSave(p) PROVE JobType'
    <2>1. CASE Poll(p, 1)
      BY <1>6, <1>8, <2>1 DEF RecordSave
    <2>2. CASE ~Poll(p, 1)
      BY <1>8, <2>2 DEF RecordSave, Go, PCs, Body, thread
    <2> QED
      BY <2>1, <2>2
  <1>9. ASSUME NEW p \in Proc, PollAgain(p) PROVE JobType'
    <2>1. Poll(p, polls[p] + 1) /\ polls[p] + 1 \in Nat /\ UNCHANGED mine
      BY <1>9 DEF PollAgain
    <2> QED
      BY <1>6, <2>1
  <1>10. ASSUME NEW p \in Proc, Begin(p) \/ RecordRead(p) \/ Polled(p) \/ ErrorRead(p) \/ Raised(p)
         PROVE  JobType'
    BY <1>1, <1>10 DEF Begin, RecordRead, Polled, ErrorRead, Raised, Go, PCs, Body, Handler, thread
  <1>11. ASSUME NEW p \in Proc, ClaimExecution(p) \/ Timeout(p) PROVE JobType'
    BY <1>11 DEF ClaimExecution, Timeout, Go, PCs, Suspended, Handler, thread
  <1>12. ASSUME NEW p \in Proc, ReadInternal(p) PROVE JobType'
    BY <1>12 DEF ReadInternal, Go, PCs, Suspended
  <1>13. ASSUME NEW p \in Proc, Decide(p) PROVE JobType'
    BY <1>1, <1>2, <1>13 DEF Decide, Go, NextStage, PCs, Suspended, Body, Handler
  <1>14. ASSUME NEW p \in Proc, Finish(p) PROVE JobType'
    BY <1>1, <1>2, <1>14 DEF Finish, Go, PCs, Suspended
  <1>15. ASSUME NEW p \in Proc, StartAnalysis(p) PROVE JobType'
    <2>1. \E r \in Results : Answer(p, r)
      BY <1>2, <1>15 DEF StartAnalysis
    <2>2. mine' \in [Proc -> Analysis \cup {NoAnalysis}] /\ UNCHANGED <<pc, copy, polls>>
      BY <1>15 DEF StartAnalysis
    <2> QED
      BY <2>1, <2>2, AnswerType
  <1>16. ASSUME NEW p \in Proc, ContinueAnalysis(p) \/ PollAnalysis(p) PROVE JobType'
    <2>1. mine[p] \in Analysis
      BY <1>16 DEF ContinueAnalysis, PollAnalysis, ThreadsKnow, ThreadKnows
    <2>2. \E r \in Results : Answer(p, r)
      BY <1>2, <1>16, <2>1, SeenType DEF ContinueAnalysis, PollAnalysis
    <2>3. UNCHANGED job
      BY <1>16 DEF ContinueAnalysis, PollAnalysis
    <2> QED
      BY <2>2, <2>3, AnswerType DEF job
  <1>17. ASSUME NEW p \in Proc, StoreError(p) PROVE JobType'
    <2>1. CASE Finish(p)
      BY <1>14, <2>1
    <2>2. CASE \E l \in PCs : Go(p, l) /\ UNCHANGED <<copy, mine, polls, thread>>
      BY <2>2 DEF Go, thread
    <2>3. CASE UNCHANGED <<job, thread>>
      BY <2>3 DEF job, thread
    <2> QED
      BY <1>17, <2>1, <2>2, <2>3 DEF StoreError, JobStoreError, CancelStoreError, PCs, Suspended, Handler
  <1>18. ASSUME NEW p \in Proc, StoreMessage(p) \/ CancelPublish(p) \/ Restart(p) PROVE JobType'
    BY <1>18 DEF StoreMessage, CancelPublish, Restart, Schedule, Go, PCs, Suspended, thread
  <1>19. ASSUME NEW p \in Proc, Exit(p) PROVE JobType'
    BY <1>1, <1>2, <1>19 DEF Exit, Go, PCs, Suspended
  <1>20. ASSUME UNCHANGED <<job, thread>> PROVE JobType'
    BY <1>20 DEF job, thread
  <1>21. ASSUME NEW p \in Proc, Accept(p) \/ CancelRead(p) \/ CancelStop(p) PROVE JobType'
    BY <1>20, <1>21 DEF Accept, CancelRead, CancelStop
  <1>22. CASE Tick \/ (\E i \in Analysis : AnalysisEnds(i)) \/ UNCHANGED vars
    BY <1>20, <1>22 DEF Tick, AnalysisEnds, vars
  <1>23. ASSUME NEW p \in Proc, End(p) PROVE JobType'
    BY <1>14, <1>23 DEF End
  <1> QED
    BY <1>4, <1>5, <1>7, <1>8, <1>9, <1>10, <1>11, <1>12, <1>13, <1>15, <1>16, <1>17, <1>18,
       <1>19, <1>21, <1>22, <1>23 DEF Next, CallerStep, JobStep, ThreadStep

\* The analyses and the processes that host them.
LEMMA WorldTypeStep == ASSUME Types, ThreadsKnow, [Next]_vars PROVE WorldType'
  <1> USE DEF Types, WorldType
  <1>1. ASSUME NEW p \in Proc, StartAnalysis(p) PROVE WorldType'
    BY <1>1 DEF StartAnalysis, AnalysisStatus, Rest, analyses, counters
  <1>2. ASSUME NEW p \in Proc, ContinueAnalysis(p) PROVE WorldType'
    <2>1. mine[p] \in Analysis
      BY <1>2 DEF ContinueAnalysis, ThreadsKnow, ThreadKnows
    <2> QED
      BY <1>2, <2>1 DEF ContinueAnalysis, AnalysisStatus, Rest, counters
  <1>3. ASSUME NEW p \in Proc, CancelStop(p) PROVE WorldType'
    <2>1. cfor[p] \in Analysis
      BY <1>3 DEF CancelStop, ThreadsKnow, ThreadKnows
    <2> QED
      BY <1>3, <2>1 DEF CancelStop, AnalysisStatus, counters
  <1>4. ASSUME NEW i \in Analysis, AnalysisEnds(i) PROVE WorldType'
    BY <1>4 DEF AnalysisEnds, AnalysisStatus, Rest, counters
  <1>5. ASSUME NEW p \in Proc, StoreError(p) PROVE WorldType'
    BY <1>5, NumberAssumption DEF StoreError, analyses
  <1>6. ASSUME NEW p \in Proc, Exit(p) PROVE WorldType'
    BY <1>6, NumberAssumption DEF Exit, AnalysisStatus
  <1>7. ASSUME NEW p \in Proc, Restart(p) \/ StoreMessage(p) PROVE WorldType'
    BY <1>7 DEF Restart, StoreMessage, analyses, counters
  <1>8. ASSUME UNCHANGED <<up, analyses, continued, counters>> PROVE WorldType'
    BY <1>8 DEF analyses, counters
  <1>9. ASSUME NEW p \in Proc, Accept(p) \/ CancelRead(p) \/ CancelPublish(p) \/ PollAnalysis(p)
        PROVE  WorldType'
    BY <1>8, <1>9 DEF Accept, CancelRead, CancelPublish, PollAnalysis, Rest
  <1>10. ASSUME NEW p \in Proc, JobStep(p) PROVE UNCHANGED <<Rest, analyses, counters>>
    BY <1>10 DEF JobStep, ClaimExecution, Begin, PublishWorking, ReadInternal, Resume, RecordRead,
       RecordSave, PublishInput, Polled, PublishProgress, Decide, PollAgain, Timeout, PublishArtifact,
       PublishCompleted, Raised, ErrorRead, Requeue, GiveUp, End
  <1>11. CASE Tick \/ UNCHANGED vars
    BY <1>8, <1>11 DEF Tick, vars
  <1> QED
    BY <1>1, <1>2, <1>3, <1>4, <1>5, <1>6, <1>7, <1>8, <1>9, <1>10, <1>11
    DEF Next, CallerStep, ThreadStep, Rest

-----------------------------------------------------------------------------
(* What stays true of the row. *)

\* Terminal is final, an analysis once recorded stays recorded, and attempts
\* only grow: what a Task was backed by cannot go away.
LEMMA Forward ==
  ASSUME Types, JobsKnow, [Next]_vars
  PROVE  /\ state \in Terminal => state' \in Terminal
         /\ internal # NoAnalysis => internal' # NoAnalysis
         /\ attempts' >= attempts
  <1> DEFINE Moves == /\ state \in Terminal => state' \in Terminal
                      /\ internal # NoAnalysis => internal' # NoAnalysis
                      /\ attempts' >= attempts
  <1>1. attempts \in Nat
    BY DEF Types, RowType
  <1>2. ASSUME NEW c, Save(c) \/ UNCHANGED state, UNCHANGED <<internal, attempts>> PROVE Moves
    BY <1>1, <1>2 DEF Save, Accepted
  <1>3. ASSUME NEW p \in Proc, NEW s, Publish(p, s), UNCHANGED <<internal, attempts>> PROVE Moves
    BY <1>2, <1>3 DEF Publish
  <1>4. ASSUME NEW p \in Proc,
               PublishWorking(p) \/ PublishInput(p) \/ PublishProgress(p) \/ PublishCompleted(p)
               \/ Requeue(p) \/ GiveUp(p)
        PROVE  Moves
    BY <1>3, <1>4 DEF PublishWorking, PublishInput, PublishProgress, PublishCompleted, Requeue, GiveUp
  <1>5. ASSUME NEW p \in Proc, PublishArtifact(p) PROVE Moves
    BY <1>2, <1>5 DEF PublishArtifact
  <1>6. ASSUME NEW p \in Proc, StoreMessage(p) PROVE Moves
    BY <1>1, <1>2, <1>6 DEF StoreMessage, Terminal
  <1>7. ASSUME NEW p \in Proc, CancelPublish(p) PROVE Moves
    BY <1>2, <1>7 DEF CancelPublish
  <1>8. ASSUME NEW p \in Proc, RecordSave(p) PROVE Moves
    <2>1. mine[p] # NoAnalysis
      BY <1>8 DEF RecordSave, JobsKnow, JobKnows, Drives, Analysis, NoAnalysis
    <2> QED
      BY <1>1, <1>8, <2>1 DEF RecordSave, Save, Accepted
  <1>9. ASSUME NEW p \in Proc, ClaimExecution(p) PROVE Moves
    BY <1>1, <1>9 DEF ClaimExecution
  <1>10. ASSUME UNCHANGED <<state, internal, attempts>> PROVE Moves
    BY <1>1, <1>10
  <1>11. ASSUME NEW p \in Proc,
                Accept(p) \/ CancelRead(p) \/ CancelStop(p) \/ ThreadStep(p) \/ StoreError(p)
                \/ Restart(p) \/ Exit(p)
         PROVE  Moves
    BY <1>10, <1>11 DEF Accept, CancelRead, CancelStop, ThreadStep, StartAnalysis, ContinueAnalysis,
       PollAnalysis, StoreError, Restart, Exit, row
  <1>12. ASSUME NEW p \in Proc,
                Begin(p) \/ ReadInternal(p) \/ Resume(p) \/ RecordRead(p) \/ Polled(p) \/ Decide(p)
                \/ PollAgain(p) \/ Timeout(p) \/ ErrorRead(p) \/ Raised(p) \/ End(p)
         PROVE  Moves
    BY <1>10, <1>12 DEF Begin, ReadInternal, Resume, RecordRead, Polled, Decide, PollAgain, Timeout,
       ErrorRead, Raised, End, row
  <1>13. ASSUME Tick \/ (\E i \in Analysis : AnalysisEnds(i)) \/ UNCHANGED vars PROVE Moves
    BY <1>10, <1>13 DEF Tick, AnalysisEnds, vars, row
  <1> HIDE DEF Moves
  <1>14. ASSUME NEW p \in Proc, JobStep(p) PROVE Moves
    BY <1>4, <1>5, <1>8, <1>9, <1>12, <1>14 DEF JobStep
  <1>15. ASSUME NEW p \in Proc, CallerStep(p) PROVE Moves
    BY <1>6, <1>7, <1>11, <1>15 DEF CallerStep
  <1>16. Moves
    BY <1>11, <1>13, <1>14, <1>15 DEF Next
  <1> QED
    BY <1>16 DEF Moves

\* A Task that a step leaves alone stays backed.
LEMMA BackedStays ==
  ASSUME Types, Types', JobsKnow, [Next]_vars, NEW c \in Copy, Backed(c)
  PROVE  Backed(c)'
  <1>1. Known => Known'
    BY Forward DEF Known
  <1>2. attempts >= MaxAttempts => attempts' >= MaxAttempts
    BY Forward, NumberAssumption DEF Types, RowType
  <1> QED
    BY <1>1, <1>2 DEF Backed

\* A save writes a backed row if the Task it saves is.
LEMMA SaveBacked ==
  ASSUME Types, Types', JobsKnow, TasksBacked, [Next]_vars,
         NEW c \in Copy, Save(c), Backed(c)'
  PROVE  Backed(Row)'
  <1>1. CASE state' = c.state /\ arts' = c.arts
    BY <1>1 DEF Backed, Row
  <1>2. CASE UNCHANGED <<state, arts>>
    <2>1. Row \in Copy /\ Row' = Row
      BY <1>2 DEF Types, RowType, Row, Copy
    <2>2. Backed(Row)
      BY DEF TasksBacked
    <2> QED
      BY <2>1, <2>2, BackedStays DEF Backed
  <1> QED
    BY <1>1, <1>2 DEF Save

\* A publication, too; it leaves the job a backed Task.
LEMMA PublishBacked ==
  ASSUME Types, Types', JobsKnow, TasksBacked, [Next]_vars,
         NEW p \in Proc, NEW s \in States, Publish(p, s),
         copy[p].state \notin Terminal =>
           \A c \in Copy : c = [copy[p] EXCEPT !.state = s] => Backed(c)'
  PROVE  Backed(Row)' /\ Backed(copy[p])'
  <1>1. copy[p] \in Copy /\ [copy[p] EXCEPT !.state = s] \in Copy
    BY DEF Types, JobType, Copy
  <1>2. CASE copy[p].state \in Terminal
    <2>1. UNCHANGED <<state, arts, copy>>
      BY <1>2 DEF Publish
    <2>2. Row \in Copy /\ Row' = Row
      BY <2>1 DEF Types, RowType, Row, Copy
    <2> QED
      BY <1>1, <2>1, <2>2, BackedStays DEF TasksBacked, Backed
  <1>3. CASE copy[p].state \notin Terminal
    <2>1. Save([copy[p] EXCEPT !.state = s]) /\ copy'[p] = [copy[p] EXCEPT !.state = s]
      BY <1>3 DEF Publish, Types, JobType
    <2> QED
      BY <1>1, <1>3, <2>1, SaveBacked DEF Backed
  <1> QED
    BY <1>2, <1>3

\* Each status a job publishes is backed by what it made sure of before.
LEMMA Publishes ==
  ASSUME Types, Types', JobsKnow, TasksBacked, [Next]_vars, NEW p \in Proc,
         PublishWorking(p) \/ PublishInput(p) \/ PublishProgress(p) \/ PublishCompleted(p)
         \/ Requeue(p) \/ GiveUp(p)
  PROVE  \E s \in States :
           /\ Publish(p, s)
           /\ copy[p].state \notin Terminal =>
                \A c \in Copy : c = [copy[p] EXCEPT !.state = s] => Backed(c)'
  <1>1. \A s \in States, c \in Copy :
          c = [copy[p] EXCEPT !.state = s] => c.state = s /\ c.arts = copy[p].arts
    BY DEF Types, JobType, Copy
  <1>2. CASE PublishWorking(p) \/ PublishProgress(p) \/ Requeue(p)
    <2>1. PICK s \in {"WORKING", "SUBMITTED"} : Publish(p, s)
      BY <1>2 DEF PublishWorking, PublishProgress, Requeue
    <2>2. s \in States
      BY DEF States
    <2>3. \A c \in Copy : c = [copy[p] EXCEPT !.state = s] => Backed(c)'
      BY <1>1, <2>2 DEF Backed
    <2> QED
      BY <2>1, <2>2, <2>3
  <1>3. CASE PublishInput(p)
    <2>1. Publish(p, "INPUT_REQUIRED") /\ Known
      BY <1>3 DEF PublishInput, JobsKnow, JobKnows, Drives
    <2>2. Known'
      BY <2>1, Forward DEF Known
    <2> QED
      BY <1>1, <2>1, <2>2 DEF Backed, States
  <1>4. CASE PublishCompleted(p)
    <2>1. Publish(p, "COMPLETED") /\ (copy[p].state \in Terminal \/ copy[p].arts > 0)
      BY <1>4 DEF PublishCompleted, JobsKnow, JobKnows
    <2> QED
      BY <1>1, <2>1 DEF Backed, States, Terminal
  <1>5. CASE GiveUp(p)
    <2>1. Publish(p, "FAILED") /\ attempts >= MaxAttempts /\ attempts' = attempts
      BY <1>5 DEF GiveUp, JobsKnow, JobKnows
    <2> QED
      BY <1>1, <2>1 DEF Backed, States, Terminal
  <1> QED
    BY <1>2, <1>3, <1>4, <1>5

\* _publish_artifact saves a copy with one artifact more.
LEMMA ArtifactBacked ==
  ASSUME Types, Types', JobsKnow, TasksBacked, [Next]_vars, NEW p \in Proc, PublishArtifact(p)
  PROVE  /\ Backed(Row)' /\ Backed(copy[p])'
         /\ copy'[p].state \in Terminal \/ copy'[p].arts > 0
  <1>1. copy[p] \in Copy
    BY DEF Types, JobType
  <1>2. CASE copy[p].state \in Terminal
    <2>1. UNCHANGED <<state, arts, copy>>
      BY <1>2 DEF PublishArtifact
    <2>2. Row \in Copy /\ Row' = Row
      BY <2>1 DEF Types, RowType, Row, Copy
    <2> QED
      BY <1>1, <1>2, <2>1, <2>2, BackedStays DEF TasksBacked, Backed
  <1>3. CASE copy[p].state \notin Terminal
    <2> DEFINE c == [copy[p] EXCEPT !.arts = @ + 1]
    <2>1. Save(c) /\ copy'[p] = c
      BY <1>3 DEF PublishArtifact, Types, JobType
    <2>2. c \in Copy /\ c.state = copy[p].state /\ c.arts = copy[p].arts + 1 /\ copy[p].arts \in Nat
      BY <1>1 DEF Copy
    <2>3. Backed(copy[p]) /\ (Known => Known')
      BY Forward DEF TasksBacked, Known
    <2>4. c.arts > 0
      BY <2>2
    <2>5. c.state = "INPUT_REQUIRED" => Known'
      BY <2>2, <2>3 DEF Backed
    <2>6. c.state # "FAILED" /\ c.state # "COMPLETED"
      BY <1>3, <2>2 DEF Terminal
    <2> HIDE DEF c
    <2>7. Backed(Row)' /\ Backed(copy[p])'
      BY <2>1, <2>2, <2>4, <2>5, <2>6, SaveBacked DEF Backed
    <2> QED
      BY <2>1, <2>4, <2>7
  <1> QED
    BY <1>2, <1>3

\* A coroutine that keeps its Task, drops it, or reads the row has a backed one.
LEMMA KeptBacked ==
  ASSUME Types, Types', JobsKnow, TasksBacked, [Next]_vars
  PROVE  /\ UNCHANGED <<state, arts>> => Backed(Row)'
         /\ \A q \in Proc :
              /\ copy'[q] \in {copy[q], Row, NoTask} => Backed(copy[q])'
              /\ acopy'[q] \in {acopy[q], Row, NoTask} => Backed(acopy[q])'
              /\ ccopy'[q] \in {ccopy[q], Row, NoTask} => Backed(ccopy[q])'
  <1>1. Row \in Copy /\ NoTask \in Copy
    BY DEF Types, RowType, Row, NoTask, Copy, States
  <1>2. Backed(Row) /\ Backed(NoTask)
    BY DEF TasksBacked, Backed, NoTask
  <1>3. UNCHANGED <<state, arts>> => Row' = Row
    BY DEF Row
  <1>4. ASSUME NEW q \in Proc
        PROVE  /\ copy[q] \in Copy /\ acopy[q] \in Copy /\ ccopy[q] \in Copy
               /\ Backed(copy[q]) /\ Backed(acopy[q]) /\ Backed(ccopy[q])
    BY DEF Types, JobType, CallerType, TasksBacked
  <1> QED
    BY <1>1, <1>2, <1>3, <1>4, BackedStays DEF Backed

\* The row itself.
LEMMA RowBacked ==
  ASSUME Types, Types', JobsKnow, TasksBacked, [Next]_vars
  PROVE  Backed(Row)'
  <1>1. ASSUME UNCHANGED <<state, arts>> PROVE Backed(Row)'
    BY <1>1, KeptBacked
  <1>2. ASSUME NEW p \in Proc,
               PublishWorking(p) \/ PublishInput(p) \/ PublishProgress(p) \/ PublishCompleted(p)
               \/ Requeue(p) \/ GiveUp(p)
        PROVE  Backed(Row)'
    <2>1. PICK s \in States :
            /\ Publish(p, s)
            /\ copy[p].state \notin Terminal =>
                 \A c \in Copy : c = [copy[p] EXCEPT !.state = s] => Backed(c)'
      BY <1>2, Publishes
    <2> QED
      BY <2>1, PublishBacked
  <1>3. ASSUME NEW p \in Proc, PublishArtifact(p) PROVE Backed(Row)'
    BY <1>3, ArtifactBacked
  <1>4. ASSUME NEW p \in Proc, StoreMessage(p) PROVE Backed(Row)'
    <2>1. CASE acc[p] = "create"
      <3>1. CASE UNCHANGED <<state, arts>>
        BY <1>1, <3>1
      <3>2. CASE state' = "SUBMITTED"
        BY <3>2 DEF Backed, Row
      <3> QED
        BY <1>4, <2>1, <3>1, <3>2 DEF StoreMessage
    <2>2. CASE acc[p] # "create"
      <3>1. Save(acopy[p]) /\ acopy[p] \in Copy /\ Backed(acopy[p])
        BY <1>4, <2>2 DEF StoreMessage, Types, CallerType, TasksBacked
      <3> QED
        BY <3>1, BackedStays, SaveBacked
    <2> QED
      BY <2>1, <2>2
  <1>5. ASSUME NEW p \in Proc, CancelPublish(p) PROVE Backed(Row)'
    <2>1. PICK c \in Copy : c.state = "CANCELED" /\ Save(c)
      <3>1. [ccopy[p] EXCEPT !.state = "CANCELED"] \in Copy
            /\ [ccopy[p] EXCEPT !.state = "CANCELED"].state = "CANCELED"
        BY DEF Types, CallerType, Copy, States, Terminal
      <3> QED
        BY <1>5, <3>1 DEF CancelPublish
    <2>2. Backed(c)'
      BY <2>1 DEF Backed
    <2> QED
      BY <2>1, <2>2, SaveBacked
  <1>6. ASSUME NEW p \in Proc, RecordSave(p) PROVE Backed(Row)'
    <2>1. Save(copy[p]) /\ copy[p] \in Copy /\ Backed(copy[p])
      BY <1>6 DEF RecordSave, Types, JobType, TasksBacked
    <2> QED
      BY <2>1, BackedStays, SaveBacked
  <1>7. ASSUME NEW p \in Proc,
               Accept(p) \/ CancelRead(p) \/ CancelStop(p) \/ ThreadStep(p) \/ StoreError(p)
               \/ Restart(p) \/ Exit(p)
        PROVE  Backed(Row)'
    BY <1>1, <1>7 DEF Accept, CancelRead, CancelStop, ThreadStep, StartAnalysis, ContinueAnalysis,
       PollAnalysis, StoreError, Restart, Exit, row
  <1>8. ASSUME NEW p \in Proc,
               Begin(p) \/ ReadInternal(p) \/ Resume(p) \/ RecordRead(p) \/ Polled(p) \/ Decide(p)
               \/ PollAgain(p) \/ Timeout(p) \/ ErrorRead(p) \/ Raised(p) \/ End(p)
               \/ ClaimExecution(p)
        PROVE  Backed(Row)'
    BY <1>1, <1>8 DEF Begin, ReadInternal, Resume, RecordRead, Polled, Decide, PollAgain, Timeout,
       ErrorRead, Raised, End, ClaimExecution, row
  <1>9. CASE Tick \/ (\E i \in Analysis : AnalysisEnds(i)) \/ UNCHANGED vars
    BY <1>1, <1>9 DEF Tick, AnalysisEnds, vars, row
  <1>10. ASSUME NEW p \in Proc, JobStep(p) PROVE Backed(Row)'
    BY <1>2, <1>3, <1>6, <1>8, <1>10 DEF JobStep
  <1>11. ASSUME NEW p \in Proc, CallerStep(p) PROVE Backed(Row)'
    BY <1>4, <1>5, <1>7, <1>11 DEF CallerStep
  <1> QED
    BY <1>7, <1>9, <1>10, <1>11 DEF Next

\* The Tasks in the memory of the jobs.
LEMMA CopiesBacked ==
  ASSUME Types, Types', JobsKnow, TasksBacked, [Next]_vars
  PROVE  \A q \in Proc : Backed(copy[q])'
  <1> DEFINE Others(p) == \A q \in Proc : q # p => copy'[q] = copy[q]
             Reads == \A q \in Proc : copy'[q] \in {copy[q], Row, NoTask}
  <1>1. ASSUME Reads PROVE \A q \in Proc : Backed(copy[q])'
    BY <1>1, KeptBacked
  <1>2. ASSUME NEW p \in Proc, Others(p), Backed(copy[p])' PROVE \A q \in Proc : Backed(copy[q])'
    BY <1>2, KeptBacked
  <1>3. ASSUME NEW p \in Proc,
               PublishWorking(p) \/ PublishInput(p) \/ PublishProgress(p) \/ PublishCompleted(p)
               \/ Requeue(p) \/ GiveUp(p)
        PROVE  \A q \in Proc : Backed(copy[q])'
    <2>1. PICK s \in States :
            /\ Publish(p, s)
            /\ copy[p].state \notin Terminal =>
                 \A c \in Copy : c = [copy[p] EXCEPT !.state = s] => Backed(c)'
      BY <1>3, Publishes
    <2>2. Backed(copy[p])'
      BY <2>1, PublishBacked
    <2>3. Others(p)
      BY <2>1 DEF Publish, Types, JobType
    <2> QED
      BY <1>2, <2>2, <2>3
  <1>4. ASSUME NEW p \in Proc, PublishArtifact(p) PROVE \A q \in Proc : Backed(copy[q])'
    <2>1. Others(p)
      BY <1>4 DEF PublishArtifact, Types, JobType
    <2> QED
      BY <1>2, <1>4, <2>1, ArtifactBacked
  <1> USE DEF Types, JobType
  <1>5. ASSUME NEW p \in Proc,
               Begin(p) \/ RecordRead(p) \/ Polled(p) \/ ErrorRead(p) \/ Raised(p) \/ End(p) \/ Exit(p)
        PROVE  Reads
    BY <1>5 DEF Begin, RecordRead, Polled, ErrorRead, Raised, End, Finish, Exit
  <1>6. ASSUME NEW p \in Proc, Resume(p) \/ RecordSave(p) \/ PollAgain(p) \/ Decide(p) PROVE Reads
    BY <1>6 DEF Resume, RecordSave, PollAgain, Decide, Poll
  <1>7. ASSUME NEW p \in Proc, StoreError(p) PROVE Reads
    BY <1>7 DEF StoreError, JobStoreError, CancelStoreError, Finish, job
  <1>8. ASSUME UNCHANGED copy PROVE Reads
    BY <1>8
  <1>9. ASSUME NEW p \in Proc,
               Accept(p) \/ CancelRead(p) \/ CallerStep(p) \/ ThreadStep(p) \/ Restart(p)
               \/ ClaimExecution(p) \/ ReadInternal(p) \/ Timeout(p)
        PROVE  UNCHANGED copy
    BY <1>9 DEF Accept, CancelRead, CallerStep, StoreMessage, CancelStop, CancelPublish, ThreadStep,
       StartAnalysis, ContinueAnalysis, PollAnalysis, Restart, ClaimExecution, ReadInternal, Timeout, job
  <1>10. ASSUME Tick \/ (\E i \in Analysis : AnalysisEnds(i)) \/ UNCHANGED vars PROVE UNCHANGED copy
    BY <1>10 DEF Tick, AnalysisEnds, vars, job
  <1> HIDE DEF Reads
  <1>11. ASSUME NEW p \in Proc, JobStep(p) PROVE Reads \/ \A q \in Proc : Backed(copy[q])'
    BY <1>3, <1>4, <1>5, <1>6, <1>8, <1>9, <1>11 DEF JobStep
  <1> QED
    BY <1>1, <1>5, <1>7, <1>8, <1>9, <1>10, <1>11 DEF Next

\* The Tasks in the memory of a message or a cancellation under way.
LEMMA CallersBacked ==
  ASSUME Types, Types', JobsKnow, TasksBacked, [Next]_vars
  PROVE  \A q \in Proc : Backed(acopy[q])' /\ Backed(ccopy[q])'
  <1> DEFINE Reads == \A q \in Proc : /\ acopy'[q] \in {acopy[q], Row, NoTask}
                                      /\ ccopy'[q] \in {ccopy[q], Row, NoTask}
  <1> USE DEF Types, CallerType
  <1>1. ASSUME NEW p \in Proc, Accept(p) \/ StoreMessage(p) PROVE Reads
    BY <1>1 DEF Accept, StoreMessage, cancelling
  <1>2. ASSUME NEW p \in Proc, CancelRead(p) \/ CancelStop(p) \/ CancelPublish(p) PROVE Reads
    BY <1>2 DEF CancelRead, CancelStop, CancelPublish, accepting
  <1>3. ASSUME NEW p \in Proc, StoreError(p) \/ Exit(p) PROVE Reads
    BY <1>3 DEF StoreError, JobStoreError, CancelStoreError, Exit, accepting
  <1>4. ASSUME UNCHANGED <<acopy, ccopy>> PROVE Reads
    BY <1>4
  <1>5. ASSUME NEW p \in Proc, ThreadStep(p) \/ Restart(p) PROVE UNCHANGED <<acopy, ccopy>>
    BY <1>5 DEF ThreadStep, StartAnalysis, ContinueAnalysis, PollAnalysis, Restart, Rest, accepting,
       cancelling
  <1>6. ASSUME NEW p \in Proc, JobStep(p) PROVE UNCHANGED Rest
    BY <1>6 DEF JobStep, ClaimExecution, Begin, PublishWorking, ReadInternal, Resume, RecordRead,
       RecordSave, PublishInput, Polled, PublishProgress, Decide, PollAgain, Timeout, PublishArtifact,
       PublishCompleted, Raised, ErrorRead, Requeue, GiveUp, End
  <1>7. ASSUME Tick \/ (\E i \in Analysis : AnalysisEnds(i)) \/ UNCHANGED vars
        PROVE  UNCHANGED <<acopy, ccopy>>
    BY <1>7 DEF Tick, AnalysisEnds, Rest, vars, accepting, cancelling
  <1>8. UNCHANGED Rest => UNCHANGED <<acopy, ccopy>>
    BY DEF Rest, accepting, cancelling
  <1> HIDE DEF Reads
  <1>9. Reads
    BY <1>1, <1>2, <1>3, <1>4, <1>5, <1>6, <1>7, <1>8 DEF Next, CallerStep
  <1> QED
    BY <1>9, KeptBacked DEF Reads

-----------------------------------------------------------------------------
(* What the jobs and their threads know. *)

\* A job that a step does not concern knows what it knew.
LEMMA JobSame ==
  ASSUME Types, Types', JobsKnow, [Next]_vars, NEW q \in Proc,
         UNCHANGED <<pc[q], copy[q]>>, mine'[q] \in Analysis \cup {mine[q]}
  PROVE  JobKnows(q)'
  <1>1. Known => Known'
    BY Forward DEF Known
  <1>2. attempts >= MaxAttempts => attempts' >= MaxAttempts
    BY Forward, NumberAssumption DEF Types, RowType
  <1> QED
    BY <1>1, <1>2 DEF JobsKnow, JobKnows

\* A job goes on only where it has made sure of what the next place needs.
LEMMA JobsKnowStep ==
  ASSUME IInv, Types', [Next]_vars
  PROVE  JobsKnow'
  <1> USE DEF IInv
  <1> DEFINE Others(p) == \A q \in Proc : q # p => UNCHANGED <<pc[q], copy[q], mine[q]>>
             Owing == Drives \cup {"completing", "givingUp"}
  <1>1. Known => Known'
    BY Forward DEF Known
  <1>2. ASSUME NEW p \in Proc, Others(p), JobKnows(p)' PROVE JobsKnow'
    BY <1>2, JobSame DEF JobsKnow
  <1>3. ASSUME NEW p \in Proc, Others(p), pc'[p] \notin Owing PROVE JobsKnow'
    BY <1>2, <1>3 DEF JobKnows
  <1>4. ASSUME NEW p \in Proc, NEW l, Go(p, l), UNCHANGED mine,
               \A q \in Proc : q # p => copy'[q] = copy[q]
        PROVE  Others(p) /\ pc'[p] = l
    BY <1>4 DEF Go, Types, JobType
  <1>5. ASSUME NEW p \in Proc, NEW s, Publish(p, s) PROVE \A q \in Proc : q # p => copy'[q] = copy[q]
    BY <1>5 DEF Publish, Types, JobType
  <1>6. ASSUME NEW p \in Proc, PublishWorking(p) \/ PublishInput(p) \/ PublishCompleted(p)
               \/ Requeue(p) \/ GiveUp(p)
        PROVE  JobsKnow'
    <2>1. PICK l \in {"readInternal", "published", "requeued", "ending"} : Go(p, l)
      BY <1>6 DEF PublishWorking, PublishInput, PublishCompleted, Requeue, GiveUp
    <2>2. UNCHANGED mine /\ \A q \in Proc : q # p => copy'[q] = copy[q]
      BY <1>5, <1>6 DEF PublishWorking, PublishInput, PublishCompleted, Requeue, GiveUp
    <2>3. Others(p) /\ pc'[p] = l
      BY <1>4, <2>1, <2>2
    <2> QED
      BY <1>3, <2>1, <2>3 DEF Drives
  <1>7. ASSUME NEW p \in Proc, PublishProgress(p) PROVE JobsKnow'
    <2>1. Go(p, "deciding") /\ UNCHANGED mine /\ \A q \in Proc : q # p => copy'[q] = copy[q]
      BY <1>5, <1>7 DEF PublishProgress
    <2>2. mine[p] \in Analysis /\ Known
      BY <1>7 DEF PublishProgress, JobsKnow, JobKnows, Drives
    <2>3. Others(p) /\ pc'[p] = "deciding"
      BY <1>4, <2>1
    <2> QED
      BY <1>1, <1>2, <2>1, <2>2, <2>3 DEF JobKnows
  <1>8. ASSUME NEW p \in Proc, PublishArtifact(p) PROVE JobsKnow'
    <2>1. Go(p, "completing") /\ UNCHANGED mine /\ \A q \in Proc : q # p => copy'[q] = copy[q]
      BY <1>8 DEF PublishArtifact, Types, JobType
    <2>2. copy'[p].state \in Terminal \/ copy'[p].arts > 0
      BY <1>8, ArtifactBacked
    <2>3. Others(p) /\ pc'[p] = "completing"
      BY <1>4, <2>1
    <2> QED
      BY <1>2, <2>2, <2>3 DEF JobKnows, Drives
  <1>9. ASSUME NEW p \in Proc, RecordSave(p) PROVE JobsKnow'
    <2>1. mine[p] \in Analysis /\ UNCHANGED mine
      BY <1>9 DEF RecordSave, JobsKnow, JobKnows, Drives
    <2>2. Known'
      BY <1>9, <2>1 DEF RecordSave, Save, Accepted, Known, Analysis, NoAnalysis
    <2>3. PICK l \in {"asking", "polling"} : Go(p, l)
      BY <1>9 DEF RecordSave, Poll
    <2>4. \A q \in Proc : q # p => copy'[q] = copy[q]
      BY <1>9 DEF RecordSave, Poll, Types, JobType
    <2>5. Others(p) /\ pc'[p] = l
      BY <1>4, <2>1, <2>3, <2>4
    <2> QED
      BY <1>2, <2>1, <2>2, <2>3, <2>5 DEF JobKnows
  <1>10. ASSUME NEW p \in Proc, Resume(p) PROVE JobsKnow'
    <2>1. \A q \in Proc : q # p => copy'[q] = copy[q]
      BY <1>10 DEF Resume, Poll, Types, JobType
    <2>2. UNCHANGED mine /\ pc[p] \in Waiting /\ call[p] = "done"
      BY <1>10 DEF Resume
    <2>3. CASE pc[p] = "starting"
      <3>1. PICK l \in {"raised", "recordRead"} : Go(p, l) /\ (l = "recordRead" => res[p] # "raised")
        <4>1. CASE res[p] = "raised"
          <5>1. Go(p, "raised")
            BY <1>10, <2>3, <4>1 DEF Resume
          <5> QED
            BY <5>1, <4>1
        <4>2. CASE res[p] # "raised"
          <5>1. Go(p, "recordRead")
            BY <1>10, <2>3, <4>2 DEF Resume
          <5> QED
            BY <5>1, <4>2
        <4> QED
          BY <4>1, <4>2
      <3>2. Others(p) /\ pc'[p] = l
        BY <1>4, <2>1, <2>2, <3>1
      <3>3. l = "recordRead" => mine[p] \in Analysis
        BY <2>2, <2>3, <3>1 DEF ThreadsKnow, ThreadKnows
      <3> QED
        BY <1>2, <2>2, <3>1, <3>2, <3>3 DEF JobKnows, Drives
    <2>4. CASE pc[p] # "starting"
      <3>1. pc[p] \in {"continuing", "polling"}
        BY <2>2, <2>4 DEF Waiting
      <3>2. mine[p] \in Analysis /\ Known
        BY <3>1 DEF JobsKnow, JobKnows, Drives
      <3>3. PICK l \in {"raised", "polled", "asking", "polling"} : Go(p, l)
        BY <1>10, <3>1 DEF Resume, Poll
      <3>4. Others(p) /\ pc'[p] = l
        BY <1>4, <2>1, <2>2, <3>3
      <3> QED
        BY <1>1, <1>2, <2>2, <3>2, <3>3, <3>4 DEF JobKnows
    <2> QED
      BY <2>3, <2>4
  <1>11. ASSUME NEW p \in Proc, ReadInternal(p) PROVE JobsKnow'
    <2>1. Others(p)
      BY <1>11 DEF ReadInternal, Go, Types, JobType
    <2>2. CASE internal = NoAnalysis
      <3>1. pc'[p] = "starting"
        BY <1>11, <2>2 DEF ReadInternal, Go, Types, JobType
      <3> QED
        BY <1>3, <2>1, <3>1 DEF Drives
    <2>3. CASE internal # NoAnalysis
      <3>1. pc'[p] = "continuing" /\ mine'[p] = internal /\ internal \in Analysis
        BY <1>11, <2>3 DEF ReadInternal, Go, Types, JobType, RowType
      <3>2. Known'
        BY <1>1, <2>3 DEF Known
      <3> QED
        BY <1>2, <2>1, <3>1, <3>2 DEF JobKnows
    <2> QED
      BY <2>2, <2>3
  <1>12. ASSUME NEW p \in Proc, Polled(p) \/ Decide(p) \/ PollAgain(p) PROVE JobsKnow'
    <2>1. UNCHANGED mine /\ \A q \in Proc : q # p => copy'[q] = copy[q]
      BY <1>12 DEF Polled, Decide, PollAgain, Poll, Types, JobType
    <2>2. mine[p] \in Analysis /\ Known
      BY <1>12 DEF Polled, Decide, PollAgain, JobsKnow, JobKnows, Drives
    <2>3. PICK l \in {"ending", "progress", "deciding", "asking", "raised", "artifact", "sleeping", "polling"} :
            Go(p, l)
      BY <1>12 DEF Polled, Decide, PollAgain, Poll, NextStage
    <2>4. Others(p) /\ pc'[p] = l
      BY <1>4, <2>1, <2>3
    <2> QED
      BY <1>1, <1>2, <2>1, <2>2, <2>3, <2>4 DEF JobKnows
  <1>13. ASSUME NEW p \in Proc, RecordRead(p) PROVE JobsKnow'
    <2>1. /\ UNCHANGED mine /\ (\A q \in Proc : q # p => copy'[q] = copy[q])
          /\ Go(p, "recordSave")
      BY <1>13 DEF RecordRead, Types, JobType
    <2>2. mine[p] \in Analysis
      BY <1>13 DEF RecordRead, JobsKnow, JobKnows, Drives
    <2>3. Others(p) /\ pc'[p] = "recordSave"
      BY <1>4, <2>1
    <2> QED
      BY <1>2, <2>1, <2>2, <2>3 DEF JobKnows
  <1>14. ASSUME NEW p \in Proc, ErrorRead(p) PROVE JobsKnow'
    <2>1. UNCHANGED mine /\ \A q \in Proc : q # p => copy'[q] = copy[q]
      BY <1>14 DEF ErrorRead, Types, JobType
    <2>2. PICK l \in {"ending", "requeueing", "givingUp"} :
            Go(p, l) /\ (l = "givingUp" => ~(attempts < MaxAttempts))
      BY <1>14 DEF ErrorRead, AttemptsLeft
    <2>3. Others(p) /\ pc'[p] = l
      BY <1>4, <2>1, <2>2
    <2>4. l = "givingUp" => attempts' >= MaxAttempts
      BY <1>14, <2>2, NumberAssumption DEF ErrorRead, row, Types, RowType
    <2> QED
      BY <1>2, <2>2, <2>3, <2>4 DEF JobKnows, Drives
  <1>15. ASSUME NEW p \in Proc, ClaimExecution(p) \/ Begin(p) \/ Timeout(p) \/ Raised(p) PROVE JobsKnow'
    <2>1. UNCHANGED mine /\ \A q \in Proc : q # p => copy'[q] = copy[q]
      BY <1>15 DEF ClaimExecution, Begin, Timeout, Raised, Types, JobType
    <2>2. PICK l \in {"claimed", "none", "ending", "publishWorking", "raised", "errorRead"} : Go(p, l)
      BY <1>15 DEF ClaimExecution, Begin, Timeout, Raised
    <2>3. Others(p) /\ pc'[p] = l
      BY <1>4, <2>1, <2>2
    <2> QED
      BY <1>3, <2>2, <2>3 DEF Drives
  <1>16. ASSUME NEW p \in Proc, Finish(p) PROVE JobsKnow'
    <2>1. Others(p) /\ pc'[p] \in {"scheduled", "none"}
      BY <1>16 DEF Finish, Go, Types, JobType
    <2> QED
      BY <1>3, <2>1 DEF Drives
  <1>17. ASSUME NEW p \in Proc, StoreError(p) PROVE JobsKnow'
    <2>1. CASE UNCHANGED job
      BY <2>1, JobSame DEF job, JobsKnow
    <2>2. CASE \E l \in {"raised", "ending", "none"} : Go(p, l) /\ UNCHANGED <<copy, mine>>
      <3>1. PICK l \in {"raised", "ending", "none"} : Go(p, l) /\ UNCHANGED <<copy, mine>>
        BY <2>2
      <3>2. Others(p) /\ pc'[p] = l
        BY <1>4, <3>1
      <3> QED
        BY <1>3, <3>1, <3>2 DEF Drives
    <2> QED
      BY <1>16, <1>17, <2>1, <2>2 DEF StoreError, JobStoreError, CancelStoreError
  <1>18. ASSUME NEW p \in Proc, Exit(p) PROVE JobsKnow'
    <2>1. Others(p) /\ pc'[p] = "none"
      BY <1>18 DEF Exit, Go, Types, JobType
    <2> QED
      BY <1>3, <2>1 DEF Drives
  <1>19. ASSUME NEW p \in Proc, StoreMessage(p) \/ Restart(p) PROVE JobsKnow'
    <2>1. Others(p) /\ UNCHANGED <<copy, mine>> /\ pc'[p] \in {pc[p], "scheduled"}
      BY <1>19 DEF StoreMessage, Restart, Schedule, Go, Types, JobType
    <2>2. CASE pc'[p] = pc[p]
      BY <1>2, <2>1, <2>2, JobSame
    <2> QED
      BY <1>3, <2>1, <2>2 DEF Drives
  <1>20. ASSUME NEW p \in Proc, CancelPublish(p) PROVE JobsKnow'
    <2>1. Others(p) /\ pc'[p] \in {"none", "ending"}
      BY <1>20 DEF CancelPublish, Types, JobType
    <2> QED
      BY <1>3, <2>1 DEF Drives
  <1>21. ASSUME NEW p \in Proc, StartAnalysis(p) PROVE JobsKnow'
    <2>1. UNCHANGED <<pc, copy>> /\ \A q \in Proc : mine'[q] \in Analysis \cup {mine[q]}
      BY <1>21 DEF StartAnalysis, Types, JobType
    <2> QED
      BY <2>1, JobSame DEF JobsKnow
  <1>22. ASSUME UNCHANGED job PROVE JobsKnow'
    BY <1>22, JobSame DEF job, JobsKnow
  <1>23. ASSUME NEW p \in Proc,
                Accept(p) \/ CancelRead(p) \/ CancelStop(p) \/ ContinueAnalysis(p) \/ PollAnalysis(p)
         PROVE  UNCHANGED job
    BY <1>23 DEF Accept, CancelRead, CancelStop, ContinueAnalysis, PollAnalysis
  <1>24. CASE Tick \/ (\E i \in Analysis : AnalysisEnds(i)) \/ UNCHANGED vars
    BY <1>22, <1>24 DEF Tick, AnalysisEnds, vars
  <1>25. ASSUME NEW p \in Proc, End(p) PROVE JobsKnow'
    BY <1>16, <1>25 DEF End
  <1>26. ASSUME NEW p \in Proc, JobStep(p) PROVE JobsKnow'
    BY <1>6, <1>7, <1>8, <1>9, <1>10, <1>11, <1>12, <1>13, <1>14, <1>15, <1>25, <1>26 DEF JobStep
  <1> QED
    BY <1>17, <1>18, <1>19, <1>20, <1>21, <1>22, <1>23, <1>24, <1>26
    DEF Next, CallerStep, ThreadStep

\* A call that outlives its job still has its analysis, or its result is dropped.
LEMMA ThreadsKnowStep ==
  ASSUME IInv, Types', [Next]_vars
  PROVE  ThreadsKnow'
  <1> USE DEF IInv, ThreadsKnow, ThreadKnows
  <1> DEFINE Callers == UNCHANGED <<cxl, cfor>>
             Calls == UNCHANGED <<call, res, mine>>
             Goes == \A q \in Proc : pc'[q] \in {pc[q]} \cup (PCs \ {"starting"})
  <1>1. ASSUME Goes, Calls, Callers PROVE ThreadsKnow'
    BY <1>1
  <1>2. ASSUME NEW p \in Proc, NEW l \in PCs \ {"starting"}, Go(p, l) PROVE Goes
    BY <1>2 DEF Go, Types, JobType
  <1>3. ASSUME NEW p \in Proc,
               PublishWorking(p) \/ PublishInput(p) \/ PublishProgress(p) \/ PublishCompleted(p)
               \/ PublishArtifact(p) \/ Requeue(p) \/ GiveUp(p)
               \/ ClaimExecution(p) \/ Begin(p) \/ RecordRead(p) \/ Polled(p) \/ Timeout(p)
               \/ Raised(p) \/ ErrorRead(p)
        PROVE  ThreadsKnow'
    <2>1. Calls /\ Callers
      BY <1>3 DEF PublishWorking, PublishInput, PublishProgress, PublishCompleted, PublishArtifact, Requeue,
         GiveUp, ClaimExecution, Begin, RecordRead, Polled, Timeout, Raised, ErrorRead, thread, Rest,
         cancelling
    <2>2. \E l \in {"readInternal", "published", "deciding", "completing", "requeued", "ending",
                    "claimed", "none", "publishWorking", "recordSave", "progress", "raised",
                    "errorRead", "requeueing", "givingUp"} : Go(p, l)
      BY <1>3 DEF PublishWorking, PublishInput, PublishProgress, PublishCompleted, PublishArtifact, Requeue,
         GiveUp, ClaimExecution, Begin, RecordRead, Polled, Timeout, Raised, ErrorRead
    <2>3. Goes
      BY <1>2, <2>2 DEF PCs, Suspended, Body, Handler
    <2> QED
      BY <1>1, <2>1, <2>3
  <1>4. ASSUME NEW p \in Proc, NEW l \in PCs \ {"starting"}, Go(p, l), UNCHANGED mine, Callers,
               \A q \in Proc : q # p => UNCHANGED <<call[q], res[q]>>,
               call'[p] \in {call[p], "none"} \/ (call'[p] = "poll" /\ mine[p] \in Analysis)
        PROVE  ThreadsKnow'
    BY <1>4 DEF Go, Types, JobType
  <1>5. ASSUME NEW p \in Proc, PollAgain(p) \/ RecordSave(p) \/ Decide(p) PROVE ThreadsKnow'
    <2>1. mine[p] \in Analysis
      BY <1>5 DEF PollAgain, RecordSave, Decide, JobsKnow, JobKnows, Drives
    <2>2. PICK l \in {"asking", "polling", "raised", "artifact", "sleeping"} : Go(p, l)
      BY <1>5 DEF PollAgain, RecordSave, Decide, Poll, NextStage
    <2>3. UNCHANGED mine /\ Callers
      BY <1>5 DEF PollAgain, RecordSave, Decide, Rest, cancelling
    <2>4. /\ \A q \in Proc : q # p => UNCHANGED <<call[q], res[q]>>
          /\ call'[p] \in {call[p], "poll"}
      BY <1>5 DEF PollAgain, RecordSave, Decide, Poll, thread, Types, JobType
    <2>5. l \in PCs \ {"starting"}
      BY DEF PCs, Suspended, Body, Handler
    <2> QED
      BY <1>4, <2>1, <2>2, <2>3, <2>4, <2>5
  <1>6. ASSUME NEW p \in Proc, Resume(p) PROVE ThreadsKnow'
    <2>1. PICK l \in {"raised", "recordRead", "polled", "asking", "polling"} : Go(p, l)
      <3>1. CASE Poll(p, 1)
        BY <3>1 DEF Poll
      <3>2. CASE ~Poll(p, 1)
        BY <1>6, <3>2 DEF Resume
      <3> QED
        BY <3>1, <3>2
    <2>2. UNCHANGED mine /\ Callers
      BY <1>6 DEF Resume, Rest, cancelling
    <2>3. \A q \in Proc : q # p => UNCHANGED <<call[q], res[q]>>
      BY <1>6 DEF Resume, Poll, Types, JobType
    <2>4. call'[p] = "none" \/ (call'[p] = "poll" /\ mine[p] \in Analysis)
      <3>1. CASE pc[p] = "continuing" /\ res[p] \notin {"raised", "awaiting"}
        BY <1>6, <3>1 DEF Resume, Poll, JobsKnow, JobKnows, Drives, Types, JobType
      <3>2. CASE ~(pc[p] = "continuing" /\ res[p] \notin {"raised", "awaiting"})
        BY <1>6, <3>2 DEF Resume, Types, JobType
      <3> QED
        BY <3>1, <3>2
    <2>5. l \in PCs \ {"starting"}
      BY DEF PCs, Suspended, Body, Handler
    <2> QED
      BY <1>4, <2>1, <2>2, <2>3, <2>4, <2>5
  <1>7. ASSUME NEW p \in Proc, ReadInternal(p) PROVE ThreadsKnow'
    <2>1. Callers /\ \A q \in Proc : q # p => UNCHANGED <<pc[q], call[q], res[q], mine[q]>>
      BY <1>7 DEF ReadInternal, Go, Rest, cancelling, Types, JobType
    <2>2. \/ pc'[p] = "starting" /\ call'[p] = "start"
          \/ pc'[p] = "continuing" /\ call'[p] = "continue" /\ mine'[p] \in Analysis
      BY <1>7 DEF ReadInternal, Go, Types, JobType, RowType
    <2> QED
      BY <2>1, <2>2
  <1>8. ASSUME NEW p \in Proc, Finish(p), Callers PROVE ThreadsKnow'
    <2>1. \A q \in Proc : q # p => UNCHANGED <<pc[q], call[q], res[q], mine[q]>>
      BY <1>8 DEF Finish, Go, Types, JobType
    <2>2. pc'[p] # "starting"
      BY <1>8 DEF Finish, Go, Types, JobType
    <2>3. call'[p] \in {call[p], "none"} /\ (call[p] # "none" => mine'[p] = mine[p])
      BY <1>8 DEF Finish, Types, JobType
    <2> QED
      BY <1>8, <2>1, <2>2, <2>3
  <1>9. ASSUME NEW p \in Proc, StartAnalysis(p) PROVE ThreadsKnow'
    <2>1. UNCHANGED pc /\ Callers
      BY <1>9 DEF StartAnalysis, Rest, cancelling
    <2>2. \A q \in Proc : q # p => UNCHANGED <<call[q], res[q], mine[q]>>
      BY <1>9 DEF StartAnalysis, Answer, Types, JobType
    <2>3. call'[p] \in {"done", "none"} /\ (pc[p] = "starting" => call'[p] = "done")
      BY <1>9 DEF StartAnalysis, Answer, Waiting, Types, JobType
    <2>4. res'[p] = "raised" \/ mine'[p] \in Analysis
      BY <1>9 DEF StartAnalysis, Answer, Types, JobType
    <2> QED
      BY <2>1, <2>2, <2>3, <2>4
  <1>10. ASSUME NEW p \in Proc, ContinueAnalysis(p) \/ PollAnalysis(p) PROVE ThreadsKnow'
    <2>1. UNCHANGED <<pc, mine>> /\ Callers
      BY <1>10 DEF ContinueAnalysis, PollAnalysis, Rest, cancelling, job
    <2>2. PICK r : Answer(p, r)
      BY <1>10 DEF ContinueAnalysis, PollAnalysis
    <2>3. pc[p] # "starting"
      BY <1>10 DEF ContinueAnalysis, PollAnalysis
    <2>4. \A q \in Proc : q # p => UNCHANGED <<call[q], res[q]>>
      BY <2>2 DEF Answer, Types, JobType
    <2>5. call'[p] \in {"done", "none"}
      BY <2>2 DEF Answer, Types, JobType
    <2> QED
      BY <2>1, <2>3, <2>4, <2>5
  <1>11. ASSUME NEW p \in Proc, StoreError(p) PROVE ThreadsKnow'
    <2>1. CASE CancelStoreError(p)
      BY <2>1 DEF CancelStoreError, job, thread, Types, CallerType
    <2>2. CASE JobStoreError(p)
      <3>1. Callers
        BY <2>2 DEF JobStoreError
      <3>2. CASE Finish(p)
        BY <1>8, <3>1, <3>2
      <3>3. CASE \E l \in {"raised", "ending", "none"} : Go(p, l) /\ UNCHANGED <<copy, mine, polls, thread>>
        <4>1. Goes
          BY <1>2, <3>3 DEF PCs, Suspended, Handler
        <4>2. Calls
          BY <3>3 DEF thread
        <4> QED
          BY <1>1, <3>1, <4>1, <4>2
      <3> QED
        BY <2>2, <3>2, <3>3 DEF JobStoreError
    <2> QED
      BY <1>11, <2>1, <2>2 DEF StoreError
  <1>12. ASSUME NEW p \in Proc, Exit(p) PROVE ThreadsKnow'
    <2>1. \A q \in Proc : q # p => UNCHANGED <<pc[q], call[q], res[q], mine[q], cxl[q], cfor[q]>>
      BY <1>12 DEF Exit, Go, Types, JobType, CallerType
    <2>2. pc'[p] = "none" /\ call'[p] = "none" /\ cxl'[p] = "none"
      BY <1>12 DEF Exit, Go, Types, JobType, CallerType
    <2> QED
      BY <2>1, <2>2
  <1>13. ASSUME NEW p \in Proc, StoreMessage(p) \/ Restart(p) PROVE ThreadsKnow'
    <2>1. Calls /\ Callers
      BY <1>13 DEF StoreMessage, Restart, thread, cancelling
    <2>2. Goes
      BY <1>13 DEF StoreMessage, Restart, Schedule, Go, Types, JobType, PCs, Suspended
    <2> QED
      BY <1>1, <2>1, <2>2
  <1>14. ASSUME NEW p \in Proc, CancelPublish(p) PROVE ThreadsKnow'
    <2>1. Calls /\ \A q \in Proc : q # p => UNCHANGED <<pc[q], cxl[q], cfor[q]>>
      BY <1>14 DEF CancelPublish, thread, Types, JobType, CallerType
    <2>2. pc'[p] \in {"none", "ending"} /\ cxl'[p] = "none"
      BY <1>14 DEF CancelPublish, Types, JobType, CallerType
    <2> QED
      BY <2>1, <2>2
  <1>15. ASSUME NEW p \in Proc, CancelRead(p) \/ CancelStop(p) PROVE ThreadsKnow'
    <2>1. Calls /\ UNCHANGED pc
      BY <1>15 DEF CancelRead, CancelStop, job, thread
    <2>2. \A q \in Proc : q # p => UNCHANGED <<cxl[q], cfor[q]>>
      BY <1>15 DEF CancelRead, CancelStop, Types, CallerType
    <2>3. cxl'[p] = "stopping" => cfor'[p] \in Analysis
      BY <1>15 DEF CancelRead, CancelStop, Types, RowType, CallerType
    <2> QED
      BY <2>1, <2>2, <2>3
  <1>16. ASSUME NEW p \in Proc, Accept(p) PROVE ThreadsKnow'
    BY <1>16 DEF Accept, job, thread, cancelling
  <1>17. CASE Tick \/ (\E i \in Analysis : AnalysisEnds(i)) \/ UNCHANGED vars
    BY <1>17 DEF Tick, AnalysisEnds, vars, job, thread, cancelling, Rest
  <1>18. ASSUME NEW p \in Proc, End(p) PROVE ThreadsKnow'
    BY <1>8, <1>18 DEF End, Rest, cancelling
  <1>19. ASSUME NEW p \in Proc, JobStep(p) PROVE ThreadsKnow'
    BY <1>3, <1>5, <1>6, <1>7, <1>18, <1>19 DEF JobStep
  <1> HIDE DEF IInv, ThreadsKnow, ThreadKnows
  <1> QED
    BY <1>9, <1>10, <1>11, <1>12, <1>13, <1>14, <1>15, <1>16, <1>17, <1>19
    DEF Next, CallerStep, ThreadStep

-----------------------------------------------------------------------------
(* The theorem. *)

\* The invariant is inductive.
LEMMA StepInv == IInv /\ [Next]_vars => IInv'
  <1> SUFFICES ASSUME IInv, [Next]_vars PROVE IInv'
    OBVIOUS
  <1>1. Types'
    BY RowTypeStep, JobTypeStep, CallerTypeStep, WorldTypeStep DEF IInv, Types
  <1>2. TasksBacked'
    BY <1>1, RowBacked, CopiesBacked, CallersBacked DEF IInv, TasksBacked
  <1> QED
    BY <1>1, <1>2, JobsKnowStep, ThreadsKnowStep DEF IInv

\* Whatever stale Task a coroutine of any process saves (store.py save, the
\* provider's _publish_status and _publish_artifact), a caller who sees COMPLETED
\* finds an artifact, one who sees FAILED knows the attempts are used up, and one
\* who is asked for input has an analysis that the answer continues.
THEOREM StatusTheorem == Spec => []StatusIsBacked
  <1>1. IInv => StatusIsBacked
    <2> SUFFICES ASSUME IInv PROVE StatusIsBacked
      OBVIOUS
    <2>1. TypeOK /\ Backed(Row)
      BY TypeParts DEF IInv, TasksBacked
    <2> QED
      BY <2>1 DEF StatusIsBacked, Backed, Row, Known, Terminal
  <1> QED
    BY InitInv, StepInv, <1>1, PTL DEF Spec

-----------------------------------------------------------------------------
(* One process: what its event loop alone guarantees. *)

\* Whoever is in the middle of a segment is alone: the job, a message being
\* accepted, a cancellation being published.
Segments ==
  \A p \in Proc :
    /\ acc[p] # "none" => pc[p] \in Suspended /\ cxl[p] # "publishing"
    /\ cxl[p] = "publishing" => pc[p] \in Suspended

\* A job that starts an analysis has seen that the task has none.
Starts == {"starting", "recordRead", "recordSave"}
StartsFirst == \A p \in Proc : pc[p] \in Starts => internal = NoAnalysis

\* The Task a segment read before it ends the task, or saves the analysis, is
\* still the row's; one read by _accept was not terminal.
Concludes == {"progress", "deciding", "artifact", "completing", "givingUp"}
Fresh ==
  \A p \in Proc :
    /\ pc[p] = "recordSave" => copy[p].state = state
    /\ pc[p] \in Concludes /\ copy[p].state \notin Terminal => state \notin Terminal
    /\ acc[p] # "none" => acopy[p].state \notin Terminal

\* A job moves from where it is suspended only when nobody else is in a segment.
LEMMA JobMoves ==
  ASSUME NEW p \in Proc, JobStep(p) \/ JobStoreError(p)
  PROVE  pc[p] \notin Suspended \/ LoopFree(p)
  BY DEF JobStep, ClaimExecution, Begin, PublishWorking, ReadInternal, Resume, RecordRead, RecordSave,
     PublishInput, Polled, PublishProgress, Decide, PollAgain, Timeout, PublishArtifact, PublishCompleted,
     Raised, ErrorRead, Requeue, GiveUp, End, JobStoreError, Suspended, Waiting, Body, Handler

LEMMA JobLeaves ==
  ASSUME NEW p \in Proc, JobStep(p)
  PROVE  UNCHANGED <<Rest, counters>>
  BY DEF JobStep, ClaimExecution, Begin, PublishWorking, ReadInternal, Resume, RecordRead, RecordSave,
     PublishInput, Polled, PublishProgress, Decide, PollAgain, Timeout, PublishArtifact, PublishCompleted,
     Raised, ErrorRead, Requeue, GiveUp, End

LEMMA SegmentsStep ==
  ASSUME Types, Segments, [Next]_vars, NEW p, Proc = {p}
  PROVE  Segments'
  <1> DEFINE Alone == /\ acc'[p] # "none" => pc'[p] \in Suspended /\ cxl'[p] # "publishing"
                      /\ cxl'[p] = "publishing" => pc'[p] \in Suspended
  <1> USE DEF Types, JobType, CallerType
  <1>1. /\ acc[p] # "none" => pc[p] \in Suspended /\ cxl[p] # "publishing"
        /\ cxl[p] = "publishing" => pc[p] \in Suspended
    BY DEF Segments
  <1>2. ASSUME JobStep(p) PROVE Alone
    <2>1. acc'[p] = "none" /\ cxl'[p] # "publishing"
      BY <1>1, <1>2, JobMoves, JobLeaves DEF LoopFree, Rest, accepting, cancelling
    <2> QED
      BY <2>1
  <1>3. ASSUME Accept(p) \/ CancelRead(p) PROVE Alone
    BY <1>1, <1>3 DEF Accept, CancelRead, LoopFree, job, accepting, cancelling
  <1>4. ASSUME StoreMessage(p) PROVE Alone
    BY <1>1, <1>4 DEF StoreMessage, cancelling
  <1>5. ASSUME CancelStop(p) PROVE Alone
    BY <1>1, <1>5 DEF CancelStop, job, accepting
  <1>6. ASSUME CancelPublish(p) PROVE Alone
    BY <1>1, <1>6 DEF CancelPublish, LoopFree, accepting
  <1>7. ASSUME ThreadStep(p) PROVE Alone
    BY <1>1, <1>7 DEF ThreadStep, StartAnalysis, ContinueAnalysis, PollAnalysis, Rest, job, accepting, cancelling
  <1>8. ASSUME StoreError(p) PROVE Alone
    <2>1. UNCHANGED accepting
      BY <1>8 DEF StoreError
    <2>2. CASE JobStoreError(p)
      <3>1. acc[p] = "none" /\ cxl[p] # "publishing"
        BY <1>1, <2>2, JobMoves DEF LoopFree
      <3> QED
        BY <2>1, <2>2, <3>1 DEF JobStoreError, accepting
    <2>3. CASE CancelStoreError(p)
      BY <1>1, <2>1, <2>3 DEF CancelStoreError, LoopFree, job, accepting
    <2> QED
      BY <1>8, <2>2, <2>3 DEF StoreError
  <1>9. ASSUME Exit(p) PROVE Alone
    BY <1>9 DEF Exit
  <1>10. ASSUME Restart(p) PROVE Alone
    <2>1. pc'[p] \in {pc[p], "scheduled"}
      BY <1>10 DEF Restart, Schedule, Go
    <2>2. UNCHANGED <<acc, cxl>>
      BY <1>10 DEF Restart, accepting, cancelling
    <2> QED
      BY <1>1, <2>1, <2>2 DEF Suspended
  <1>11. ASSUME Tick \/ (\E i \in Analysis : AnalysisEnds(i)) \/ UNCHANGED vars PROVE Alone
    BY <1>1, <1>11 DEF Tick, AnalysisEnds, vars, job, Rest, accepting, cancelling
  <1> HIDE DEF Alone
  <1>12. Alone
    BY <1>2, <1>3, <1>4, <1>5, <1>6, <1>7, <1>8, <1>9, <1>10, <1>11 DEF Next, CallerStep
  <1> QED
    BY <1>12 DEF Segments, Alone

\* What happens to a task while its only process is in no segment of the job.
LEMMA OthersMove ==
  ASSUME Types, [Next]_vars, NEW p, Proc = {p}
  PROVE  \/ JobStep(p)
         \/ UNCHANGED internal
  BY DEF Next, CallerStep, ThreadStep, Accept, StoreMessage, CancelRead, CancelStop, CancelPublish,
     StartAnalysis, ContinueAnalysis, PollAnalysis, StoreError, Exit, Restart, AnalysisEnds, Tick, row, vars

\* Only the save of a started analysis writes its id.
LEMMA InternalMoves ==
  ASSUME Types, [Next]_vars, NEW p, Proc = {p}, internal' # internal
  PROVE  RecordSave(p) /\ pc[p] = "recordSave"
  <1>1. JobStep(p)
    BY OthersMove
  <1> QED
    BY <1>1 DEF JobStep, ClaimExecution, Begin, PublishWorking, ReadInternal, Resume, RecordRead, RecordSave,
     PublishInput, Polled, PublishProgress, Decide, PollAgain, Timeout, PublishArtifact, PublishCompleted,
     Raised, ErrorRead, Requeue, GiveUp, End, row

LEMMA StartsStep ==
  ASSUME Types, StartsFirst, [Next]_vars, NEW p, Proc = {p}
  PROVE  StartsFirst' /\ (internal # NoAnalysis => internal' = internal)
  <1> DEFINE Good == pc'[p] \in Starts => internal' = NoAnalysis
  <1> USE DEF Types, JobType, Starts
  <1>1. pc[p] \in Starts => internal = NoAnalysis
    BY DEF StartsFirst
  <1>2. internal # NoAnalysis => internal' = internal
    BY <1>1, InternalMoves
  <1>3. ASSUME RecordSave(p) PROVE Good
    BY <1>3 DEF RecordSave, Poll, Go
  <1>4. ASSUME UNCHANGED internal, pc'[p] \in {pc[p]} \cup (PCs \ Starts) PROVE Good
    BY <1>1, <1>4
  <1>5. ASSUME ReadInternal(p) PROVE Good
    BY <1>5 DEF ReadInternal, Go, row
  <1>6. ASSUME Resume(p) PROVE Good
    <2>1. UNCHANGED internal /\ pc[p] \in Waiting
      BY <1>6 DEF Resume, row
    <2>2. pc'[p] = "recordRead" => pc[p] = "starting"
      BY <1>6 DEF Resume, Poll, Go, Waiting
    <2>3. pc'[p] \notin {"starting", "recordSave"}
      BY <1>6 DEF Resume, Poll, Go, Waiting
    <2> QED
      BY <1>1, <2>1, <2>2, <2>3
  <1>7. ASSUME RecordRead(p) PROVE Good
    BY <1>1, <1>7 DEF RecordRead, Go, row
  <1>8. ASSUME ClaimExecution(p) \/ Begin(p) \/ PublishWorking(p) \/ PublishInput(p) \/ Polled(p)
               \/ PublishProgress(p) \/ PollAgain(p) \/ Timeout(p) \/ PublishArtifact(p)
               \/ PublishCompleted(p) \/ Raised(p) \/ ErrorRead(p) \/ Requeue(p) \/ GiveUp(p) \/ End(p)
        PROVE  pc'[p] \notin Starts
    BY <1>8 DEF ClaimExecution, Begin, PublishWorking, PublishInput, Polled, PublishProgress, PollAgain,
       Timeout, PublishArtifact, PublishCompleted, Raised, ErrorRead, Requeue, GiveUp, End, Finish, Poll, Go
  <1>9. ASSUME Decide(p) PROVE pc'[p] \notin Starts
    BY <1>9 DEF Decide, NextStage, Go
  <1>10. ASSUME StoreMessage(p) \/ Restart(p) \/ CancelPublish(p) PROVE Good
    <2>1. UNCHANGED internal
      BY <1>10 DEF StoreMessage, Restart, CancelPublish, row
    <2>2. pc'[p] \in {pc[p], "none", "scheduled", "ending"}
      BY <1>10 DEF StoreMessage, Restart, CancelPublish, Schedule, Go
    <2> QED
      BY <1>1, <2>1, <2>2
  <1>11. ASSUME Accept(p) \/ CancelRead(p) \/ CancelStop(p) \/ ThreadStep(p) \/ Tick
                \/ (\E i \in Analysis : AnalysisEnds(i)) \/ UNCHANGED vars
         PROVE  Good
    <2>1. UNCHANGED <<internal, pc>>
      BY <1>11 DEF Accept, CancelRead, CancelStop, ThreadStep, StartAnalysis, ContinueAnalysis,
         PollAnalysis, Tick, AnalysisEnds, row, job, vars
    <2> QED
      BY <1>1, <2>1
  <1>12. ASSUME StoreError(p) PROVE Good
    <2>1. UNCHANGED internal
      BY <1>12 DEF StoreError, row
    <2>2. pc'[p] \in {pc[p], "raised", "ending", "none", "scheduled"}
      BY <1>12 DEF StoreError, JobStoreError, CancelStoreError, Finish, Go, job
    <2> QED
      BY <1>1, <2>1, <2>2
  <1>13. ASSUME Exit(p) PROVE Good
    BY <1>13 DEF Exit, Go
  <1> HIDE DEF Good
  <1>14. ASSUME JobStep(p) PROVE Good
    BY <1>3, <1>5, <1>6, <1>7, <1>8, <1>9, <1>14 DEF JobStep, Good
  <1>15. Good
    BY <1>10, <1>11, <1>12, <1>13, <1>14 DEF Next, CallerStep
  <1> QED
    BY <1>2, <1>15 DEF StartsFirst, Good

\* What the job has read is still there when it concludes, and a terminal row
\* takes nothing but a cancellation.
LEMMA FreshStep ==
  ASSUME Types, Segments, Fresh, [Next]_vars, NEW p, Proc = {p}
  PROVE  Fresh' /\ (state \in Terminal => state' \in {state, "CANCELED"})
  <1> DEFINE Job == /\ pc'[p] = "recordSave" => copy'[p].state = state'
                    /\ pc'[p] \in Concludes /\ copy'[p].state \notin Terminal => state' \notin Terminal
             Accepting == acc'[p] # "none" => acopy'[p].state \notin Terminal
             Late == state \in Terminal => state' \in {state, "CANCELED"}
  <1> USE DEF Types, JobType, CallerType, Copy
  <1>1. /\ acc[p] # "none" => pc[p] \in Suspended /\ cxl[p] # "publishing"
        /\ cxl[p] = "publishing" => pc[p] \in Suspended
        /\ pc[p] = "recordSave" => copy[p].state = state
        /\ pc[p] \in Concludes /\ copy[p].state \notin Terminal => state \notin Terminal
        /\ acc[p] # "none" => acopy[p].state \notin Terminal
    BY DEF Segments, Fresh
  <1>2. \A s \in Suspended : s \notin Concludes /\ s # "recordSave"
    BY DEF Suspended, Concludes
  <1>3. ASSUME pc'[p] \notin Concludes, pc'[p] # "recordSave" PROVE Job
    BY <1>3
  <1>4. ASSUME UNCHANGED <<state, copy>>, pc'[p] = pc[p] PROVE Job
    BY <1>1, <1>4
  <1>5. ASSUME JobStep(p) PROVE Accepting
    BY <1>1, <1>5, JobMoves, JobLeaves DEF LoopFree, Rest, accepting
  <1>6. ASSUME RecordSave(p) PROVE Job /\ Late
    <2>1. pc'[p] \in {"asking", "polling"} /\ copy[p].state = state
      BY <1>1, <1>6 DEF RecordSave, Poll, Go
    <2>2. Late
      BY <1>6, <2>1 DEF RecordSave, Save
    <2> QED
      BY <1>3, <2>1, <2>2 DEF Concludes
  <1>7. ASSUME PublishWorking(p) \/ PublishInput(p) \/ Requeue(p) PROVE Job /\ Late
    <2>1. pc'[p] \in {"readInternal", "published", "requeued"}
      BY <1>7 DEF PublishWorking, PublishInput, Requeue, Go
    <2>2. PICK s \in {"WORKING", "INPUT_REQUIRED", "SUBMITTED"} : Publish(p, s)
      BY <1>7 DEF PublishWorking, PublishInput, Requeue
    <2>3. Late
      BY <2>2 DEF Publish, Save, Accepted, Terminal
    <2> QED
      BY <1>3, <2>1, <2>3 DEF Concludes
  <1>8. ASSUME PublishProgress(p) PROVE Job /\ Late
    <2>1. pc'[p] = "deciding" /\ pc[p] = "progress" /\ Publish(p, "WORKING")
      BY <1>8 DEF PublishProgress, Go
    <2>2. CASE copy[p].state \in Terminal
      BY <2>1, <2>2 DEF Publish, Concludes
    <2>3. CASE copy[p].state \notin Terminal
      <3>1. state \notin Terminal
        BY <1>1, <2>1, <2>3 DEF Concludes
      <3>2. state' = "WORKING"
        BY <2>1, <2>3, <3>1 DEF Publish, Save, Accepted
      <3> QED
        BY <2>1, <3>1, <3>2 DEF Concludes, Terminal
    <2> QED
      BY <2>2, <2>3
  <1>9. ASSUME PublishCompleted(p) \/ GiveUp(p) PROVE Job /\ Late
    <2>1. pc'[p] \in {"published", "ending"} /\ pc[p] \in Concludes
      BY <1>9 DEF PublishCompleted, GiveUp, Go, Concludes
    <2>2. PICK s : Publish(p, s)
      BY <1>9 DEF PublishCompleted, GiveUp
    <2>3. Late
      BY <1>1, <2>1, <2>2 DEF Publish
    <2> QED
      BY <1>3, <2>1, <2>3 DEF Concludes
  <1>10. ASSUME PublishArtifact(p) PROVE Job /\ Late
    <2>1. pc'[p] = "completing" /\ pc[p] = "artifact"
      BY <1>10 DEF PublishArtifact, Go
    <2>2. CASE copy[p].state \in Terminal
      BY <1>10, <2>1, <2>2 DEF PublishArtifact, Concludes
    <2>3. CASE copy[p].state \notin Terminal
      <3>1. state \notin Terminal
        BY <1>1, <2>1, <2>3 DEF Concludes
      <3>2. PICK c : c = [copy[p] EXCEPT !.arts = @ + 1] /\ copy' = [copy EXCEPT ![p] = c] /\ Save(c)
        BY <1>10, <2>3 DEF PublishArtifact
      <3>3. c.state = copy[p].state /\ copy'[p] = c
        BY <3>2
      <3>4. state' \notin Terminal
        BY <2>3, <3>1, <3>2, <3>3 DEF Save
      <3> QED
        BY <2>1, <3>1, <3>4 DEF Concludes
    <2> QED
      BY <2>2, <2>3
  <1>11. ASSUME RecordRead(p) \/ Polled(p) \/ ErrorRead(p) PROVE Job /\ Late
    <2>1. UNCHANGED state
      BY <1>11 DEF RecordRead, Polled, ErrorRead, row
    <2>2. copy'[p] = Row \/ pc'[p] = "ending"
      BY <1>11 DEF RecordRead, Polled, ErrorRead, Go
    <2> QED
      BY <2>1, <2>2 DEF Row, Concludes
  <1>12. ASSUME Decide(p) PROVE Job /\ Late
    <2>1. UNCHANGED state /\ pc[p] = "deciding"
      BY <1>12 DEF Decide, row
    <2>2. pc'[p] \in {"asking", "raised", "sleeping"} \/ (pc'[p] = "artifact" /\ UNCHANGED copy)
      BY <1>12 DEF Decide, NextStage, Go
    <2> QED
      BY <1>1, <2>1, <2>2 DEF Concludes
  <1>13. ASSUME ClaimExecution(p) \/ Begin(p) \/ ReadInternal(p) \/ Resume(p) \/ PollAgain(p)
                \/ Timeout(p) \/ Raised(p) \/ End(p)
         PROVE  Job /\ Late
    <2>1. UNCHANGED state
      BY <1>13 DEF ClaimExecution, Begin, ReadInternal, Resume, PollAgain, Timeout, Raised, End, row
    <2>2. pc'[p] \notin Concludes /\ pc'[p] # "recordSave"
      BY <1>13 DEF ClaimExecution, Begin, ReadInternal, Resume, PollAgain, Timeout, Raised, End, Finish,
         Poll, Go, Concludes
    <2> QED
      BY <1>3, <2>1, <2>2
  <1>14. ASSUME StoreMessage(p) PROVE Job /\ Late /\ Accepting
    <2>1. pc[p] \in Suspended /\ acc'[p] = "none" /\ pc'[p] \in {pc[p], "scheduled"}
      BY <1>1, <1>14 DEF StoreMessage, Schedule, Go
    <2>2. Late
      BY <1>1, <1>14 DEF StoreMessage, Save, Accepted, Terminal
    <2> QED
      BY <1>2, <1>3, <2>1, <2>2 DEF Concludes
  <1>15. ASSUME CancelPublish(p) PROVE Job /\ Late /\ Accepting
    <2>1. pc'[p] \in {"none", "ending"} /\ UNCHANGED accepting
      BY <1>15 DEF CancelPublish
    <2>2. Late
      BY <1>15 DEF CancelPublish, Save
    <2> QED
      BY <1>1, <1>3, <2>1, <2>2 DEF Concludes, accepting
  <1>16. ASSUME Accept(p) PROVE Job /\ Late /\ Accepting
    BY <1>1, <1>16 DEF Accept, row, job, Row, Terminal
  <1>17. ASSUME CancelRead(p) \/ CancelStop(p) \/ ThreadStep(p) \/ Tick
                \/ (\E i \in Analysis : AnalysisEnds(i)) \/ UNCHANGED vars
         PROVE  Job /\ Late /\ Accepting
    <2>1. UNCHANGED <<state, pc, copy, acc, acopy>>
      BY <1>17 DEF CancelRead, CancelStop, ThreadStep, StartAnalysis, ContinueAnalysis,
         PollAnalysis, Tick, AnalysisEnds, row, job, accepting, Rest, vars
    <2> QED
      BY <1>1, <2>1
  <1>18. ASSUME StoreError(p) PROVE Job /\ Late /\ Accepting
    <2>1. UNCHANGED <<row, accepting>>
      BY <1>18 DEF StoreError
    <2>2. UNCHANGED job \/ pc'[p] \in {"raised", "ending", "none", "scheduled"}
      BY <1>18 DEF StoreError, JobStoreError, CancelStoreError, Finish, Go
    <2> QED
      BY <1>1, <2>1, <2>2 DEF row, accepting, job, Concludes
  <1>19. ASSUME Exit(p) PROVE Job /\ Late /\ Accepting
    BY <1>19 DEF Exit, Go, Concludes
  <1>20. ASSUME Restart(p) PROVE Job /\ Late /\ Accepting
    <2>1. UNCHANGED <<row, copy, accepting>> /\ pc'[p] \in {pc[p], "scheduled"}
      BY <1>20 DEF Restart, Schedule, Go
    <2> QED
      BY <1>1, <2>1 DEF row, accepting, Concludes
  <1> HIDE DEF Job, Accepting, Late
  <1>21. ASSUME JobStep(p) PROVE Job /\ Late /\ Accepting
    BY <1>5, <1>6, <1>7, <1>8, <1>9, <1>10, <1>11, <1>12, <1>13, <1>21 DEF JobStep
  <1>22. Job /\ Late /\ Accepting
    BY <1>14, <1>15, <1>16, <1>17, <1>18, <1>19, <1>20, <1>21 DEF Next, CallerStep
  <1> QED
    BY <1>22 DEF Fresh, Job, Accepting, Late

\* A lease is taken by the claim that begins a job, and given back on every way
\* out of it.
Leased(p) ==
  /\ Executing(p) => lease # NoLease
  /\ lease # NoLease /\ stops = 0 /\ errors = 0 => Executing(p) \/ pc[p] \in {"raised", "ending"}

LEMMA LeaseStep ==
  ASSUME Types, [Next]_vars, NEW p, Proc = {p}, Leased(p)
  PROVE  Leased(p)'
  <1> USE DEF Types, RowType, JobType, WorldType, Handler
  <1>1. NoLease \notin Nat /\ LeaseTicks \in Nat \ {0} /\ stops \in Nat /\ errors \in Nat
    BY NumberAssumption DEF NoLease
  <1>2. ASSUME UNCHANGED <<lease, counters>>, pc'[p] = pc[p] PROVE Leased(p)'
    BY <1>2 DEF Leased, Executing, counters
  <1>3. ASSUME UNCHANGED <<lease, counters>>, Executing(p),
               Executing(p)' \/ pc'[p] \in {"raised", "ending"}
        PROVE  Leased(p)'
    BY <1>3 DEF Leased, counters
  <1>4. ASSUME UNCHANGED <<lease, counters>>, lease = NoLease \/ stops # 0 \/ errors # 0, ~ Executing(p)'
        PROVE  Leased(p)'
    BY <1>4 DEF Leased, counters
  <1>5. ASSUME ClaimExecution(p) PROVE Leased(p)'
    <2>1. UNCHANGED counters /\ ~ Executing(p) /\ pc[p] = "scheduled"
      BY <1>5 DEF ClaimExecution, Executing
    <2>2. \/ lease' = LeaseTicks /\ Go(p, "claimed")
          \/ lease' = lease /\ Go(p, "none")
      BY <1>5 DEF ClaimExecution
    <2>3. \/ lease' = LeaseTicks /\ pc'[p] = "claimed"
          \/ lease' = lease /\ pc'[p] = "none"
      BY <2>2 DEF Go
    <2> QED
      BY <1>1, <2>1, <2>3 DEF Leased, Executing, counters
  <1>6. ASSUME Begin(p) \/ PublishWorking(p) \/ ReadInternal(p) \/ Resume(p) \/ RecordRead(p) \/ RecordSave(p)
               \/ PublishInput(p) \/ Polled(p) \/ PublishProgress(p) \/ PollAgain(p) \/ Timeout(p)
               \/ PublishArtifact(p) \/ PublishCompleted(p)
        PROVE  Leased(p)'
    <2>1. UNCHANGED <<lease, counters>>
      BY <1>6 DEF Begin, PublishWorking, ReadInternal, Resume, RecordRead, RecordSave, PublishInput, Polled,
         PublishProgress, PollAgain, Timeout, PublishArtifact, PublishCompleted, row
    <2>2. Executing(p)
      BY <1>6 DEF Begin, PublishWorking, ReadInternal, Resume, RecordRead, RecordSave, PublishInput, Polled,
         PublishProgress, PollAgain, Timeout, PublishArtifact, PublishCompleted, Executing, Waiting
    <2>3. pc'[p] \in PCs /\ pc'[p] \notin {"errorRead", "requeueing", "requeued", "givingUp", "none", "scheduled"}
      BY <1>6 DEF Begin, PublishWorking, ReadInternal, Resume, RecordRead, RecordSave, PublishInput, Polled,
         PublishProgress, PollAgain, Timeout, PublishArtifact, PublishCompleted, Poll, Go, PCs, Suspended, Body
    <2> QED
      BY <1>3, <2>1, <2>2, <2>3 DEF Executing
  <1>7. ASSUME Decide(p) PROVE Leased(p)'
    <2>1. UNCHANGED <<lease, counters>> /\ Executing(p)
      BY <1>7 DEF Decide, row, Executing
    <2>2. pc'[p] \in {"asking", "raised", "artifact", "sleeping"}
      BY <1>7 DEF Decide, NextStage, Go
    <2> QED
      BY <1>3, <2>1, <2>2 DEF Executing
  <1>8. ASSUME Raised(p) \/ End(p) PROVE Leased(p)'
    <2>1. lease' = NoLease /\ pc'[p] \in {"errorRead", "scheduled", "none"}
      BY <1>8 DEF Raised, End, Free, Finish, Go
    <2> QED
      BY <2>1 DEF Leased, Executing
  <1>9. ASSUME ErrorRead(p) \/ Requeue(p) \/ GiveUp(p) PROVE Leased(p)'
    <2>1. UNCHANGED <<lease, counters>>
      BY <1>9 DEF ErrorRead, Requeue, GiveUp, row
    <2>2. pc[p] \in {"errorRead", "requeueing", "givingUp"}
      BY <1>9 DEF ErrorRead, Requeue, GiveUp
    <2>3. pc'[p] \in {"requeueing", "givingUp", "ending", "requeued"}
      BY <1>9 DEF ErrorRead, Requeue, GiveUp, Go
    <2> QED
      BY <1>4, <2>1, <2>2, <2>3 DEF Leased, Executing
  <1>10. ASSUME StoreMessage(p) \/ Restart(p) PROVE Leased(p)'
    <2>1. UNCHANGED <<lease, counters>>
      BY <1>10 DEF StoreMessage, Restart, row
    <2>2. pc'[p] = pc[p] \/ (pc[p] = "none" /\ pc'[p] = "scheduled")
      BY <1>10 DEF StoreMessage, Restart, Schedule, Go
    <2> QED
      BY <1>2, <1>4, <2>1, <2>2 DEF Leased, Executing
  <1>11. ASSUME CancelPublish(p) PROVE Leased(p)'
    <2>1. UNCHANGED <<lease, counters>>
      BY <1>11 DEF CancelPublish
    <2>2. \/ pc[p] \in {"none", "scheduled"} /\ pc'[p] = "none"
          \/ pc'[p] = "ending"
      BY <1>11 DEF CancelPublish
    <2> QED
      BY <2>1, <2>2 DEF Leased, Executing, counters
  <1>12. ASSUME Accept(p) \/ CancelRead(p) \/ CancelStop(p) \/ ThreadStep(p)
                \/ (\E i \in Analysis : AnalysisEnds(i)) \/ UNCHANGED vars
         PROVE  Leased(p)'
    <2>1. UNCHANGED <<lease, counters, pc>>
      BY <1>12 DEF Accept, CancelRead, CancelStop, ThreadStep, StartAnalysis, ContinueAnalysis,
         PollAnalysis, AnalysisEnds, row, job, vars
    <2> QED
      BY <1>2, <2>1
  <1>13. ASSUME StoreError(p) PROVE Leased(p)'
    <2>1. UNCHANGED lease /\ errors' # 0
      BY <1>1, <1>13 DEF StoreError, row
    <2>2. UNCHANGED pc \/ pc'[p] \in {"raised", "ending", "none", "scheduled"}
      BY <1>13 DEF StoreError, JobStoreError, CancelStoreError, Finish, Go, job
    <2> QED
      BY <2>1, <2>2 DEF Leased, Executing
  <1>14. ASSUME Exit(p) PROVE Leased(p)'
    <2>1. stops' # 0 /\ pc'[p] = "none"
      BY <1>1, <1>14 DEF Exit, Go
    <2> QED
      BY <2>1 DEF Leased, Executing
  <1>15. ASSUME Tick PROVE Leased(p)'
    <2>1. lease \in Nat /\ lease' \in Nat /\ UNCHANGED <<pc, counters>>
      BY <1>1, <1>15 DEF Tick, NoLease, job
    <2> QED
      BY <1>1, <2>1 DEF Leased, Executing, counters
  <1>16. ASSUME JobStep(p) PROVE Leased(p)'
    BY <1>5, <1>6, <1>7, <1>8, <1>9, <1>16 DEF JobStep
  <1> QED
    BY <1>10, <1>11, <1>12, <1>13, <1>14, <1>15, <1>16 DEF Next, CallerStep

\* The invariant of a single process.
AInv == IInv /\ Segments /\ StartsFirst /\ Fresh /\ LeaseFollowsJob

LEMMA OneProcess ==
  ASSUME Cardinality(Proc) = 1
  PROVE  \E p \in Proc : Proc = {p}
  BY ProcAssumption, FS_Singleton

LEMMA OneInit ==
  ASSUME Cardinality(Proc) = 1, Init
  PROVE  AInv
  <1>1. IInv
    BY InitInv
  <1>2. Segments /\ StartsFirst /\ Fresh
    BY DEF Init, Segments, StartsFirst, Fresh, Starts, Concludes
  <1>3. LeaseFollowsJob
    BY DEF Init, LeaseFollowsJob, Executing
  <1> QED
    BY <1>1, <1>2, <1>3 DEF AInv

LEMMA OneStep ==
  ASSUME Cardinality(Proc) = 1, AInv, [Next]_vars
  PROVE  /\ AInv'
         /\ internal # NoAnalysis => internal' = internal
         /\ state \in Terminal => state' \in {state, "CANCELED"}
  <1>1. PICK p \in Proc : Proc = {p}
    BY OneProcess
  <1>2. Types /\ IInv'
    BY StepInv DEF AInv, IInv
  <1>3. Segments'
    BY <1>1, <1>2, SegmentsStep DEF AInv
  <1>4. StartsFirst' /\ (internal # NoAnalysis => internal' = internal)
    BY <1>1, <1>2, StartsStep DEF AInv
  <1>5. Fresh' /\ (state \in Terminal => state' \in {state, "CANCELED"})
    BY <1>1, <1>2, FreshStep DEF AInv
  <1>6. LeaseFollowsJob'
    <2>1. Leased(p)
      BY <1>1 DEF AInv, LeaseFollowsJob, Leased
    <2>2. Leased(p)'
      BY <1>1, <1>2, <2>1, LeaseStep
    <2> QED
      BY <1>1, <2>2 DEF LeaseFollowsJob, Leased
  <1> QED
    BY <1>2, <1>3, <1>4, <1>5, <1>6 DEF AInv

LEMMA OneInvariance ==
  ASSUME Cardinality(Proc) = 1
  PROVE  Spec => []AInv
  <1>1. Init => AInv
    BY OneInit
  <1>2. AInv /\ [Next]_vars => AInv'
    BY OneStep
  <1> QED
    BY <1>1, <1>2, PTL DEF Spec

\* With one server process a row is leased while its job executes, and but for an
\* exit or a failing call no way out of _run_task forgets release_execution.
THEOREM LeaseTheorem == Spec => []LeaseFollowsJob
  <1>1. CASE Cardinality(Proc) = 1
    <2>1. AInv => LeaseFollowsJob
      BY DEF AInv
    <2> QED
      BY <1>1, <2>1, OneInvariance, PTL
  <1>2. CASE Cardinality(Proc) # 1
    <2>1. LeaseFollowsJob
      BY <1>2 DEF LeaseFollowsJob
    <2> QED
      BY <2>1, PTL
  <1> QED
    BY <1>1, <1>2

\* With one server process the analysis recorded for a task (save with
\* internal_thread_id) is never replaced, through retries, cancellations and restarts.
THEOREM StableTheorem ==
  ASSUME Cardinality(Proc) = 1
  PROVE  Spec => AnalysisIsStable
  <1>1. AInv /\ [Next]_vars => [internal # NoAnalysis => internal' = internal]_vars
    BY OneStep
  <1> QED
    BY <1>1, OneInvariance, PTL DEF Spec, AnalysisIsStable

\* With one server process the guarded UPDATE of save lets nothing into a terminal
\* row but the cancellation of a caller who read the task before it ended.
THEOREM LateTheorem ==
  ASSUME Cardinality(Proc) = 1
  PROVE  Spec => OnlyCancelIsLate
  <1>1. AInv /\ [Next]_vars =>
          [(state \in {"COMPLETED", "FAILED", "CANCELED"}) => (state' \in {state, "CANCELED"})]_vars
    BY OneStep DEF Terminal
  <1> QED
    BY <1>1, OneInvariance, PTL DEF Spec, OnlyCancelIsLate


-----------------------------------------------------------------------------
(***************************************************************************)
(* Knowledge documents: the rows of the tables, and what fits them         *)
(* together.                                                               *)
(***************************************************************************)
DocRow == [status : {"none", "queued", "processing", "failed", "deleted"} \cup Ready,
           cur : 0 .. MaxVersions, hash : 0 .. MaxVersions,
           approval : {"approved", "pending", "rejected"}, deleted : BOOLEAN]
VerRow == [hash : Version, status : {"queued", "processing", "failed"} \cup Ready]
IngestJobRow == [op : {"ingest", "reindex", "rebuild"}, v : 0 .. MaxVersions,
                 status : Open \cup {"completed", "failed"}, task : Open \cup {"done"}]
IngestRun == [pc : {"idle", "parse", "index", "save", "finish", "drop", "fill", "invalidate"},
              job : 0 .. MaxJobs, v : 0 .. MaxVersions]
ApiRow == [pc : {"idle", "delete", "approve", "reject"}, v : 0 .. MaxVersions]

\* The document and its versions.
VersionsFit == /\ ver \in Seq(VerRow) /\ Len(ver) <= MaxVersions
DocFits == /\ doc \in DocRow
           /\ doc.cur \in {0} \cup DOMAIN ver
FilesFit == /\ files \subseteq DOMAIN ver
            /\ rows \subseteq DOMAIN ver
            /\ active \in {0} \cup rows
            /\ points \in [Version -> {"absent", "active", "inactive"}]

\* A job that a worker may still take has a version, a rebuild has none.
IngestJobFits(j) ==
  /\ jobs[j].op = "rebuild" => jobs[j].v = 0
  /\ jobs[j].op # "rebuild" /\ jobs[j].status # "completed" => jobs[j].v \in DOMAIN ver
JobsFit == /\ jobs \in Seq(IngestJobRow) /\ Len(jobs) <= MaxJobs
           /\ \A j \in DOMAIN jobs : IngestJobFits(j)

\* A worker is in a job of the kind of its step, at the version of the job.
IngestRunFits(w) ==
  run[w].pc # "idle" =>
    /\ run[w].job \in DOMAIN jobs
    /\ run[w].pc \in {"parse", "index", "save", "finish"} => jobs[run[w].job].op # "rebuild"
    /\ run[w].pc \in {"drop", "fill"} => jobs[run[w].job].op = "rebuild"
    /\ jobs[run[w].job].op # "rebuild" => run[w].v = jobs[run[w].job].v /\ run[w].v \in DOMAIN ver
    /\ run[w].v \in {0} \cup DOMAIN ver
WorkersFit == /\ run \in [Worker -> IngestRun]
              /\ \A w \in Worker : IngestRunFits(w)

\* A request keeps a version that exists, a deletion a deleted row.
RequestFits == /\ api \in ApiRow
               /\ api.v \in {0} \cup DOMAIN ver
               /\ api.pc = "approve" => api.v # 0
               /\ api.pc = "delete" => doc.deleted

SearchFits == /\ search \in [pc : {"idle", "recalled", "built"}, hits : SUBSET Version]
              /\ cache \in [full : BOOLEAN, hits : SUBSET Version]

Counts == /\ reviews \in 0 .. MaxReviews /\ faults \in 0 .. MaxFaults
          /\ stale \in BOOLEAN

DocsFit == VersionsFit /\ DocFits /\ FilesFit /\ JobsFit /\ WorkersFit /\ RequestFits
           /\ SearchFits /\ Counts

\* While no index write was lost or made from an old read: one worker at most
\* is between its index write and its document row; before and after, the rows
\* served are those of the current version and the index holds no active point
\* of another one, and holds theirs unless a rebuild or a review has them in
\* hand; in between, the index holds what that worker wrote.
OneWriter == \A u, w \in Worker : Busy(u) /\ Busy(w) => u = w
NoWriter == \A w \in Worker : ~Busy(w)
Refilled == /\ active # 0 /\ ver[active].status \in Ready
            /\ doc.approval # "rejected" /\ api.pc # "approve"
            /\ \A w \in Worker : run[w].pc # "fill"
IndexIs(v) == Recalled = {v}
Clean ==
  /\ OneWriter
  /\ NoWriter => active = doc.cur
  /\ \A w \in Worker : run[w].pc = "finish" => active = run[w].v
  /\ ~doc.deleted =>
       /\ \A w \in Worker : Busy(w) => IndexIs(run[w].v)
       /\ NoWriter => Recalled \subseteq {active}
       /\ NoWriter /\ Refilled => IndexIs(active)

DocsIInv == DocsFit /\ (~stale => Clean)

LEMMA FitIsType == DocsFit => DocsTypeOK
<1> SUFFICES ASSUME DocsFit PROVE DocsTypeOK
  OBVIOUS
<1>1. /\ doc \in DocRow /\ ver \in Seq(VerRow) /\ Len(ver) <= MaxVersions
      /\ jobs \in Seq(IngestJobRow) /\ run \in [Worker -> IngestRun] /\ api \in ApiRow
      /\ active \in {0} \cup rows
  BY DEF DocsFit, VersionsFit, DocFits, FilesFit, JobsFit, WorkersFit, RequestFits
<1>2. DOMAIN ver \subseteq Version
  BY <1>1, BoundAssumption DEF Version
<1>3. files \subseteq Version /\ rows \subseteq Version
  BY <1>2 DEF DocsFit, FilesFit
<1> QED
  BY <1>1, <1>3 DEF DocsFit, FilesFit, SearchFits, Counts, DocsTypeOK, DocRow, VerRow, IngestJobRow,
    IngestRun, ApiRow

LEMMA DocsInitFits == DocsInit => DocsIInv
<1> SUFFICES ASSUME DocsInit PROVE DocsIInv
  OBVIOUS
<1>1. VersionsFit /\ JobsFit
  <2>1. ver = <<>> /\ jobs = <<>>
    BY DEF DocsInit
  <2>2. ver \in Seq(VerRow) /\ Len(ver) = 0 /\ jobs \in Seq(IngestJobRow) /\ Len(jobs) = 0 /\ DOMAIN jobs = {}
    BY <2>1
  <2> QED
    BY <2>2, BoundAssumption DEF VersionsFit, JobsFit
<1>2. DocFits /\ RequestFits
  BY BoundAssumption DEF DocsInit, DocFits, RequestFits, DocRow, ApiRow, Ready
<1>6. SearchFits
  BY DEF DocsInit, SearchFits, NoSearch, Empty
<1>7. Counts
  <2>1. reviews = 0 /\ faults = 0 /\ stale = FALSE
    BY DEF DocsInit
  <2>2. reviews \in 0 .. MaxReviews /\ faults \in 0 .. MaxFaults
    BY <2>1, BoundAssumption
  <2>3. stale \in BOOLEAN
    BY <2>1
  <2> QED
    BY <2>2, <2>3 DEF Counts
<1>5. FilesFit
  BY DEF DocsInit, FilesFit
<1>3. WorkersFit
  BY BoundAssumption DEF DocsInit, WorkersFit, IngestRunFits, IngestRun, Idle
<1>4. Clean
  <2>1. Recalled = {} /\ \A w \in Worker : ~Busy(w) /\ run[w].pc = "idle"
    BY DEF DocsInit, Recalled, Busy, Idle
  <2> QED
    BY <2>1 DEF DocsInit, Clean, OneWriter, NoWriter, Refilled, IndexIs
<1> QED
  BY <1>1, <1>2, <1>3, <1>4, <1>5, <1>6, <1>7 DEF DocsIInv, DocsFit


-----------------------------------------------------------------------------
(* The writes of the tables. *)

LEMMA RowReplaced ==
  ASSUME NEW S, NEW q \in Seq(S), NEW i \in DOMAIN q, NEW r \in S
  PROVE  LET n == [q EXCEPT ![i] = r]
         IN  /\ n \in Seq(S) /\ Len(n) = Len(q) /\ DOMAIN n = DOMAIN q
             /\ \A k \in DOMAIN q : n[k] = IF k = i THEN r ELSE q[k]
OBVIOUS

LEMMA RowsReplaced ==
  ASSUME NEW S, NEW q \in Seq(S), NEW n \in [DOMAIN q -> S]
  PROVE  n \in Seq(S) /\ Len(n) = Len(q)
<1>1. DOMAIN q = 1 .. Len(q) /\ Len(q) \in Nat
  OBVIOUS
<1>2. n \in Seq(S)
  BY <1>1
<1> QED
  BY <1>1, <1>2

LEMMA JobRowMoves ==
  ASSUME jobs \in Seq(IngestJobRow), NEW j \in DOMAIN jobs,
         NEW s \in Open \cup {"completed", "failed"}, NEW t \in Open \cup {"done"},
         jobs' = [jobs EXCEPT ![j].status = s, ![j].task = t]
  PROVE  /\ jobs' \in Seq(IngestJobRow) /\ Len(jobs') = Len(jobs) /\ DOMAIN jobs' = DOMAIN jobs
         /\ \A i \in DOMAIN jobs : /\ jobs'[i].op = jobs[i].op /\ jobs'[i].v = jobs[i].v
                                   /\ i # j => jobs'[i].status = jobs[i].status
                                   /\ i = j => jobs'[i].status = s
<1> DEFINE r == [jobs[j] EXCEPT !.status = s, !.task = t]
<1>1. jobs[j] \in IngestJobRow
  OBVIOUS
<1>2. r \in IngestJobRow /\ r.op = jobs[j].op /\ r.v = jobs[j].v /\ r.status = s
  BY <1>1 DEF IngestJobRow
<1>3. jobs' = [jobs EXCEPT ![j] = r]
  BY <1>1 DEF IngestJobRow
<1> HIDE DEF r
<1>4. jobs' \in Seq(IngestJobRow) /\ Len(jobs') = Len(jobs) /\ DOMAIN jobs' = DOMAIN jobs
  BY ONLY jobs \in Seq(IngestJobRow), j \in DOMAIN jobs, <1>2, <1>3, RowReplaced
<1>5. \A i \in DOMAIN jobs : jobs'[i] = IF i = j THEN r ELSE jobs[i]
  BY ONLY jobs \in Seq(IngestJobRow), j \in DOMAIN jobs, <1>2, <1>3, RowReplaced
<1> QED
  BY <1>2, <1>4, <1>5

LEMMA JobStatusMoves ==
  ASSUME jobs \in Seq(IngestJobRow), NEW j \in DOMAIN jobs,
         NEW s \in Open \cup {"completed", "failed"}, jobs' = JobStatus(j, s)
  PROVE  /\ jobs' \in Seq(IngestJobRow) /\ Len(jobs') = Len(jobs) /\ DOMAIN jobs' = DOMAIN jobs
         /\ \A i \in DOMAIN jobs : /\ jobs'[i].op = jobs[i].op /\ jobs'[i].v = jobs[i].v
                                   /\ i # j => jobs'[i].status = jobs[i].status
                                   /\ i = j => jobs'[i].status = s
<1>1. jobs[j] \in IngestJobRow
  OBVIOUS
<1>2. jobs' = [jobs EXCEPT ![j].status = s, ![j].task = jobs[j].task]
  BY <1>1 DEF JobStatus, IngestJobRow
<1>3. jobs[j].task \in Open \cup {"done"}
  BY <1>1 DEF IngestJobRow
<1> QED
  BY <1>2, <1>3, JobRowMoves

LEMMA JobAppears ==
  ASSUME jobs \in Seq(IngestJobRow), NEW op \in {"ingest", "reindex", "rebuild"},
         NEW v \in 0 .. MaxVersions, NEW s \in {"queued", "completed"}, CreateJob(op, v, s),
         Len(jobs) <= MaxJobs
  PROVE  /\ jobs' \in Seq(IngestJobRow) /\ Len(jobs') <= MaxJobs /\ DOMAIN jobs \subseteq DOMAIN jobs'
         /\ \A i \in DOMAIN jobs : jobs'[i] = jobs[i]
         /\ \A i \in DOMAIN jobs' \ DOMAIN jobs :
              jobs'[i].op = op /\ jobs'[i].v = v /\ jobs'[i].status = s
<1> DEFINE r == [op |-> op, v |-> v, status |-> s, task |-> IF s = "queued" THEN "queued" ELSE "done"]
<1>1. r \in IngestJobRow /\ r.op = op /\ r.v = v /\ r.status = s
  BY DEF IngestJobRow, Open
<1>2. jobs' = Append(jobs, r) /\ Len(jobs) < MaxJobs
  BY DEF CreateJob
<1> HIDE DEF r
<1>3. Len(jobs') = Len(jobs) + 1 /\ jobs' \in Seq(IngestJobRow)
  BY <1>1, <1>2
<1>4. \A i \in 1 .. Len(jobs) : jobs'[i] = jobs[i]
  BY <1>2
<1>5. jobs'[Len(jobs) + 1] = r
  BY <1>2
<1>6. DOMAIN jobs = 1 .. Len(jobs) /\ DOMAIN jobs' = 1 .. Len(jobs) + 1 /\ Len(jobs) \in Nat
  BY <1>3
<1>7. \A i \in DOMAIN jobs' \ DOMAIN jobs : i = Len(jobs) + 1
  BY <1>6
<1> QED
  BY <1>1, <1>2, <1>3, <1>4, <1>5, <1>6, <1>7, BoundAssumption

\* A restart puts running tasks back and leaves the rest of their jobs.
LEMMA JobsRecover ==
  ASSUME jobs \in Seq(IngestJobRow),
         jobs' = [j \in DOMAIN jobs |-> [jobs[j] EXCEPT !.task = IF @ = "running" THEN "queued" ELSE @]]
  PROVE  /\ jobs' \in Seq(IngestJobRow) /\ Len(jobs') = Len(jobs) /\ DOMAIN jobs' = DOMAIN jobs
         /\ \A i \in DOMAIN jobs : /\ jobs'[i].op = jobs[i].op /\ jobs'[i].v = jobs[i].v
                                   /\ jobs'[i].status = jobs[i].status
<1> DEFINE r(j) == [jobs[j] EXCEPT !.task = IF @ = "running" THEN "queued" ELSE @]
<1>1. \A j \in DOMAIN jobs : jobs[j] \in IngestJobRow
  OBVIOUS
<1>2. ASSUME NEW j \in DOMAIN jobs
      PROVE  r(j) \in IngestJobRow /\ r(j).op = jobs[j].op /\ r(j).v = jobs[j].v /\ r(j).status = jobs[j].status
  BY <1>1 DEF IngestJobRow, Open
<1>3. jobs' = [j \in DOMAIN jobs |-> r(j)]
  OBVIOUS
<1> HIDE DEF r
<1>4. jobs' \in [DOMAIN jobs -> IngestJobRow] /\ DOMAIN jobs' = DOMAIN jobs
  BY ONLY <1>2, <1>3
<1>5. jobs' \in Seq(IngestJobRow) /\ Len(jobs') = Len(jobs)
  BY <1>4, RowsReplaced
<1>6. \A i \in DOMAIN jobs : jobs'[i] = r(i)
  BY <1>3
<1> QED
  BY <1>2, <1>4, <1>5, <1>6

LEMMA VersionAppears ==
  ASSUME VersionsFit, NEW c \in Version, NewVersion(c), Len(ver) < MaxVersions
  PROVE  /\ VersionsFit' /\ DOMAIN ver \subseteq DOMAIN ver' /\ Len(ver) + 1 \in DOMAIN ver'
         /\ DOMAIN ver' \subseteq DOMAIN ver \cup {Len(ver) + 1}
         /\ \A v \in DOMAIN ver : ver'[v] = ver[v]
<1> DEFINE r == [hash |-> c, status |-> "queued"]
<1>1. ver \in Seq(VerRow) /\ Len(ver) \in Nat
  BY DEF VersionsFit
<1>2. r \in VerRow
  BY DEF VerRow
<1>3. ver' = Append(ver, r)
  BY DEF NewVersion
<1> HIDE DEF r
<1>4. ver' \in Seq(VerRow) /\ Len(ver') = Len(ver) + 1
  BY <1>1, <1>2, <1>3
<1>5. \A v \in 1 .. Len(ver) : ver'[v] = ver[v]
  BY <1>1, <1>3
<1>6. DOMAIN ver = 1 .. Len(ver) /\ DOMAIN ver' = 1 .. Len(ver) + 1
  BY <1>1, <1>4
<1> QED
  BY <1>1, <1>4, <1>5, <1>6, BoundAssumption DEF VersionsFit

LEMMA VersionMoves ==
  ASSUME VersionsFit, NEW v \in DOMAIN ver, NEW s \in {"queued", "processing", "failed"} \cup Ready,
         UpdateVersion(v, s)
  PROVE  /\ VersionsFit' /\ DOMAIN ver' = DOMAIN ver
         /\ \A u \in DOMAIN ver : /\ u # v => ver'[u] = ver[u]
                                  /\ u = v => ver'[u].status = s
<1> DEFINE r == [ver[v] EXCEPT !.status = s]
<1>1. ver \in Seq(VerRow) /\ ver[v] \in VerRow
  BY DEF VersionsFit
<1>2. r \in VerRow /\ r.status = s
  BY <1>1 DEF VerRow
<1>3. ver' = [ver EXCEPT ![v] = r]
  BY <1>1 DEF UpdateVersion, VerRow
<1> HIDE DEF r
<1>4. ver' \in Seq(VerRow) /\ Len(ver') = Len(ver) /\ DOMAIN ver' = DOMAIN ver
  BY <1>1, <1>2, <1>3, RowReplaced
<1>5. \A u \in DOMAIN ver : ver'[u] = IF u = v THEN r ELSE ver[u]
  BY <1>1, <1>2, <1>3, RowReplaced
<1> QED
  BY <1>2, <1>4, <1>5 DEF VersionsFit

-----------------------------------------------------------------------------
(* Every step keeps the tables fitting. *)

Ingesting(w) == run[w].pc # "idle" /\ jobs[run[w].job].op # "rebuild"

LEMMA RunKnows ==
  ASSUME DocsFit, NEW w \in Worker, run[w].pc # "idle"
  PROVE  /\ run[w] \in IngestRun /\ run[w].job \in DOMAIN jobs /\ jobs[run[w].job] \in IngestJobRow
         /\ run[w].v \in {0} \cup DOMAIN ver
         /\ Ingesting(w) => run[w].v = jobs[run[w].job].v /\ run[w].v \in DOMAIN ver
         /\ run[w].pc \in {"parse", "index", "save", "finish"} => Ingesting(w)
         /\ run[w].pc \in {"drop", "fill"} => ~Ingesting(w)
<1>1. run \in [Worker -> IngestRun] /\ IngestRunFits(w)
  BY DEF DocsFit, WorkersFit
<1>2. jobs \in Seq(IngestJobRow)
  BY DEF DocsFit, JobsFit
<1>3. run[w].job \in DOMAIN jobs /\ run[w] \in IngestRun
  BY <1>1 DEF IngestRunFits
<1>4. jobs[run[w].job] \in IngestJobRow
  BY <1>2, <1>3
<1> QED
  BY <1>1, <1>3, <1>4 DEF IngestRunFits, Ingesting

LEMMA VersionRange ==
  ASSUME DocsFit
  PROVE  /\ DOMAIN ver \subseteq Version /\ Len(ver) \in Nat /\ DOMAIN ver = 1 .. Len(ver)
         /\ 0 \notin DOMAIN ver
         /\ \A v \in DOMAIN ver : ver[v] \in VerRow
BY BoundAssumption DEF DocsFit, VersionsFit, Version

LEMMA VersionsNext == DocsFit /\ DocsNext => VersionsFit' /\ DOMAIN ver \subseteq DOMAIN ver'
<1> SUFFICES ASSUME DocsFit, DocsNext PROVE VersionsFit' /\ DOMAIN ver \subseteq DOMAIN ver'
  OBVIOUS
<1> DEFINE Goal == VersionsFit' /\ DOMAIN ver \subseteq DOMAIN ver'
<1>a. VersionsFit
  BY DEF DocsFit
<1>b. CASE ver' = ver
  BY <1>a, <1>b DEF VersionsFit
<1>1. ASSUME NEW c \in Content, Register(c) PROVE Goal
  <2>1. CASE Unchanged(c)
    BY <1>b, <1>1, <2>1 DEF Register
  <2>2. CASE ~Unchanged(c)
    <3>1. Len(ver) < MaxVersions /\ NewVersion(c)
      BY <1>1, <2>2 DEF Register
    <3> QED
      BY <1>a, <3>1, VersionAppears DEF Content
  <2> QED
    BY <2>1, <2>2
<1>2. ASSUME NEW w \in Worker, WorkerStep(w) PROVE Goal
  <2>1. CASE Parse(w)
    <3>1. run[w].v \in DOMAIN ver /\ UpdateVersion(run[w].v, "processing")
      BY <2>1, RunKnows DEF Parse
    <3> QED
      BY <1>a, <3>1, VersionMoves
  <2>2. CASE SaveDocument(w)
    <3>1. run[w].v \in DOMAIN ver /\ UpdateVersion(run[w].v, "indexed")
      BY <2>2, RunKnows DEF SaveDocument
    <3> QED
      BY <1>a, <3>1, VersionMoves DEF Ready
  <2>3. CASE FailIngest(w)
    <3>1. Ingesting(w) /\ run[w].pc # "idle"
      BY <2>3, RunKnows DEF FailIngest, Ingesting
    <3>2. run[w].v \in DOMAIN ver /\ UpdateVersion(run[w].v, "failed")
      BY <2>3, <3>1, RunKnows DEF FailIngest
    <3> QED
      BY <1>a, <3>2, VersionMoves
  <2>4. CASE \E j \in DOMAIN jobs : SkipCompleted(w, j) \/ BeginIngest(w, j) \/ BeginRebuild(w, j)
    BY <1>b, <2>4 DEF SkipCompleted, BeginIngest, BeginRebuild, stored
  <2>5. CASE Restore(w) \/ IndexChunks(w) \/ SaveChunks(w) \/ Invalidate(w) \/ DropPoints(w) \/ FillPoints(w)
    BY <1>b, <2>5 DEF Restore, IndexChunks, SaveChunks, Invalidate, DropPoints, FillPoints, stored
  <2> QED
    BY <1>2, <2>1, <2>2, <2>3, <2>4, <2>5 DEF WorkerStep
<1>3. CASE \/ QueueReindex \/ QueueRebuild \/ DeleteRow \/ PurgeExpired \/ ApiStep \/ Recall \/ SearchStep
           \/ CacheExpires \/ RestartRuntime
  BY <1>b, <1>3 DEF QueueReindex, QueueRebuild, DeleteRow, PurgeExpired, ApiStep, DeleteRest, ReviewIndex,
    ReviewRemove, Recall, SearchStep, ReadRows, LexicalFallback, PutCached, CacheExpires, RestartRuntime, stored
<1>4. ASSUME NEW j \in DOMAIN jobs, RetryJob(j) PROVE Goal
  BY <1>b, <1>4 DEF RetryJob, stored
<1>5. ASSUME NEW d \in {"approved", "rejected"}, ReviewRow(d) PROVE Goal
  BY <1>b, <1>5 DEF ReviewRow
<1> QED
  BY <1>1, <1>2, <1>3, <1>4, <1>5 DEF DocsNext

\* What a step keeps of the jobs.
JobsKept == /\ DOMAIN jobs \subseteq DOMAIN jobs'
            /\ \A j \in DOMAIN jobs : jobs'[j].op = jobs[j].op /\ jobs'[j].v = jobs[j].v

\* A job row that moves keeps what fits it, when what it was not completed
\* before it has its version.
LEMMA JobMoveFits ==
  ASSUME DocsFit, VersionsFit', DOMAIN ver \subseteq DOMAIN ver', NEW j \in DOMAIN jobs,
         jobs' \in Seq(IngestJobRow), Len(jobs') = Len(jobs), DOMAIN jobs' = DOMAIN jobs,
         \A i \in DOMAIN jobs : /\ jobs'[i].op = jobs[i].op /\ jobs'[i].v = jobs[i].v
                                /\ i # j => jobs'[i].status = jobs[i].status,
         \/ jobs'[j].status = "completed" \/ jobs[j].status # "completed"
         \/ jobs[j].op = "rebuild" \/ jobs[j].v \in DOMAIN ver
  PROVE  JobsFit' /\ JobsKept
<1>1. Len(jobs) <= MaxJobs /\ \A i \in DOMAIN jobs : IngestJobFits(i)
  BY DEF DocsFit, JobsFit
<1>2. ASSUME NEW i \in DOMAIN jobs PROVE IngestJobFits(i)'
  BY <1>1 DEF IngestJobFits
<1> QED
  BY <1>1, <1>2 DEF JobsFit, JobsKept

LEMMA JobAppearsFits ==
  ASSUME DocsFit, VersionsFit', DOMAIN ver \subseteq DOMAIN ver',
         NEW op \in {"ingest", "reindex", "rebuild"}, NEW v \in 0 .. MaxVersions,
         NEW s \in {"queued", "completed"}, CreateJob(op, v, s),
         IF op = "rebuild" THEN v = 0 ELSE s = "completed" \/ v \in DOMAIN ver'
  PROVE  JobsFit' /\ JobsKept
<1>1. jobs \in Seq(IngestJobRow) /\ Len(jobs) <= MaxJobs /\ \A i \in DOMAIN jobs : IngestJobFits(i)
  BY DEF DocsFit, JobsFit
<1>2. /\ jobs' \in Seq(IngestJobRow) /\ Len(jobs') <= MaxJobs /\ DOMAIN jobs \subseteq DOMAIN jobs'
      /\ \A i \in DOMAIN jobs : jobs'[i] = jobs[i]
      /\ \A i \in DOMAIN jobs' \ DOMAIN jobs : jobs'[i].op = op /\ jobs'[i].v = v /\ jobs'[i].status = s
  BY <1>1, JobAppears
<1>3. ASSUME NEW i \in DOMAIN jobs' PROVE IngestJobFits(i)'
  <2>1. CASE i \in DOMAIN jobs
    BY <1>1, <1>2, <2>1 DEF IngestJobFits
  <2>2. CASE i \notin DOMAIN jobs
    BY <1>2, <2>2 DEF IngestJobFits
  <2> QED
    BY <2>1, <2>2
<1> QED
  BY <1>2, <1>3 DEF JobsFit, JobsKept

LEMMA TaskMovesFit ==
  ASSUME DocsFit, VersionsFit', DOMAIN ver \subseteq DOMAIN ver', NEW j \in DOMAIN jobs,
         NEW s \in Open \cup {"completed", "failed"}, NEW t \in Open \cup {"done"},
         jobs' = [jobs EXCEPT ![j].status = s, ![j].task = t],
         s = "completed" \/ jobs[j].status # "completed" \/ jobs[j].op = "rebuild" \/ jobs[j].v \in DOMAIN ver
  PROVE  JobsFit' /\ JobsKept
<1>1. jobs \in Seq(IngestJobRow)
  BY DEF DocsFit, JobsFit
<1>2. /\ jobs' \in Seq(IngestJobRow) /\ Len(jobs') = Len(jobs) /\ DOMAIN jobs' = DOMAIN jobs
      /\ \A i \in DOMAIN jobs : /\ jobs'[i].op = jobs[i].op /\ jobs'[i].v = jobs[i].v
                                /\ i # j => jobs'[i].status = jobs[i].status
                                /\ i = j => jobs'[i].status = s
  BY <1>1, JobRowMoves
<1> QED
  BY ONLY DocsFit, VersionsFit', DOMAIN ver \subseteq DOMAIN ver', j \in DOMAIN jobs, <1>2, JobMoveFits,
    s = "completed" \/ jobs[j].status # "completed" \/ jobs[j].op = "rebuild" \/ jobs[j].v \in DOMAIN ver

LEMMA StatusMovesFit ==
  ASSUME DocsFit, VersionsFit', DOMAIN ver \subseteq DOMAIN ver', NEW j \in DOMAIN jobs,
         NEW s \in Open \cup {"completed", "failed"}, jobs' = JobStatus(j, s),
         s = "completed" \/ jobs[j].op = "rebuild"
  PROVE  JobsFit' /\ JobsKept
<1>1. jobs \in Seq(IngestJobRow)
  BY DEF DocsFit, JobsFit
<1>2. /\ jobs' \in Seq(IngestJobRow) /\ Len(jobs') = Len(jobs) /\ DOMAIN jobs' = DOMAIN jobs
      /\ \A i \in DOMAIN jobs : /\ jobs'[i].op = jobs[i].op /\ jobs'[i].v = jobs[i].v
                                /\ i # j => jobs'[i].status = jobs[i].status
                                /\ i = j => jobs'[i].status = s
  BY <1>1, JobStatusMoves
<1> QED
  BY ONLY DocsFit, VersionsFit', DOMAIN ver \subseteq DOMAIN ver', j \in DOMAIN jobs, <1>2, JobMoveFits,
    s = "completed" \/ jobs[j].op = "rebuild"

LEMMA JobsNext == DocsFit /\ DocsNext => JobsFit' /\ JobsKept
<1> SUFFICES ASSUME DocsFit, DocsNext PROVE JobsFit' /\ JobsKept
  OBVIOUS
<1> DEFINE Goal == JobsFit' /\ JobsKept
<1>a. VersionsFit' /\ DOMAIN ver \subseteq DOMAIN ver'
  BY VersionsNext
<1>c. /\ jobs \in Seq(IngestJobRow) /\ \A i \in DOMAIN jobs : IngestJobFits(i) /\ jobs[i] \in IngestJobRow
      /\ doc.cur \in {0} \cup DOMAIN ver
  BY DEF DocsFit, JobsFit, DocFits
<1>b. CASE jobs' = jobs
  BY <1>a, <1>b DEF DocsFit, JobsFit, IngestJobFits, JobsKept
<1>1. ASSUME NEW c \in Content, Register(c) PROVE Goal
  <2>1. CASE Unchanged(c)
    <3>1. CreateJob("ingest", 0, "completed")
      BY <1>1, <2>1 DEF Register
    <3> QED
      BY <1>a, <3>1, JobAppearsFits, BoundAssumption
  <2>2. CASE ~Unchanged(c)
    <3>1. Len(ver) < MaxVersions /\ NewVersion(c) /\ CreateJob("ingest", Len(ver) + 1, "queued")
      BY <1>1, <2>2 DEF Register
    <3>2. Len(ver) + 1 \in DOMAIN ver'
      BY <3>1, VersionAppears DEF DocsFit, Content
    <3>3. Len(ver) + 1 \in 0 .. MaxVersions
      BY <3>1, VersionRange, BoundAssumption
    <3> QED
      BY <1>a, <3>1, <3>2, <3>3, JobAppearsFits
  <2> QED
    BY <2>1, <2>2
<1>2. ASSUME NEW w \in Worker, WorkerStep(w) PROVE Goal
  <2>1. ASSUME NEW j \in DOMAIN jobs, SkipCompleted(w, j) PROVE Goal
    BY <1>a, <2>1, TaskMovesFit DEF SkipCompleted, EndTask
  <2>2. ASSUME NEW j \in DOMAIN jobs, BeginIngest(w, j) PROVE Goal
    BY <1>a, <2>2, TaskMovesFit DEF BeginIngest, Open
  <2>3. ASSUME NEW j \in DOMAIN jobs, BeginRebuild(w, j) PROVE Goal
    BY <1>a, <2>3, TaskMovesFit DEF BeginRebuild, Open
  <2>4. ASSUME run[w].pc # "idle", Ingesting(w), EndTask(run[w].job, "failed") PROVE Goal
    <3>1. run[w].job \in DOMAIN jobs /\ jobs[run[w].job].v \in DOMAIN ver
      BY <2>4, RunKnows
    <3> QED
      BY <1>a, <2>4, <3>1, TaskMovesFit DEF EndTask
  <2>5. CASE Restore(w)
    <3>1. run[w].pc # "idle" /\ Ingesting(w)
      BY <2>5, RunKnows DEF Restore
    <3> QED
      BY <1>b, <2>4, <2>5, <3>1 DEF Restore
  <2>6. CASE SaveDocument(w)
    <3>1. run[w].job \in DOMAIN jobs /\ jobs' = JobStatus(run[w].job, "completed")
      BY <2>6, RunKnows DEF SaveDocument
    <3> QED
      BY <1>a, <3>1, StatusMovesFit
  <2>7. CASE FailIngest(w)
    <3>1. run[w].pc # "idle" /\ Ingesting(w) /\ EndTask(run[w].job, "failed")
      BY <2>7, RunKnows DEF FailIngest, Ingesting
    <3> QED
      BY <2>4, <3>1
  <2>8. CASE Invalidate(w)
    <3>1. run[w].job \in DOMAIN jobs /\ EndTask(run[w].job, jobs[run[w].job].status)
      BY <2>8, RunKnows DEF Invalidate
    <3>2. PICK s \in Open \cup {"completed", "failed"} : s = jobs[run[w].job].status
      BY <1>c, <3>1 DEF IngestJobRow
    <3> QED
      BY <1>a, <3>1, <3>2, TaskMovesFit DEF EndTask
  <2>9. CASE FillPoints(w)
    <3>1. run[w].job \in DOMAIN jobs /\ jobs[run[w].job].op = "rebuild"
      BY <2>9, RunKnows DEF FillPoints, Ingesting
    <3>2. PICK s \in {"completed", "failed"} : jobs' = JobStatus(run[w].job, s)
      BY <2>9 DEF FillPoints
    <3> QED
      BY <1>a, <3>1, <3>2, StatusMovesFit
  <2>10. CASE Parse(w) \/ IndexChunks(w) \/ SaveChunks(w) \/ DropPoints(w)
    BY <1>b, <2>10 DEF Parse, IndexChunks, SaveChunks, DropPoints
  <2> QED
    BY <1>2, <2>1, <2>2, <2>3, <2>5, <2>6, <2>7, <2>8, <2>9, <2>10 DEF WorkerStep
<1>3. CASE DeleteRow \/ PurgeExpired \/ ApiStep \/ Recall \/ SearchStep \/ CacheExpires
  BY <1>b, <1>3 DEF DeleteRow, PurgeExpired, ApiStep, DeleteRest, ReviewIndex,
    ReviewRemove, Recall, SearchStep, ReadRows, LexicalFallback, PutCached, CacheExpires
<1>4. ASSUME NEW j \in DOMAIN jobs, RetryJob(j) PROVE Goal
  <2>1. CreateJob(jobs[j].op, jobs[j].v, "queued") /\ jobs[j].status = "failed"
    BY <1>4 DEF RetryJob
  <2>2. PICK op \in {"ingest", "reindex", "rebuild"}, v \in 0 .. MaxVersions : op = jobs[j].op /\ v = jobs[j].v
    BY <1>c DEF IngestJobRow
  <2>3. IF op = "rebuild" THEN v = 0 ELSE v \in DOMAIN ver'
    BY <1>a, <1>c, <2>1, <2>2 DEF IngestJobFits
  <2> QED
    BY <1>a, <2>1, <2>2, <2>3, JobAppearsFits
<1>5. ASSUME NEW d \in {"approved", "rejected"}, ReviewRow(d) PROVE Goal
  BY <1>b, <1>5 DEF ReviewRow
<1>6. CASE QueueReindex
  <2>1. doc.cur \in DOMAIN ver /\ CreateJob("reindex", doc.cur, "queued")
    BY <1>6, <1>c DEF QueueReindex
  <2>2. PICK v \in 0 .. MaxVersions : v = doc.cur
    BY <2>1, VersionRange, BoundAssumption DEF Version
  <2> QED
    BY <1>a, <2>1, <2>2, JobAppearsFits
<1>7. CASE QueueRebuild
  BY <1>a, <1>7, JobAppearsFits, BoundAssumption DEF QueueRebuild
<1>8. CASE RestartRuntime
  <2>1. /\ jobs' \in Seq(IngestJobRow) /\ Len(jobs') = Len(jobs) /\ DOMAIN jobs' = DOMAIN jobs
        /\ \A i \in DOMAIN jobs : /\ jobs'[i].op = jobs[i].op /\ jobs'[i].v = jobs[i].v
                                  /\ jobs'[i].status = jobs[i].status
    BY <1>8, <1>c, JobsRecover DEF RestartRuntime
  <2>2. Len(jobs) <= MaxJobs
    BY DEF DocsFit, JobsFit
  <2> QED
    BY <1>a, <1>c, <2>1, <2>2 DEF JobsFit, JobsKept, IngestJobFits
<1> QED
  BY <1>1, <1>2, <1>3, <1>4, <1>5, <1>6, <1>7, <1>8 DEF DocsNext

LEMMA OneRunMoves ==
  ASSUME DocsFit, JobsKept, DOMAIN ver \subseteq DOMAIN ver', NEW w \in Worker, NEW r \in IngestRun,
         run' = [run EXCEPT ![w] = r], IngestRunFits(w)'
  PROVE  WorkersFit'
<1>1. run \in [Worker -> IngestRun] /\ \A u \in Worker : IngestRunFits(u)
  BY DEF DocsFit, WorkersFit
<1>2. run' \in [Worker -> IngestRun] /\ \A u \in Worker \ {w} : run'[u] = run[u]
  BY <1>1
<1>3. ASSUME NEW u \in Worker \ {w} PROVE IngestRunFits(u)'
  BY <1>1, <1>2 DEF IngestRunFits, JobsKept
<1> QED
  BY <1>2, <1>3 DEF WorkersFit

LEMMA StepMoves ==
  ASSUME DocsFit, NEW w \in Worker, Goto(w, "index") \/ Goto(w, "save") \/ Goto(w, "finish") \/ Goto(w, "invalidate")
  PROVE  \E r \in IngestRun : /\ run' = [run EXCEPT ![w] = r] /\ run'[w] = r
                              /\ r.job = run[w].job /\ r.v = run[w].v
                              /\ r.pc \in {"index", "save", "finish", "invalidate"}
<1>1. run \in [Worker -> IngestRun] /\ run[w] \in IngestRun
  BY DEF DocsFit, WorkersFit
<1>2. PICK step \in {"index", "save", "finish", "invalidate"} : Goto(w, step)
  OBVIOUS
<1> DEFINE r == [run[w] EXCEPT !.pc = step]
<1>3. r \in IngestRun /\ r.job = run[w].job /\ r.v = run[w].v /\ r.pc = step
  BY <1>1 DEF IngestRun
<1>4. run' = [run EXCEPT ![w] = r]
  BY <1>1, <1>2 DEF Goto, IngestRun
<1> HIDE DEF r
<1>5. run'[w] = r
  BY <1>1, <1>4
<1> QED
  BY <1>3, <1>4, <1>5

LEMMA WorkersNext == DocsFit /\ DocsNext => WorkersFit'
<1> SUFFICES ASSUME DocsFit, DocsNext PROVE WorkersFit'
  OBVIOUS
<1>a. DOMAIN ver \subseteq DOMAIN ver' /\ JobsKept /\ JobsFit' /\ VersionsFit'
  BY VersionsNext, JobsNext
<1>c. run \in [Worker -> IngestRun] /\ \A w \in Worker : IngestRunFits(w)
  BY DEF DocsFit, WorkersFit
<1>d. /\ jobs \in Seq(IngestJobRow) /\ Len(jobs) <= MaxJobs /\ \A j \in DOMAIN jobs : IngestJobFits(j)
      /\ \A j \in DOMAIN jobs : jobs[j] \in IngestJobRow /\ j \in 0 .. MaxJobs
  BY BoundAssumption DEF DocsFit, JobsFit
<1>b. CASE run' = run
  BY <1>a, <1>b, <1>c DEF WorkersFit, IngestRunFits, JobsKept
<1>e. ASSUME NEW w \in Worker, run' = [run EXCEPT ![w] = Idle] PROVE WorkersFit'
  <2>1. Idle \in IngestRun
    BY BoundAssumption DEF Idle, IngestRun
  <2>2. run'[w].pc = "idle"
    BY <1>c, <1>e DEF Idle
  <2> QED
    BY <1>a, <1>e, <2>1, <2>2, OneRunMoves DEF IngestRunFits
<1>1. ASSUME NEW w \in Worker, WorkerStep(w) PROVE WorkersFit'
  <2>1. ASSUME NEW j \in DOMAIN jobs, SkipCompleted(w, j) PROVE WorkersFit'
    BY <1>b, <2>1 DEF SkipCompleted
  <2>2. ASSUME NEW j \in DOMAIN jobs, BeginIngest(w, j) PROVE WorkersFit'
    <3> DEFINE r == [pc |-> "parse", job |-> j, v |-> jobs[j].v]
    <3>1. r \in IngestRun /\ r.pc = "parse" /\ r.job = j /\ r.v = jobs[j].v
      BY <1>d DEF IngestRun, IngestJobRow
    <3>2. run' = [run EXCEPT ![w] = r] /\ jobs[j].op # "rebuild" /\ jobs[j].v \in DOMAIN ver
      BY <1>d, <2>2 DEF BeginIngest, IngestJobFits
    <3> HIDE DEF r
    <3>3. run'[w] = r
      BY <1>c, <3>2
    <3>4. IngestRunFits(w)'
      BY <1>a, <3>1, <3>2, <3>3 DEF IngestRunFits, JobsKept
    <3> QED
      BY <1>a, <3>1, <3>2, <3>4, OneRunMoves
  <2>3. ASSUME NEW j \in DOMAIN jobs, BeginRebuild(w, j) PROVE WorkersFit'
    <3> DEFINE r == [pc |-> "drop", job |-> j, v |-> 0]
    <3>1. r \in IngestRun /\ r.pc = "drop" /\ r.job = j /\ r.v = 0
      BY <1>d, BoundAssumption DEF IngestRun
    <3>2. run' = [run EXCEPT ![w] = r] /\ jobs[j].op = "rebuild"
      BY <2>3 DEF BeginRebuild
    <3> HIDE DEF r
    <3>3. run'[w] = r
      BY <1>c, <3>2
    <3>4. IngestRunFits(w)'
      BY <1>a, <3>1, <3>2, <3>3 DEF IngestRunFits, JobsKept
    <3> QED
      BY <1>a, <3>1, <3>2, <3>4, OneRunMoves
  <2>4. CASE Restore(w)
    BY <1>b, <1>e, <2>4 DEF Restore
  <2>5. CASE Parse(w) \/ IndexChunks(w) \/ SaveChunks(w) \/ SaveDocument(w)
    <3>1. Goto(w, "index") \/ Goto(w, "save") \/ Goto(w, "finish") \/ Goto(w, "invalidate")
      BY <2>5 DEF Parse, IndexChunks, SaveChunks, SaveDocument
    <3>2. run[w].pc # "idle" /\ Ingesting(w) /\ run[w].v = jobs[run[w].job].v /\ run[w].v \in DOMAIN ver
          /\ run[w].job \in DOMAIN jobs
      BY <2>5, RunKnows DEF Parse, IndexChunks, SaveChunks, SaveDocument
    <3>3. PICK r \in IngestRun : /\ run' = [run EXCEPT ![w] = r] /\ run'[w] = r
                                 /\ r.job = run[w].job /\ r.v = run[w].v
                                 /\ r.pc \in {"index", "save", "finish", "invalidate"}
      BY <3>1, StepMoves
    <3>4. IngestRunFits(w)'
      BY ONLY <1>a, <3>2, <3>3 DEF IngestRunFits, JobsKept, Ingesting
    <3> QED
      BY <1>a, <3>3, <3>4, OneRunMoves
  <2>6. CASE FillPoints(w)
    <3>1. Goto(w, "invalidate") /\ run[w].pc = "fill"
      BY <2>6 DEF FillPoints
    <3>2. run[w].job \in DOMAIN jobs /\ jobs[run[w].job].op = "rebuild" /\ run[w].v \in {0} \cup DOMAIN ver
      BY <3>1, RunKnows DEF Ingesting
    <3>3. \E r \in IngestRun : /\ run' = [run EXCEPT ![w] = r] /\ run'[w] = r
                                 /\ r.job = run[w].job /\ r.v = run[w].v
                                 /\ r.pc = "invalidate"
      <4> DEFINE r == [run[w] EXCEPT !.pc = "invalidate"]
      <4>1. r \in IngestRun /\ r.job = run[w].job /\ r.v = run[w].v /\ r.pc = "invalidate"
        BY <1>c DEF IngestRun
      <4>2. run' = [run EXCEPT ![w] = r]
        BY <1>c, <3>1 DEF Goto, IngestRun
      <4> HIDE DEF r
      <4>3. run'[w] = r
        BY <1>c, <4>2
      <4> QED
        BY <4>1, <4>2, <4>3
    <3>4. PICK r \in IngestRun : /\ run' = [run EXCEPT ![w] = r] /\ run'[w] = r
                                 /\ r.job = run[w].job /\ r.v = run[w].v
                                 /\ r.pc = "invalidate"
      BY <3>3
    <3>5. IngestRunFits(w)'
      BY ONLY <1>a, <3>2, <3>4 DEF IngestRunFits, JobsKept
    <3> QED
      BY <1>a, <3>4, <3>5, OneRunMoves
  <2>7. CASE FailIngest(w) \/ Invalidate(w)
    BY <1>e, <2>7 DEF FailIngest, Invalidate
  <2>8. CASE DropPoints(w)
    <3>1. run[w].pc = "drop" /\ run' = [run EXCEPT ![w].pc = "fill", ![w].v = IF doc.deleted THEN 0 ELSE doc.cur]
      BY <2>8 DEF DropPoints
    <3>2. run[w].job \in DOMAIN jobs /\ jobs[run[w].job].op = "rebuild"
      BY <3>1, RunKnows DEF Ingesting
    <3>3. PICK c \in {0} \cup DOMAIN ver : c = IF doc.deleted THEN 0 ELSE doc.cur
      BY DEF DocsFit, DocFits
    <3>c. c \in 0 .. MaxVersions
      BY <3>3, VersionRange, BoundAssumption DEF Version
    <3> DEFINE r == [run[w] EXCEPT !.pc = "fill", !.v = c]
    <3>4. r \in IngestRun /\ r.job = run[w].job /\ r.v = c /\ r.pc = "fill"
      BY <1>c, <3>c DEF IngestRun
    <3>5. run' = [run EXCEPT ![w] = r]
      BY <1>c, <3>1, <3>3 DEF IngestRun
    <3> HIDE DEF r
    <3>6. run'[w] = r
      BY <1>c, <3>5
    <3>7. IngestRunFits(w)'
      BY ONLY <1>a, <3>2, <3>3, <3>4, <3>6 DEF IngestRunFits, JobsKept
    <3> QED
      BY <1>a, <3>4, <3>5, <3>7, OneRunMoves
  <2> QED
    BY <1>1, <2>1, <2>2, <2>3, <2>4, <2>5, <2>6, <2>7, <2>8 DEF WorkerStep
<1>2. ASSUME NEW c \in Content, Register(c) PROVE WorkersFit'
  BY <1>b, <1>2 DEF Register
<1>3. CASE \/ QueueReindex \/ QueueRebuild \/ DeleteRow \/ PurgeExpired \/ ApiStep \/ Recall \/ SearchStep
           \/ CacheExpires
  BY <1>b, <1>3 DEF QueueReindex, QueueRebuild, DeleteRow, PurgeExpired, ApiStep, DeleteRest, ReviewIndex,
    ReviewRemove, Recall, SearchStep, ReadRows, LexicalFallback, PutCached, CacheExpires
<1>4. ASSUME NEW j \in DOMAIN jobs, RetryJob(j) PROVE WorkersFit'
  BY <1>b, <1>4 DEF RetryJob
<1>5. ASSUME NEW d \in {"approved", "rejected"}, ReviewRow(d) PROVE WorkersFit'
  BY <1>b, <1>5 DEF ReviewRow
<1>6. CASE RestartRuntime
  <2>1. run' = [w \in Worker |-> Idle] /\ Idle \in IngestRun /\ Idle.pc = "idle"
    BY <1>6, BoundAssumption DEF RestartRuntime, Idle, IngestRun
  <2> QED
    BY <2>1 DEF WorkersFit, IngestRunFits
<1> QED
  BY <1>1, <1>2, <1>3, <1>4, <1>5, <1>6 DEF DocsNext

LEMMA DocNext == DocsFit /\ DocsNext => DocFits'
<1> SUFFICES ASSUME DocsFit, DocsNext PROVE DocFits'
  OBVIOUS
<1>a. DOMAIN ver \subseteq DOMAIN ver' /\ doc \in DocRow /\ doc.cur \in {0} \cup DOMAIN ver
  BY VersionsNext DEF DocsFit, DocFits
<1>b. CASE doc' = doc
  BY <1>a, <1>b DEF DocFits
<1>c. ASSUME NEW s \in {"queued", "processing", "failed", "deleted", "partial"},
             NEW a \in {"approved", "pending", "rejected"}, NEW d \in BOOLEAN,
             doc' = [doc EXCEPT !.status = s, !.approval = a, !.deleted = d]
      PROVE  DocFits'
  <2>1. doc' \in DocRow /\ doc'.cur = doc.cur
    BY <1>a, <1>c DEF DocRow, Ready
  <2> QED
    BY <1>a, <2>1 DEF DocFits
<1>d. doc.approval \in {"approved", "pending", "rejected"} /\ doc.deleted \in BOOLEAN
  BY <1>a DEF DocRow
<1>e. ASSUME NEW s \in {"processing", "failed", "partial"}, doc' = [doc EXCEPT !.status = s] PROVE DocFits'
  <2>1. doc' \in DocRow /\ doc'.cur = doc.cur
    BY <1>a, <1>e DEF DocRow, Ready
  <2> QED
    BY <1>a, <2>1 DEF DocFits
<1>1. ASSUME NEW c \in Content, Register(c) PROVE DocFits'
  <2>1. CASE Unchanged(c)
    BY <1>b, <1>1, <2>1 DEF Register
  <2>2. CASE ~Unchanged(c)
    <3>1. PICK a \in {"approved", "pending"} : doc' = [doc EXCEPT !.status = "queued", !.approval = a]
      BY <1>1, <2>2 DEF Register, Uploaded
    <3>2. doc' \in DocRow /\ doc'.cur = doc.cur
      BY <1>a, <3>1 DEF DocRow
    <3> QED
      BY <1>a, <3>2 DEF DocFits
  <2> QED
    BY <2>1, <2>2
<1>2. ASSUME NEW w \in Worker, WorkerStep(w) PROVE DocFits'
  <2>1. ASSUME NEW j \in DOMAIN jobs, BeginIngest(w, j) PROVE DocFits'
    BY <1>e, <2>1 DEF BeginIngest
  <2>2. CASE FailIngest(w)
    <3>1. PICK s \in {"processing", "failed", "partial"} : doc' = [doc EXCEPT !.status = s]
      BY <2>2 DEF FailIngest
    <3> QED
      BY <1>e, <3>1
  <2>3. CASE SaveDocument(w)
    <3>1. run[w].v \in DOMAIN ver /\ ver[run[w].v] \in VerRow /\ DOMAIN ver \subseteq Version
      BY <2>3, RunKnows, VersionRange DEF SaveDocument
    <3>2. doc' = [doc EXCEPT !.status = "indexed", !.cur = run[w].v, !.hash = ver[run[w].v].hash]
      BY <2>3 DEF SaveDocument
    <3>3. run[w].v \in 0 .. MaxVersions /\ ver[run[w].v].hash \in 0 .. MaxVersions
      BY <3>1, BoundAssumption DEF VerRow, Version
    <3>4. doc' \in DocRow /\ doc'.cur = run[w].v
      BY <1>a, <3>2, <3>3 DEF DocRow, Ready
    <3> QED
      BY <1>a, <3>1, <3>4 DEF DocFits
  <2>4. ASSUME NEW j \in DOMAIN jobs, SkipCompleted(w, j) \/ BeginRebuild(w, j) PROVE DocFits'
    BY <1>b, <2>4 DEF SkipCompleted, BeginRebuild, stored
  <2>5. CASE Restore(w) \/ Parse(w) \/ IndexChunks(w) \/ SaveChunks(w) \/ Invalidate(w) \/ DropPoints(w) \/ FillPoints(w)
    BY <1>b, <2>5 DEF Restore, Parse, IndexChunks, SaveChunks, Invalidate, DropPoints, FillPoints, stored
  <2> QED
    BY <1>2, <2>1, <2>2, <2>3, <2>4, <2>5 DEF WorkerStep
<1>3. CASE DeleteRow \/ PurgeExpired
  <2>1. doc' = [doc EXCEPT !.status = "deleted", !.deleted = TRUE]
    BY <1>3 DEF DeleteRow, PurgeExpired, SoftDeleted
  <2>2. doc' \in DocRow /\ doc'.cur = doc.cur
    BY <1>a, <2>1 DEF DocRow
  <2> QED
    BY <1>a, <2>2 DEF DocFits
<1>4. ASSUME NEW d \in {"approved", "rejected"}, ReviewRow(d) PROVE DocFits'
  <2>1. doc' = [doc EXCEPT !.approval = d]
    BY <1>4 DEF ReviewRow
  <2>2. doc' \in DocRow /\ doc'.cur = doc.cur
    BY <1>a, <2>1 DEF DocRow
  <2> QED
    BY <1>a, <2>2 DEF DocFits
<1>5. CASE \/ QueueReindex \/ QueueRebuild \/ ApiStep \/ Recall \/ SearchStep \/ CacheExpires \/ RestartRuntime
  BY <1>b, <1>5 DEF QueueReindex, QueueRebuild, ApiStep, DeleteRest, ReviewIndex, ReviewRemove, Recall,
    SearchStep, ReadRows, LexicalFallback, PutCached, CacheExpires, RestartRuntime, stored
<1>6. ASSUME NEW j \in DOMAIN jobs, RetryJob(j) PROVE DocFits'
  BY <1>b, <1>6 DEF RetryJob, stored
<1> QED
  BY <1>1, <1>2, <1>3, <1>4, <1>5, <1>6 DEF DocsNext

PointTable == [Version -> {"absent", "active", "inactive"}]

LEMMA PointsWritten ==
  ASSUME points \in PointTable
  PROVE  /\ DeletedPoints \in PointTable
         /\ \A v : Deactivated(v) \in PointTable
BY DEF PointTable, DeletedPoints, Deactivated

LEMMA FilesNext == DocsFit /\ DocsNext => FilesFit'
<1> SUFFICES ASSUME DocsFit, DocsNext PROVE FilesFit'
  OBVIOUS
<1>a. /\ DOMAIN ver \subseteq DOMAIN ver' /\ files \subseteq DOMAIN ver /\ rows \subseteq DOMAIN ver
      /\ active \in {0} \cup rows /\ points \in PointTable
  BY VersionsNext DEF DocsFit, FilesFit, PointTable
<1>b. ASSUME files' \subseteq DOMAIN ver', rows' \subseteq DOMAIN ver', active' \in {0} \cup rows',
             points' \in PointTable
      PROVE  FilesFit'
  BY <1>b DEF FilesFit, PointTable
<1>c. CASE UNCHANGED <<files, rows, active, points>>
  BY <1>a, <1>b, <1>c
<1>d. ASSUME UNCHANGED <<files, rows, active>>, points' \in PointTable PROVE FilesFit'
  BY <1>a, <1>b, <1>d
<1>1. ASSUME NEW c \in Content, Register(c) PROVE FilesFit'
  <2>1. CASE Unchanged(c)
    BY <1>c, <1>1, <2>1 DEF Register
  <2>2. CASE ~Unchanged(c)
    <3>1. Len(ver) < MaxVersions /\ NewVersion(c) /\ files' = files \cup {Len(ver) + 1}
      BY <1>1, <2>2 DEF Register
    <3>2. Len(ver) + 1 \in DOMAIN ver'
      BY <3>1, VersionAppears DEF DocsFit, Content
    <3>3. UNCHANGED <<rows, active, points>>
      BY <1>1 DEF Register
    <3> QED
      BY <1>a, <1>b, <3>1, <3>2, <3>3
  <2> QED
    BY <2>1, <2>2
<1>2. ASSUME NEW w \in Worker, WorkerStep(w) PROVE FilesFit'
  <2>1. CASE Restore(w)
    <3>1. run[w].v \in DOMAIN ver
      BY <2>1, RunKnows DEF Restore
    <3>2. (files' = files \cup {run[w].v} \/ files' = files) /\ UNCHANGED <<rows, active, points>>
      BY <2>1 DEF Restore
    <3> QED
      BY <1>a, <1>b, <3>1, <3>2
  <2>2. CASE SaveChunks(w)
    <3>1. run[w].v \in DOMAIN ver
      BY <2>2, RunKnows DEF SaveChunks
    <3>2. rows' = rows \cup {run[w].v} /\ active' = run[w].v /\ UNCHANGED <<files, points>>
      BY <2>2 DEF SaveChunks, ReplaceChunks
    <3> QED
      BY <1>a, <1>b, <3>1, <3>2
  <2>3. CASE IndexChunks(w) \/ FailIngest(w) \/ DropPoints(w)
    <3>1. UNCHANGED <<files, rows, active>>
      BY <2>3 DEF IndexChunks, FailIngest, DropPoints, stored
    <3>2. points' = points \/ points' = Deactivated(run[w].v) \/ points' = DeletedPoints
      BY <2>3 DEF IndexChunks, FailIngest, DropPoints
    <3> QED
      BY <1>a, <1>d, <3>1, <3>2, PointsWritten
  <2>4. CASE FillPoints(w)
    <3>1. UNCHANGED <<files, rows, active>>
      BY <2>4 DEF FillPoints, stored
    <3>2. \/ points' = points
          \/ points' = [v \in Version |-> IF run[w].v # 0 /\ v \in Rebuilt
                                          THEN IF v = run[w].v THEN "active" ELSE "inactive" ELSE points[v]]
      BY <2>4 DEF FillPoints
    <3>3. points' \in PointTable
      BY <1>a, <3>2 DEF PointTable
    <3> QED
      BY <1>d, <3>1, <3>3
  <2>5. ASSUME NEW j \in DOMAIN jobs, SkipCompleted(w, j) \/ BeginIngest(w, j) \/ BeginRebuild(w, j) PROVE FilesFit'
    BY <1>c, <2>5 DEF SkipCompleted, BeginIngest, BeginRebuild, stored
  <2>6. CASE Parse(w) \/ SaveDocument(w) \/ Invalidate(w)
    BY <1>c, <2>6 DEF Parse, SaveDocument, Invalidate, stored
  <2> QED
    BY <1>2, <2>1, <2>2, <2>3, <2>4, <2>5, <2>6 DEF WorkerStep
<1>3. CASE DeleteRest
  <2>1. files' = {} /\ UNCHANGED <<rows, active>> /\ (points' = DeletedPoints \/ points' = points)
    BY <1>3 DEF DeleteRest
  <2> QED
    BY <1>a, <1>b, <2>1, PointsWritten
<1>4. CASE ReviewIndex \/ ReviewRemove
  <2>1. UNCHANGED <<files, rows, active>>
    BY <1>4 DEF ReviewIndex, ReviewRemove, stored
  <2>2. points' = points \/ points' = Deactivated(api.v) \/ points' = DeletedPoints
    BY <1>4 DEF ReviewIndex, ReviewRemove
  <2> QED
    BY <1>a, <1>d, <2>1, <2>2, PointsWritten
<1>5. CASE \/ QueueReindex \/ QueueRebuild \/ DeleteRow \/ PurgeExpired \/ Recall \/ SearchStep \/ CacheExpires
           \/ RestartRuntime
  BY <1>c, <1>5 DEF QueueReindex, QueueRebuild, DeleteRow, PurgeExpired, Recall,
    SearchStep, ReadRows, LexicalFallback, PutCached, CacheExpires, RestartRuntime, stored
<1>6. ASSUME NEW j \in DOMAIN jobs, RetryJob(j) PROVE FilesFit'
  BY <1>c, <1>6 DEF RetryJob, stored
<1>7. ASSUME NEW d \in {"approved", "rejected"}, ReviewRow(d) PROVE FilesFit'
  BY <1>c, <1>7 DEF ReviewRow
<1> QED
  BY <1>1, <1>2, <1>3, <1>4, <1>5, <1>6, <1>7 DEF DocsNext, ApiStep

LEMMA DeletedStays == DocsFit /\ DocsNext /\ doc.deleted => doc'.deleted
<1> SUFFICES ASSUME DocsFit, DocsNext, doc.deleted PROVE doc'.deleted
  OBVIOUS
<1>a. doc \in DocRow
  BY DEF DocsFit, DocFits
<1>b. CASE doc' = doc
  BY <1>b
<1>1. ASSUME NEW c \in Content, Register(c) PROVE doc'.deleted
  BY <1>1 DEF Register
<1>2. ASSUME NEW w \in Worker, WorkerStep(w) PROVE doc'.deleted
  <2>1. ASSUME NEW j \in DOMAIN jobs, BeginIngest(w, j) PROVE doc'.deleted
    BY <1>a, <2>1 DEF BeginIngest, DocRow
  <2>2. CASE FailIngest(w)
    BY <1>a, <2>2 DEF FailIngest, DocRow
  <2>3. CASE SaveDocument(w)
    BY <1>a, <2>3 DEF SaveDocument, DocRow
  <2>4. ASSUME NEW j \in DOMAIN jobs, SkipCompleted(w, j) \/ BeginRebuild(w, j) PROVE doc'.deleted
    BY <1>b, <2>4 DEF SkipCompleted, BeginRebuild, stored
  <2>5. CASE Restore(w) \/ Parse(w) \/ IndexChunks(w) \/ SaveChunks(w) \/ Invalidate(w) \/ DropPoints(w) \/ FillPoints(w)
    BY <1>b, <2>5 DEF Restore, Parse, IndexChunks, SaveChunks, Invalidate, DropPoints, FillPoints, stored
  <2> QED
    BY <1>2, <2>1, <2>2, <2>3, <2>4, <2>5 DEF WorkerStep
<1>3. CASE DeleteRow \/ PurgeExpired
  BY <1>3 DEF DeleteRow, PurgeExpired
<1>4. ASSUME NEW d \in {"approved", "rejected"}, ReviewRow(d) PROVE doc'.deleted
  BY <1>4 DEF ReviewRow
<1>5. CASE \/ QueueReindex \/ QueueRebuild \/ ApiStep \/ Recall \/ SearchStep \/ CacheExpires \/ RestartRuntime
  BY <1>b, <1>5 DEF QueueReindex, QueueRebuild, ApiStep, DeleteRest, ReviewIndex, ReviewRemove, Recall,
    SearchStep, ReadRows, LexicalFallback, PutCached, CacheExpires, RestartRuntime, stored
<1>6. ASSUME NEW j \in DOMAIN jobs, RetryJob(j) PROVE doc'.deleted
  BY <1>b, <1>6 DEF RetryJob, stored
<1> QED
  BY <1>1, <1>2, <1>3, <1>4, <1>5, <1>6 DEF DocsNext

LEMMA RequestNext == DocsFit /\ DocsNext => RequestFits'
<1> SUFFICES ASSUME DocsFit, DocsNext PROVE RequestFits'
  OBVIOUS
<1>a. /\ DOMAIN ver \subseteq DOMAIN ver' /\ RequestFits /\ doc \in DocRow
      /\ active \in {0} \cup DOMAIN ver /\ (doc.deleted => doc'.deleted)
  BY VersionsNext, DeletedStays DEF DocsFit, DocFits, FilesFit
<1>b. CASE api' = api
  BY <1>a, <1>b DEF RequestFits
<1>c. CASE api' = [pc |-> "idle", v |-> 0]
  BY <1>c, BoundAssumption DEF RequestFits, ApiRow
<1>1. CASE DeleteRow \/ PurgeExpired
  <2>1. api' = [pc |-> "delete", v |-> 0] /\ doc' = [doc EXCEPT !.status = "deleted", !.deleted = TRUE]
    BY <1>1 DEF DeleteRow, PurgeExpired, SoftDeleted
  <2>2. doc'.deleted
    BY <1>a, <2>1 DEF DocRow
  <2> QED
    BY <2>1, <2>2, BoundAssumption DEF RequestFits, ApiRow
<1>2. ASSUME NEW d \in {"approved", "rejected"}, ReviewRow(d) PROVE RequestFits'
  <2>1. active \in 0 .. MaxVersions
    BY <1>a, VersionRange, BoundAssumption DEF Version
  <2>2. api' = [pc |-> IF d = "approved" /\ active # 0 THEN "approve" ELSE "reject", v |-> active]
    BY <1>2 DEF ReviewRow
  <2>3. api' \in ApiRow /\ api'.v = active /\ api'.pc # "delete" /\ (api'.pc = "approve" => active # 0)
    BY <2>1, <2>2 DEF ApiRow
  <2> QED
    BY <1>a, <2>3 DEF RequestFits
<1>3. CASE ApiStep \/ RestartRuntime
  BY <1>c, <1>3 DEF ApiStep, DeleteRest, ReviewIndex, ReviewRemove, RestartRuntime
<1>4. ASSUME NEW w \in Worker, WorkerStep(w) PROVE RequestFits'
  BY <1>b, <1>4 DEF WorkerStep, SkipCompleted, BeginIngest, BeginRebuild, Restore, Parse, IndexChunks,
    SaveChunks, SaveDocument, FailIngest, Invalidate, DropPoints, FillPoints
<1>5. ASSUME NEW c \in Content, Register(c) PROVE RequestFits'
  BY <1>b, <1>5 DEF Register
<1>6. ASSUME NEW j \in DOMAIN jobs, RetryJob(j) PROVE RequestFits'
  BY <1>b, <1>6 DEF RetryJob
<1>7. CASE QueueReindex \/ QueueRebuild \/ Recall \/ SearchStep \/ CacheExpires
  BY <1>b, <1>7 DEF QueueReindex, QueueRebuild, Recall, SearchStep, ReadRows, LexicalFallback, PutCached,
    CacheExpires
<1> QED
  BY <1>1, <1>2, <1>3, <1>4, <1>5, <1>6, <1>7 DEF DocsNext

LEMMA SearchNext == DocsFit /\ DocsNext => SearchFits'
<1> SUFFICES ASSUME DocsFit, DocsNext PROVE SearchFits'
  OBVIOUS
<1>a. /\ search \in [pc : {"idle", "recalled", "built"}, hits : SUBSET Version]
      /\ cache \in [full : BOOLEAN, hits : SUBSET Version]
      /\ rows \subseteq Version
  BY VersionRange DEF DocsFit, SearchFits, FilesFit
<1>c. Empty \in [full : BOOLEAN, hits : SUBSET Version]
      /\ NoSearch \in [pc : {"idle", "recalled", "built"}, hits : SUBSET Version]
  BY DEF Empty, NoSearch
<1>b. CASE (search' = search \/ search' = NoSearch) /\ (cache' = cache \/ cache' = Empty)
  BY <1>a, <1>b, <1>c DEF SearchFits
<1>d. ASSUME NEW h \in SUBSET Version, cache' = cache,
             search' = [pc |-> "recalled", hits |-> h] \/ search' = [pc |-> "built", hits |-> h]
      PROVE  SearchFits'
  BY <1>a, <1>d DEF SearchFits
<1>1. CASE Recall
  <2>1. Recalled \in SUBSET Version
    BY DEF Recalled
  <2> QED
    BY <1>1, <1>d, <2>1 DEF Recall
<1>2. CASE ReadRows
  <2>1. search.hits \cap VisibleRows \in SUBSET Version
    BY <1>a
  <2> QED
    BY <1>2, <1>d, <2>1 DEF ReadRows
<1>3. CASE LexicalFallback
  <2>1. LexicalRows \in SUBSET Version
    BY <1>a DEF LexicalRows, VisibleRows
  <2> QED
    BY <1>3, <1>d, <2>1 DEF LexicalFallback
<1>4. CASE PutCached
  <2>1. search.hits \in SUBSET Version /\ cache' = [full |-> TRUE, hits |-> search.hits]
    BY <1>a, <1>4 DEF PutCached
  <2>2. cache' \in [full : BOOLEAN, hits : SUBSET Version]
    BY <2>1
  <2> QED
    BY <1>c, <1>4, <2>2 DEF SearchFits, PutCached
<1>5. CASE DeleteRow \/ PurgeExpired \/ ApiStep \/ RestartRuntime \/ QueueReindex \/ QueueRebuild \/ CacheExpires
  BY <1>b, <1>5 DEF DeleteRow, PurgeExpired, ApiStep, DeleteRest, ReviewIndex, ReviewRemove, RestartRuntime,
    QueueReindex, QueueRebuild, CacheExpires
<1>6. ASSUME NEW w \in Worker, WorkerStep(w) PROVE SearchFits'
  BY <1>b, <1>6 DEF WorkerStep, SkipCompleted, BeginIngest, BeginRebuild, Restore, Parse, IndexChunks,
    SaveChunks, SaveDocument, FailIngest, Invalidate, DropPoints, FillPoints
<1>7. ASSUME NEW c \in Content, Register(c) PROVE SearchFits'
  BY <1>b, <1>7 DEF Register
<1>8. ASSUME NEW j \in DOMAIN jobs, RetryJob(j) PROVE SearchFits'
  BY <1>b, <1>8 DEF RetryJob
<1>9. ASSUME NEW d \in {"approved", "rejected"}, ReviewRow(d) PROVE SearchFits'
  BY <1>b, <1>9 DEF ReviewRow
<1> QED
  BY <1>1, <1>2, <1>3, <1>4, <1>5, <1>6, <1>7, <1>8, <1>9 DEF DocsNext, SearchStep

LEMMA CountsNext == DocsFit /\ DocsNext => Counts'
<1> SUFFICES ASSUME DocsFit, DocsNext PROVE Counts'
  OBVIOUS
<1>a. reviews \in 0 .. MaxReviews /\ faults \in 0 .. MaxFaults /\ stale \in BOOLEAN
  BY DEF DocsFit, Counts
<1>f. Fault \/ NoFault => faults' \in 0 .. MaxFaults
  BY <1>a, BoundAssumption DEF Fault, NoFault
<1>1. faults' \in 0 .. MaxFaults
  <2>1. ASSUME NEW w \in Worker, WorkerStep(w) PROVE faults' \in 0 .. MaxFaults
    BY <1>a, <1>f, <2>1 DEF WorkerStep, SkipCompleted, BeginIngest, BeginRebuild, Restore, Parse, IndexChunks,
      SaveChunks, SaveDocument, FailIngest, Invalidate, DropPoints, FillPoints
  <2>2. ASSUME NEW c \in Content, Register(c) PROVE faults' \in 0 .. MaxFaults
    BY <1>a, <2>2 DEF Register
  <2>3. ASSUME NEW j \in DOMAIN jobs, RetryJob(j) PROVE faults' \in 0 .. MaxFaults
    BY <1>a, <2>3 DEF RetryJob
  <2>4. ASSUME NEW d \in {"approved", "rejected"}, ReviewRow(d) PROVE faults' \in 0 .. MaxFaults
    BY <1>a, <2>4 DEF ReviewRow
  <2>5. CASE \/ DeleteRow \/ PurgeExpired \/ ApiStep \/ RestartRuntime \/ QueueReindex \/ QueueRebuild
             \/ CacheExpires \/ Recall \/ SearchStep
    BY <1>a, <1>f, <2>5 DEF DeleteRow, PurgeExpired, ApiStep, DeleteRest, ReviewIndex, ReviewRemove,
      RestartRuntime, QueueReindex, QueueRebuild, CacheExpires, Recall, SearchStep, ReadRows, LexicalFallback,
      PutCached
  <2> QED
    BY <2>1, <2>2, <2>3, <2>4, <2>5 DEF DocsNext
<1>2. reviews' \in 0 .. MaxReviews
  <2>1. ASSUME NEW w \in Worker, WorkerStep(w) PROVE reviews' = reviews
    BY <2>1 DEF WorkerStep, SkipCompleted, BeginIngest, BeginRebuild, Restore, Parse, IndexChunks,
      SaveChunks, SaveDocument, FailIngest, Invalidate, DropPoints, FillPoints
  <2>2. ASSUME NEW c \in Content, Register(c) PROVE reviews' = reviews
    BY <2>2 DEF Register
  <2>3. ASSUME NEW j \in DOMAIN jobs, RetryJob(j) PROVE reviews' = reviews
    BY <2>3 DEF RetryJob
  <2>4. ASSUME NEW d \in {"approved", "rejected"}, ReviewRow(d) PROVE reviews' \in 0 .. MaxReviews
    BY <1>a, <2>4, BoundAssumption DEF ReviewRow
  <2>5. ASSUME \/ DeleteRow \/ PurgeExpired \/ ApiStep \/ RestartRuntime \/ QueueReindex \/ QueueRebuild
             \/ CacheExpires \/ Recall \/ SearchStep
        PROVE  reviews' = reviews
    BY <2>5 DEF DeleteRow, PurgeExpired, ApiStep, DeleteRest, ReviewIndex, ReviewRemove,
      RestartRuntime, QueueReindex, QueueRebuild, CacheExpires, Recall, SearchStep, ReadRows, LexicalFallback,
      PutCached
  <2> QED
    BY <1>a, <2>1, <2>2, <2>3, <2>4, <2>5 DEF DocsNext
<1>3. stale' \in BOOLEAN
  <2>1. ASSUME NEW w \in Worker, WorkerStep(w) PROVE stale' \in BOOLEAN
    <3>1. CASE IndexChunks(w)
      BY <3>1 DEF IndexChunks
    <3>2. CASE FailIngest(w)
      BY <1>a, <3>2 DEF FailIngest
    <3>3. CASE DropPoints(w)
      BY <1>a, <3>3 DEF DropPoints
    <3>4. CASE FillPoints(w)
      BY <1>a, <3>4 DEF FillPoints
    <3>5. CASE \/ \E j \in DOMAIN jobs : SkipCompleted(w, j) \/ BeginIngest(w, j) \/ BeginRebuild(w, j)
               \/ Restore(w) \/ Parse(w) \/ SaveChunks(w) \/ SaveDocument(w) \/ Invalidate(w)
      BY <1>a, <3>5 DEF SkipCompleted, BeginIngest, BeginRebuild, Restore, Parse, SaveChunks, SaveDocument,
        Invalidate
    <3> QED
      BY <2>1, <3>1, <3>2, <3>3, <3>4, <3>5 DEF WorkerStep
  <2>2. ASSUME NEW c \in Content, Register(c) PROVE stale' \in BOOLEAN
    BY <1>a, <2>2 DEF Register
  <2>3. ASSUME NEW j \in DOMAIN jobs, RetryJob(j) PROVE stale' \in BOOLEAN
    BY <1>a, <2>3 DEF RetryJob
  <2>4. ASSUME NEW d \in {"approved", "rejected"}, ReviewRow(d) PROVE stale' \in BOOLEAN
    BY <1>a, <2>4 DEF ReviewRow
  <2>5. CASE ReviewIndex
    BY <1>a, <2>5 DEF ReviewIndex
  <2>6. CASE ReviewRemove
    BY <1>a, <2>6 DEF ReviewRemove
  <2>7. CASE RestartRuntime
    BY <1>a, <2>7 DEF RestartRuntime
  <2>8. CASE \/ DeleteRow \/ PurgeExpired \/ DeleteRest \/ QueueReindex \/ QueueRebuild
             \/ CacheExpires \/ Recall \/ SearchStep
    BY <1>a, <2>8 DEF DeleteRow, PurgeExpired, DeleteRest, QueueReindex, QueueRebuild, CacheExpires, Recall,
      SearchStep, ReadRows, LexicalFallback, PutCached
  <2> QED
    BY <2>1, <2>2, <2>3, <2>4, <2>5, <2>6, <2>7, <2>8 DEF DocsNext, ApiStep
<1> QED
  BY <1>1, <1>2, <1>3 DEF Counts

LEMMA FitNext == DocsFit /\ [DocsNext]_docsVars => DocsFit'
<1>1. DocsFit /\ DocsNext => DocsFit'
  BY VersionsNext, DocNext, FilesNext, JobsNext, WorkersNext, RequestNext, SearchNext, CountsNext DEF DocsFit
<1>2. DocsFit /\ UNCHANGED docsVars => DocsFit'
  BY DEF docsVars, stored, DocsFit, VersionsFit, DocFits, FilesFit, JobsFit, IngestJobFits, WorkersFit,
    IngestRunFits, RequestFits, SearchFits, Counts
<1> QED
  BY <1>1, <1>2

-----------------------------------------------------------------------------
(* The index follows the rows. *)

LEMMA QuietStep ==
  ASSUME DocsFit, Clean, active' = active, doc'.cur = doc.cur,
         \A w \in Worker : (Busy(w)' <=> Busy(w)) /\ (Busy(w) => run'[w] = run[w]),
         ~doc'.deleted => ~doc.deleted /\ points' = points /\ (Refilled' => Refilled)
  PROVE  Clean'
<1>1. OneWriter' /\ (NoWriter' <=> NoWriter)
  BY DEF Clean, OneWriter, NoWriter
<1>2. NoWriter' => active' = doc'.cur
  BY <1>1 DEF Clean
<1>3. ASSUME NEW w \in Worker, run'[w].pc = "finish" PROVE active' = run'[w].v
  <2>1. Busy(w)'
    BY <1>3 DEF Busy
  <2>2. run'[w] = run[w]
    BY <2>1
  <2> QED
    BY <1>3, <2>2 DEF Clean
<1>4. ASSUME ~doc'.deleted
      PROVE  /\ \A w \in Worker : Busy(w)' => IndexIs(run[w].v)' /\ run'[w] = run[w]
             /\ NoWriter' => Recalled' \subseteq {active'}
             /\ NoWriter' /\ Refilled' => IndexIs(active)'
  <2>1. Recalled' = Recalled /\ ~doc.deleted /\ (Refilled' => Refilled)
    BY <1>4 DEF Recalled
  <2> QED
    BY <1>1, <2>1 DEF Clean, IndexIs
<1> QED
  BY <1>1, <1>2, <1>3, <1>4 DEF Clean, IndexIs

LEMMA IndexWritten ==
  ASSUME DocsFit, NEW v \in Version, points' = Deactivated(v)
  PROVE  Recalled' = {v}
<1>1. \A u \in Version : points'[u] = "active" <=> u = v
  BY DEF Deactivated
<1> QED
  BY <1>1 DEF Recalled

LEMMA IndexEmptied == points' = DeletedPoints => Recalled' = {}
BY DEF DeletedPoints, Recalled

LEMMA ActiveHasRows ==
  ASSUME DocsFit
  PROVE  active # 0 => active \in rows /\ active \in DOMAIN ver /\ active \in Version
BY VersionRange DEF DocsFit, FilesFit

LEMMA ReviewsClean ==
  ASSUME DocsFit, ~stale => Clean, ReviewIndex \/ ReviewRemove, ~stale'
  PROVE  Clean'
<1>a. /\ UNCHANGED <<doc, ver, active, run>> /\ api'.pc = "idle"
      /\ \A w \in Worker : Busy(w)' <=> Busy(w)
  <2>1. UNCHANGED stored /\ run' = run /\ api' = [pc |-> "idle", v |-> 0]
    BY DEF ReviewIndex, ReviewRemove
  <2>2. UNCHANGED <<doc, ver, active, run>> /\ api'.pc = "idle"
    BY <2>1 DEF stored
  <2> QED
    BY <2>2 DEF Busy
<1>1. CASE ReviewIndex
  <2>1. points' = Deactivated(api.v) /\ api.v = active /\ NoWriter
    BY <1>1 DEF ReviewIndex, NoWriter, Busy
  <2>2. active = doc.cur
    BY <1>1, <2>1 DEF ReviewIndex, Clean
  <2>3. api.v \in Version
    BY <1>1, <2>1, ActiveHasRows DEF ReviewIndex, DocsFit, RequestFits
  <2>4. Recalled' = {active}
    BY <2>1, <2>3, IndexWritten
  <2>5. OneWriter' /\ NoWriter' /\ \A w \in Worker : run'[w].pc # "finish" /\ ~Busy(w)'
    BY <1>a, <2>1 DEF OneWriter, NoWriter, Busy
  <2> QED
    BY <1>a, <2>2, <2>4, <2>5 DEF Clean, IndexIs
<1>2. CASE ReviewRemove
  <2>1. ~stale /\ doc.approval = "rejected" /\ NoWriter /\ (points' = DeletedPoints \/ points' = points)
    BY <1>2 DEF ReviewRemove, NoWriter, DocsFit, Counts
  <2>2. Recalled' = {} \/ Recalled' = Recalled
    BY <2>1, IndexEmptied DEF Recalled
  <2>3. OneWriter' /\ NoWriter' /\ \A w \in Worker : run'[w].pc # "finish" /\ ~Busy(w)'
    BY <1>a, <2>1 DEF OneWriter, NoWriter, Busy
  <2>4. ~Refilled'
    BY <1>a, <2>1 DEF Refilled
  <2>5. active' = doc'.cur /\ (~doc'.deleted => Recalled' \subseteq {active'})
    BY <1>a, <2>1, <2>2 DEF Clean
  <2> QED
    BY <2>3, <2>4, <2>5 DEF Clean
<1> QED
  BY <1>1, <1>2

LEMMA GotoOne ==
  ASSUME DocsFit, NEW w \in Worker, NEW step, Goto(w, step)
  PROVE  run'[w].pc = step /\ run'[w].v = run[w].v /\ \A u \in Worker \ {w} : run'[u] = run[u]
BY DEF DocsFit, WorkersFit, IngestRun, Goto

LEMMA IndexClean ==
  ASSUME DocsFit, NEW w \in Worker, IndexChunks(w), ~stale'
  PROVE  Clean'
<1>1. run[w].pc = "index" /\ points' = Deactivated(run[w].v) /\ Goto(w, "save") /\ NoWriter
  BY DEF IndexChunks, NoWriter
<1>2. run'[w].pc = "save" /\ run'[w].v = run[w].v /\ \A u \in Worker \ {w} : run'[u] = run[u]
  BY <1>1, GotoOne
<1>3. run[w].v \in Version
  BY <1>1, RunKnows, VersionRange
<1>4. Recalled' = {run[w].v}
  BY <1>1, <1>3, IndexWritten
<1>5. Busy(w)' /\ \A u \in Worker \ {w} : ~Busy(u)'
  BY <1>1, <1>2 DEF NoWriter, Busy
<1>6. \A u \in Worker : run'[u].pc # "finish"
  BY <1>2, <1>5 DEF Busy
<1>7. OneWriter' /\ ~NoWriter'
  BY <1>5 DEF OneWriter, NoWriter
<1>8. \A u \in Worker : Busy(u)' => u = w
  BY <1>5
<1> QED
  BY <1>2, <1>4, <1>6, <1>7, <1>8 DEF Clean, IndexIs

LEMMA SaveClean ==
  ASSUME DocsFit, Clean, NEW w \in Worker, SaveChunks(w)
  PROVE  Clean'
<1>1. /\ run[w].pc = "save" /\ active' = run[w].v /\ Goto(w, "finish") /\ UNCHANGED <<doc, points>>
  BY DEF SaveChunks, ReplaceChunks
<1>2. run'[w].pc = "finish" /\ run'[w].v = run[w].v /\ \A u \in Worker \ {w} : run'[u] = run[u]
  BY <1>1, GotoOne
<1>3. Busy(w) /\ Busy(w)' /\ \A u \in Worker : Busy(u)' <=> Busy(u)
  BY <1>1, <1>2 DEF Busy
<1>4. OneWriter' /\ ~NoWriter' /\ \A u \in Worker : Busy(u)' => u = w
  BY <1>3 DEF Clean, OneWriter, NoWriter
<1>5. \A u \in Worker : run'[u].pc = "finish" => u = w
  BY <1>4 DEF Busy
<1>6. Recalled' = Recalled /\ (~doc'.deleted => Recalled = {run[w].v})
  BY <1>1, <1>3 DEF Recalled, Clean, IndexIs
<1> QED
  BY <1>1, <1>2, <1>4, <1>5, <1>6 DEF Clean, IndexIs

LEMMA DocumentClean ==
  ASSUME DocsFit, Clean, NEW w \in Worker, SaveDocument(w)
  PROVE  Clean'
<1>1. /\ run[w].pc = "finish" /\ Goto(w, "invalidate") /\ UNCHANGED <<active, points>>
      /\ doc'.cur = run[w].v /\ doc'.deleted = doc.deleted
  BY DEF SaveDocument, DocsFit, DocFits, DocRow
<1>2. run'[w].pc = "invalidate" /\ \A u \in Worker \ {w} : run'[u] = run[u]
  BY <1>1, GotoOne
<1>3. Busy(w) /\ ~Busy(w)'
  BY <1>1, <1>2 DEF Busy
<1>4. \A u \in Worker : ~Busy(u)'
  BY <1>2, <1>3 DEF Busy, Clean, OneWriter
<1>5. active' = doc'.cur
  BY <1>1 DEF Clean
<1>6. OneWriter' /\ \A u \in Worker : run'[u].pc # "finish"
  BY <1>4 DEF OneWriter, Busy
<1>7. Recalled' = Recalled /\ (~doc'.deleted => Recalled = {active'})
  BY <1>1, <1>3 DEF Recalled, Clean, IndexIs
<1> QED
  BY <1>4, <1>5, <1>6, <1>7 DEF Clean, IndexIs

LEMMA DropClean ==
  ASSUME DocsFit, Clean, NEW w \in Worker, DropPoints(w), ~stale'
  PROVE  Clean'
<1>1. /\ run[w].pc = "drop" /\ points' = DeletedPoints /\ doc.cur = active /\ UNCHANGED <<doc, active>>
      /\ \A u \in Worker \ {w} : run[u].pc = "idle"
  BY DEF DropPoints, stored
<1>2. run'[w].pc = "fill" /\ \A u \in Worker \ {w} : run'[u] = run[u]
  BY DEF DropPoints, DocsFit, WorkersFit, IngestRun
<1>3. OneWriter' /\ \A u \in Worker : ~Busy(u)' /\ run'[u].pc # "finish"
  BY <1>1, <1>2 DEF Busy, OneWriter
<1>4. ~Refilled'
  BY <1>2 DEF Refilled
<1>5. Recalled' = {}
  BY <1>1, IndexEmptied
<1> QED
  BY <1>1, <1>3, <1>4, <1>5 DEF Clean

LEMMA FillClean ==
  ASSUME DocsFit, Clean, NEW w \in Worker, FillPoints(w), ~stale'
  PROVE  Clean'
<1>1. /\ run[w].pc = "fill" /\ Goto(w, "invalidate") /\ run[w].v = active /\ UNCHANGED <<doc, ver, active>>
      /\ points' = [v \in Version |-> IF run[w].v # 0 /\ v \in Rebuilt
                                      THEN IF v = run[w].v THEN "active" ELSE "inactive" ELSE points[v]]
      /\ \A u \in Worker \ {w} : run[u].pc = "idle"
  BY DEF FillPoints, stored
<1>2. run'[w].pc = "invalidate" /\ \A u \in Worker \ {w} : run'[u] = run[u]
  BY <1>1, GotoOne
<1>3. OneWriter' /\ \A u \in Worker : ~Busy(u) /\ ~Busy(u)' /\ run'[u].pc # "finish"
  BY <1>1, <1>2 DEF Busy, OneWriter
<1>4. active = doc.cur /\ (~doc.deleted => Recalled \subseteq {active})
  BY <1>3 DEF Clean, NoWriter
<1>5. ASSUME NEW v \in Version, points'[v] = "active", ~doc.deleted PROVE v = active
  BY <1>1, <1>4, <1>5 DEF Recalled
<1>6. ASSUME active # 0, ver[active].status \in Ready PROVE active \in Version /\ points'[active] = "active"
  BY <1>1, <1>6, ActiveHasRows DEF Rebuilt
<1>7. ~doc.deleted => Recalled' \subseteq {active} /\ (Refilled' => Recalled' = {active})
  BY <1>1, <1>5, <1>6 DEF Recalled, Refilled
<1> QED
  BY <1>1, <1>3, <1>4, <1>7 DEF Clean, IndexIs

LEMMA RequestsClean ==
  ASSUME DocsFit, ~stale => Clean, ~stale', VersionsFit',
         \/ \E c \in Content : Register(c)
         \/ \E j \in DOMAIN jobs : RetryJob(j)
         \/ \E d \in {"approved", "rejected"} : ReviewRow(d)
         \/ QueueReindex \/ QueueRebuild \/ DeleteRow \/ PurgeExpired \/ DeleteRest \/ Recall \/ SearchStep
         \/ CacheExpires \/ RestartRuntime
  PROVE  Clean'
<1>a. doc \in DocRow
  BY DEF DocsFit, DocFits
<1>b. \A w \in Worker : run'[w] = run[w] => (Busy(w)' <=> Busy(w))
  BY DEF Busy
<1>1. ASSUME NEW c \in Content, Register(c) PROVE Clean'
  <2>1. /\ UNCHANGED <<active, points, run, api>>
        /\ \A w \in Worker : (Busy(w)' <=> Busy(w)) /\ run'[w] = run[w]
    BY <1>1 DEF Register, Busy
  <2>2. ~stale /\ doc'.cur = doc.cur /\ doc'.deleted = doc.deleted /\ (doc' = doc \/ doc.approval # "rejected")
    BY <1>1, <1>a DEF Register, Uploaded, DocRow, DocsFit, Counts
  <2>3. \A v \in DOMAIN ver : ver'[v] = ver[v]
    <3>1. ver' = ver \/ (NewVersion(c) /\ Len(ver) < MaxVersions)
      BY <1>1 DEF Register
    <3> QED
      BY <3>1, VersionAppears DEF DocsFit, Content
  <2>4. Refilled' => Refilled
    BY <2>1, <2>2, <2>3, ActiveHasRows DEF Refilled
  <2> QED
    BY <2>1, <2>2, <2>4, QuietStep
<1>2. ASSUME NEW d \in {"approved", "rejected"}, ReviewRow(d) PROVE Clean'
  <2>1. /\ UNCHANGED <<ver, active, points, run, stale>> /\ doc' = [doc EXCEPT !.approval = d]
        /\ api' = [pc |-> IF d = "approved" /\ active # 0 THEN "approve" ELSE "reject", v |-> active]
    BY <1>2 DEF ReviewRow
  <2>2. doc'.cur = doc.cur /\ doc'.deleted = doc.deleted /\ doc'.approval = d
    BY <1>a, <2>1 DEF DocRow
  <2>3. ~Refilled'
    BY <2>1, <2>2 DEF Refilled
  <2> QED
    BY <2>1, <2>2, <2>3, <1>b, QuietStep
<1>3. CASE DeleteRow \/ PurgeExpired \/ DeleteRest
  <2>1. /\ UNCHANGED <<active, run, stale>> /\ doc'.cur = doc.cur
        /\ doc'.deleted
    BY <1>3, <1>a DEF DeleteRow, PurgeExpired, DeleteRest, SoftDeleted, DocRow, DocsFit, RequestFits
  <2> QED
    BY <2>1, <1>b, QuietStep
<1>4. CASE \/ \E j \in DOMAIN jobs : RetryJob(j)
           \/ QueueReindex \/ QueueRebuild \/ Recall \/ SearchStep \/ CacheExpires
  <2>1. UNCHANGED <<stored, points, run, api, stale>>
    BY <1>4 DEF RetryJob, QueueReindex, QueueRebuild, Recall, SearchStep, ReadRows, LexicalFallback, PutCached,
      CacheExpires
  <2>2. UNCHANGED <<doc, ver, active>>
    BY <2>1 DEF stored
  <2>3. Refilled' => Refilled
    BY <2>1, <2>2 DEF Refilled
  <2> QED
    BY <2>1, <2>2, <2>3, <1>b, QuietStep
<1>5. CASE RestartRuntime
  <2>1. UNCHANGED stored /\ points' = points /\ api'.pc = "idle" /\ run' = [w \in Worker |-> Idle]
    BY <1>5 DEF RestartRuntime
  <2>2. ~stale /\ api.pc = "idle" /\ \A w \in Worker : run[w].pc \notin {"save", "finish", "fill"}
    BY <1>5 DEF RestartRuntime, DocsFit, Counts
  <2>3. UNCHANGED <<doc, ver, active>>
    BY <2>1 DEF stored
  <2>4. \A w \in Worker : ~Busy(w) /\ ~Busy(w)'
    BY <2>1, <2>2 DEF Busy, Idle
  <2>5. Refilled' => Refilled
    BY <2>1, <2>2, <2>3 DEF Refilled
  <2> QED
    BY <2>1, <2>2, <2>3, <2>4, <2>5, QuietStep
<1> QED
  BY <1>1, <1>2, <1>3, <1>4, <1>5

LEMMA WorkersClean ==
  ASSUME DocsFit, DocsNext, ~stale => Clean, ~stale', NEW w \in Worker, WorkerStep(w)
  PROVE  Clean'
<1>a. doc \in DocRow /\ run \in [Worker -> IngestRun]
  BY DEF DocsFit, DocFits, WorkersFit
<1>b. ASSUME ~stale, UNCHANGED <<active, points, api>>, doc'.cur = doc.cur, doc'.deleted = doc.deleted,
             doc'.approval = doc.approval, run[w].pc \notin {"save", "finish", "fill"},
             run'[w].pc \notin {"save", "finish", "fill"},
             \A u \in Worker \ {w} : run'[u] = run[u],
             active # 0 /\ ver'[active].status \in Ready => ver[active].status \in Ready
      PROVE  Clean'
  <2>1. \A u \in Worker : (Busy(u)' <=> Busy(u)) /\ (Busy(u) => run'[u] = run[u])
    BY <1>b DEF Busy
  <2>2. Refilled' => Refilled
    BY <1>b DEF Refilled
  <2> QED
    BY <1>b, <2>1, <2>2, QuietStep
<1>c. ASSUME NEW r, run' = [run EXCEPT ![w] = r] PROVE run'[w] = r /\ \A u \in Worker \ {w} : run'[u] = run[u]
  BY <1>a, <1>c
<1>d. Idle.pc = "idle"
  BY DEF Idle
<1>1. ASSUME NEW j \in DOMAIN jobs, SkipCompleted(w, j) PROVE Clean'
  <2>1. UNCHANGED <<stored, points, run, api, stale>> /\ run[w].pc = "idle"
    BY <1>1 DEF SkipCompleted
  <2>2. UNCHANGED <<doc, ver, active>>
    BY <2>1 DEF stored
  <2> QED
    BY <1>b, <2>1, <2>2
<1>2. ASSUME NEW j \in DOMAIN jobs, BeginIngest(w, j) PROVE Clean'
  <2>1. UNCHANGED <<ver, active, points, api, stale>> /\ run[w].pc = "idle" /\ doc' = [doc EXCEPT !.status = "processing"]
        /\ run' = [run EXCEPT ![w] = [pc |-> "parse", job |-> j, v |-> jobs[j].v]]
    BY <1>2 DEF BeginIngest
  <2>2. doc'.cur = doc.cur /\ doc'.deleted = doc.deleted /\ doc'.approval = doc.approval
    BY <1>a, <2>1 DEF DocRow
  <2>3. run'[w].pc = "parse" /\ \A u \in Worker \ {w} : run'[u] = run[u]
    BY <1>c, <2>1
  <2> QED
    BY <1>b, <2>1, <2>2, <2>3
<1>3. ASSUME NEW j \in DOMAIN jobs, BeginRebuild(w, j) PROVE Clean'
  <2>1. UNCHANGED <<stored, points, api, stale>> /\ run[w].pc = "idle"
        /\ run' = [run EXCEPT ![w] = [pc |-> "drop", job |-> j, v |-> 0]]
    BY <1>3 DEF BeginRebuild
  <2>2. UNCHANGED <<doc, ver, active>>
    BY <2>1 DEF stored
  <2>3. run'[w].pc = "drop" /\ \A u \in Worker \ {w} : run'[u] = run[u]
    BY <1>c, <2>1
  <2> QED
    BY <1>b, <2>1, <2>2, <2>3
<1>4. CASE Restore(w) \/ Invalidate(w)
  <2>1. UNCHANGED <<doc, ver, active, points, api, stale>> /\ run[w].pc \in {"parse", "invalidate"}
        /\ (run' = run \/ run' = [run EXCEPT ![w] = Idle])
    BY <1>4 DEF Restore, Invalidate, stored
  <2>2. run'[w].pc \in {"parse", "invalidate", "idle"} /\ \A u \in Worker \ {w} : run'[u] = run[u]
    BY <1>c, <1>d, <2>1
  <2> QED
    BY <1>b, <2>1, <2>2
<1>5. ASSUME NEW s \in {"processing", "failed"}, run[w].v \in DOMAIN ver, UpdateVersion(run[w].v, s)
      PROVE  active # 0 /\ ver'[active].status \in Ready => ver[active].status \in Ready
  <2>1. VersionsFit /\ s \notin Ready /\ s \in {"queued", "processing", "failed"} \cup Ready
    BY DEF DocsFit, Ready
  <2>2. \A u \in DOMAIN ver : (u # run[w].v => ver'[u] = ver[u]) /\ (u = run[w].v => ver'[u].status = s)
    BY <1>5, <2>1, VersionMoves
  <2> QED
    BY <2>1, <2>2, ActiveHasRows
<1>6. CASE Parse(w)
  <2>1. UNCHANGED <<doc, active, points, api, stale>> /\ run[w].pc = "parse" /\ Goto(w, "index")
        /\ UpdateVersion(run[w].v, "processing")
    BY <1>6 DEF Parse
  <2>2. run[w].v \in DOMAIN ver
    BY <2>1, RunKnows
  <2>3. run'[w].pc = "index" /\ \A u \in Worker \ {w} : run'[u] = run[u]
    BY <2>1, GotoOne
  <2> QED
    BY <1>b, <1>5, <2>1, <2>2, <2>3
<1>7. CASE FailIngest(w)
  <2>1. run[w].pc \in {"parse", "index"} /\ UNCHANGED <<points, stale>>
    BY <1>7 DEF FailIngest
  <2>2. UNCHANGED <<active, api>> /\ UpdateVersion(run[w].v, "failed") /\ run' = [run EXCEPT ![w] = Idle]
        /\ doc' = [doc EXCEPT !.status = IF active # 0 THEN "partial" ELSE "failed"]
    BY <1>7 DEF FailIngest
  <2>3. run[w].v \in DOMAIN ver
    BY <2>1, RunKnows
  <2>4. doc'.cur = doc.cur /\ doc'.deleted = doc.deleted /\ doc'.approval = doc.approval
    BY <1>a, <2>2 DEF DocRow
  <2>5. run'[w].pc = "idle" /\ \A u \in Worker \ {w} : run'[u] = run[u]
    BY <1>c, <1>d, <2>2
  <2> QED
    BY <1>b, <1>5, <2>1, <2>2, <2>3, <2>4, <2>5
<1>8. CASE IndexChunks(w)
  BY <1>8, IndexClean
<1>9. CASE SaveChunks(w)
  BY <1>9, SaveClean DEF SaveChunks
<1>10. CASE SaveDocument(w)
  BY <1>10, DocumentClean DEF SaveDocument
<1>11. CASE DropPoints(w)
  <2>1. ~stale
    BY <1>11 DEF DropPoints, DocsFit, Counts
  <2> QED
    BY <1>11, <2>1, DropClean
<1>12. CASE FillPoints(w)
  <2>1. ~stale
    BY <1>12 DEF FillPoints, DocsFit, Counts
  <2> QED
    BY <1>12, <2>1, FillClean
<1> QED
  BY <1>1, <1>2, <1>3, <1>4, <1>6, <1>7, <1>8, <1>9, <1>10, <1>11, <1>12 DEF WorkerStep

LEMMA DocsIInvNext == DocsIInv /\ [DocsNext]_docsVars => DocsIInv'
<1> SUFFICES ASSUME DocsIInv, [DocsNext]_docsVars PROVE DocsIInv'
  OBVIOUS
<1>1. DocsFit /\ DocsFit' /\ (~stale => Clean)
  BY FitNext DEF DocsIInv
<1>2. CASE UNCHANGED docsVars
  <2>1. UNCHANGED <<doc, ver, active, points, run, api, stale>>
    BY <1>2 DEF docsVars, stored
  <2>2. Clean' <=> Clean
    BY <2>1 DEF Clean, OneWriter, NoWriter, Refilled, IndexIs, Recalled, Busy
  <2> QED
    BY <1>1, <2>1, <2>2 DEF DocsIInv
<1>3. CASE DocsNext
  <2>1. ASSUME ~stale' PROVE Clean'
    <3>1. ASSUME NEW w \in Worker, WorkerStep(w) PROVE Clean'
      BY <1>1, <1>3, <2>1, <3>1, WorkersClean
    <3>2. CASE ReviewIndex \/ ReviewRemove
      BY <1>1, <2>1, <3>2, ReviewsClean
    <3>3. VersionsFit'
      BY <1>1 DEF DocsFit
    <3> QED
      BY <1>1, <1>3, <2>1, <3>1, <3>2, <3>3, RequestsClean DEF DocsNext, ApiStep
  <2> QED
    BY <1>1, <2>1 DEF DocsIInv
<1> QED
  BY <1>2, <1>3

\* register_bytes, process_job, process_rebuild_job and review_document together,
\* for any number of workers, versions, jobs, reviews and faults: when nothing is
\* under way and no index write was lost or made from an old read, an approved
\* document serves its current version, and the index recalls it and nothing else.
THEOREM SearchableTheorem == DocsSpec => []Searchable
<1>1. DocsInit => DocsIInv
  BY DocsInitFits
<1>2. DocsIInv /\ [DocsNext]_docsVars => DocsIInv'
  BY DocsIInvNext
<1>3. DocsIInv => Searchable
  <2> SUFFICES ASSUME DocsIInv PROVE Searchable
    OBVIOUS
  <2>1. DocsTypeOK
    BY FitIsType DEF DocsIInv
  <2>2. ASSUME Quiet, ~stale, active # 0, ver[active].status \in Ready, doc.approval = "approved", ~doc.deleted
        PROVE  active = doc.cur /\ Recalled = {active}
    <3>1. Clean
      BY <2>2 DEF DocsIInv
    <3>2. NoWriter /\ Refilled
      BY <2>2 DEF Quiet, NoWriter, Busy, Refilled
    <3> QED
      BY <2>2, <3>1, <3>2 DEF Clean, IndexIs
  <2> QED
    BY <2>1, <2>2 DEF Searchable
<1> QED
  BY <1>1, <1>2, <1>3, PTL DEF DocsSpec
=============================================================================
