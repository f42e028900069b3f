---------------------------- MODULE A2AProvider ----------------------------
(***************************************************************************)
(* The A2A provider (app/a2a/provider.py, app/a2a/store.py): one task of a *)
(* remote caller, the row of a2a_tasks that represents it, and the server  *)
(* processes that run it by driving an internal analysis.                  *)
(*                                                                         *)
(* Every store call is one SQLite transaction and one action.  A coroutine *)
(* gives up its event loop only where it really suspends (the semaphore,   *)
(* asyncio.to_thread, asyncio.sleep); between two such points no other     *)
(* coroutine of the same process moves (LoopFree), but other processes do. *)
(* The analysis is reduced to its status and to whether its entry and its  *)
(* worker thread live in some process; MaxPolls stands for the deadline.   *)
(***************************************************************************)
EXTENDS Integers, FiniteSets

CONSTANTS
  Proc,          \* server processes sharing the database
  NoProc,        \* where an analysis is hosted that no living process holds
  MaxAttempts,   \* CI_AGENT_A2A_MAX_ATTEMPTS
  LeaseTicks,    \* CI_AGENT_A2A_LEASE_SECONDS (120), never renewed
  MaxPolls,      \* polls before CI_AGENT_A2A_TASK_TIMEOUT_SECONDS (3600)
  MaxAnalyses,   \* bound on internal analyses
  MaxCancels,    \* bound on cancellations under way at once
  MaxStops,      \* bound on process exits, orderly or not
  MaxErrors      \* bound on failing store calls

ASSUME ProcAssumption == NoProc \notin Proc /\ IsFiniteSet(Proc)
ASSUME NumberAssumption ==
  /\ MaxAttempts \in Nat \ {0} /\ LeaseTicks \in Nat \ {0} /\ MaxPolls \in Nat
  /\ MaxAnalyses \in Nat \ {0} /\ MaxCancels \in Nat /\ MaxStops \in Nat /\ MaxErrors \in Nat

VARIABLES
  state, arts, internal, lease, attempts,   \* the row of a2a_tasks
  pc,        \* pc[p]: where p's job for the task (_running) is
  copy,      \* copy[p]: the job's in-memory Task: state and artifacts
  mine,      \* mine[p]: the analysis the job drives (local variable internal)
  polls,     \* polls[p]: how often the job has polled
  call, res, \* call[p]: what p's to_thread call is doing, res[p]: its result
  acc, acopy,  \* acc[p]: where p's _accept is, acopy[p]: the Task it read
  cxl,         \* cxl[p]: where p's on_cancel_task is
  ccopy, cfor, \* its Task and the analysis it stops
  up,        \* the living processes
  ana, host, worker, \* the analyses: status, process of the entry, live threads
  continued, \* history: a continuation was accepted
  stops, errors

row == <<state, arts, internal, lease, attempts>>
job == <<pc, copy, mine, polls>>
thread == <<call, res>>
accepting == <<acc, acopy>>
cancelling == <<cxl, ccopy, cfor>>
analyses == <<ana, host, worker>>
counters == <<stops, errors>>
vars == <<row, job, thread, accepting, cancelling, up, analyses, continued, counters>>

\* Mutant: COMPLETED forgotten among the terminal states.
TerminalForgets == {"FAILED", "CANCELED"}
Terminal == {"COMPLETED", "FAILED", "CANCELED"}
States == Terminal \cup {"NONE", "SUBMITTED", "WORKING", "INPUT_REQUIRED"}
Analysis == 1 .. MaxAnalyses
NoAnalysis == 0
NoLease == -1
AnalysisStatus == {"none", "awaiting", "running", "completed", "failed", "interrupted"}
Results == AnalysisStatus \cup {"raised"}

\* Where a job is suspended; everywhere else it is in the middle of a segment.
Suspended == {"none", "scheduled", "claimed", "starting", "continuing", "polling", "sleeping"}
Waiting == {"starting", "continuing", "polling"}
Body == {"publishWorking", "readInternal", "recordRead", "recordSave", "asking",
         "polled", "progress", "deciding", "artifact", "completing", "published"}
Handler == {"raised", "errorRead", "requeueing", "requeued", "givingUp"}
PCs == Suspended \cup Body \cup Handler \cup {"ending"}

TypeOK ==
  /\ state \in States /\ arts \in Nat /\ attempts \in Nat
  /\ internal \in Analysis \cup {NoAnalysis}
  /\ lease \in {NoLease} \cup (0 .. LeaseTicks)
  /\ pc \in [Proc -> PCs]
  /\ copy \in [Proc -> [state : States, arts : Nat]]
  /\ mine \in [Proc -> Analysis \cup {NoAnalysis}]
  /\ polls \in [Proc -> Nat]
  /\ call \in [Proc -> {"none", "start", "continue", "poll", "done"}]
  /\ res \in [Proc -> Results]
  /\ acc \in [Proc -> {"none", "create", "append"}]
  /\ acopy \in [Proc -> [state : States, arts : Nat]]
  /\ cxl \in [Proc -> {"none", "stopping", "stopped", "publishing"}]
  /\ ccopy \in [Proc -> [state : States, arts : Nat]]
  /\ cfor \in [Proc -> Analysis \cup {NoAnalysis}]
  /\ up \subseteq Proc
  /\ ana \in [Analysis -> AnalysisStatus]
  /\ host \in [Analysis -> Proc \cup {NoProc}]
  /\ worker \subseteq Analysis
  /\ continued \in BOOLEAN
  /\ stops \in 0 .. MaxStops /\ errors \in 0 .. MaxErrors

NoTask == [state |-> "NONE", arts |-> 0]
Row == [state |-> state, arts |-> arts]

Init ==
  /\ state = "NONE" /\ arts = 0 /\ internal = NoAnalysis
  /\ lease = NoLease /\ attempts = 0
  /\ pc = [p \in Proc |-> "none"]
  /\ copy = [p \in Proc |-> NoTask] /\ ccopy = [p \in Proc |-> NoTask]
  /\ mine = [p \in Proc |-> NoAnalysis] /\ cfor = [p \in Proc |-> NoAnalysis]
  /\ polls = [p \in Proc |-> 0]
  /\ call = [p \in Proc |-> "none"] /\ res = [p \in Proc |-> "none"]
  /\ acc = [p \in Proc |-> "none"] /\ acopy = [p \in Proc |-> NoTask]
  /\ cxl = [p \in Proc |-> "none"]
  /\ up = Proc
  /\ ana = [i \in Analysis |-> "none"]
  /\ host = [i \in Analysis |-> NoProc]
  /\ worker = {}
  /\ continued = FALSE
  /\ stops = 0 /\ errors = 0

-----------------------------------------------------------------------------
(* The store. *)

Accepted(c) == state \notin Terminal \/ c.state \in Terminal

\* Mutant: the artifacts are not saved.
SaveStatus(c) == (IF Accepted(c) THEN state' = c.state ELSE UNCHANGED state) /\ UNCHANGED arts

\* save: the guarded UPDATE, which replaces status and artifacts by the copy's.
Save(c) ==
  IF Accepted(c) THEN state' = c.state /\ arts' = c.arts ELSE UNCHANGED <<state, arts>>

\* _publish_status on the job's copy; a terminal copy publishes nothing.
Publish(p, s) ==
  IF copy[p].state \in Terminal THEN UNCHANGED <<state, arts, copy>>
  ELSE LET c == [copy[p] EXCEPT !.state = s] IN
       copy' = [copy EXCEPT ![p] = c] /\ Save(c)

LoopFree(p) == p \in up /\ pc[p] \in Suspended /\ acc[p] = "none" /\ cxl[p] # "publishing"
Go(p, l) == pc' = [pc EXCEPT ![p] = l]
Schedule(p) == IF pc[p] = "none" THEN Go(p, "scheduled") ELSE UNCHANGED pc

Tick ==
  /\ lease > 0
  /\ lease' = lease - 1
  /\ UNCHANGED <<state, arts, internal, attempts, job, thread, accepting, cancelling, up, analyses, continued, counters>>

-----------------------------------------------------------------------------
(* Messages of the caller. *)

\* _accept reads the task: a new one is created, one that waits for input is
\* continued, any other refuses the message.
Accept(p) ==
  /\ LoopFree(p)
  /\ state \in {"NONE", "INPUT_REQUIRED"}
  /\ acc' = [acc EXCEPT ![p] = IF state = "NONE" THEN "create" ELSE "append"]
  /\ acopy' = [acopy EXCEPT ![p] = Row]
  /\ UNCHANGED <<row, job, thread, cancelling, up, analyses, continued, counters>>

\* Then it stores the message (INSERT OR IGNORE, or save) and schedules a job
\* unless one is there.
StoreMessage(p) ==
  /\ acc[p] # "none"
  /\ IF acc[p] = "create"
       THEN /\ state' = IF state = "NONE" THEN "SUBMITTED" ELSE state
            /\ UNCHANGED <<arts, continued>>
       ELSE Save(acopy[p]) /\ continued' = TRUE
  /\ Schedule(p)
  /\ acc' = [acc EXCEPT ![p] = "none"] /\ acopy' = [acopy EXCEPT ![p] = NoTask]
  /\ UNCHANGED <<internal, lease, attempts, copy, mine, polls, thread, cancelling, up, analyses, counters>>

\* on_cancel_task: read the task and its analysis, which is stopped in a thread.
CancelRead(p) ==
  /\ LoopFree(p) /\ cxl[p] = "none"
  /\ Cardinality({q \in Proc : cxl[q] # "none"}) < MaxCancels
  /\ state \notin Terminal \cup {"NONE"}
  /\ ccopy' = [ccopy EXCEPT ![p] = Row]
  /\ cfor' = [cfor EXCEPT ![p] = internal]
  /\ cxl' = [cxl EXCEPT ![p] = IF internal = NoAnalysis THEN "publishing" ELSE "stopping"]
  /\ UNCHANGED <<row, job, thread, accepting, up, analyses, continued, counters>>

\* cancel_analysis_for_a2a: the entry is interrupted whatever its status, if this
\* process has it.  The worker thread notices at its next node boundary.
CancelStop(p) ==
  /\ cxl[p] = "stopping"
  /\ cxl' = [cxl EXCEPT ![p] = "stopped"]
  /\ ana' = IF host[cfor[p]] = p THEN [ana EXCEPT ![cfor[p]] = "interrupted"] ELSE ana
  /\ UNCHANGED <<row, job, thread, accepting, ccopy, cfor, up, host, worker, continued, counters>>

\* Publish CANCELED on the copy read before the await, then cancel the job: one
\* that has not begun vanishes, one that has gets CancelledError and releases.
CancelPublish(p) ==
  /\ cxl[p] = "publishing" \/ (cxl[p] = "stopped" /\ LoopFree(p))
  /\ Save([ccopy[p] EXCEPT !.state = "CANCELED"])
  /\ cxl' = [cxl EXCEPT ![p] = "none"]
  /\ ccopy' = [ccopy EXCEPT ![p] = NoTask] /\ cfor' = [cfor EXCEPT ![p] = NoAnalysis]
  /\ pc' = [pc EXCEPT ![p] = IF @ \in {"none", "scheduled"} THEN "none" ELSE "ending"]
  /\ UNCHANGED <<internal, lease, attempts, copy, mine, polls, thread, accepting, up, analyses, continued, counters>>

-----------------------------------------------------------------------------
(* The job: _run_task. *)

Rest == <<accepting, cancelling, up, continued>>

\* claim_execution: no live lease, and a state that is to be executed.
Executable == state \in {"SUBMITTED", "WORKING"}
ClaimExecution(p) ==
  /\ LoopFree(p) /\ pc[p] = "scheduled"
  /\ IF lease \in {NoLease, 0} /\ Executable
       THEN lease' = LeaseTicks /\ attempts' = attempts + 1 /\ Go(p, "claimed")
       ELSE Go(p, "none") /\ UNCHANGED <<lease, attempts>>
  /\ UNCHANGED <<state, arts, internal, copy, mine, polls, thread, Rest, analyses, counters>>

\* Past the semaphore: get.
Begin(p) ==
  /\ LoopFree(p) /\ pc[p] = "claimed"
  /\ IF state \in Terminal
       THEN Go(p, "ending") /\ UNCHANGED copy
       ELSE Go(p, "publishWorking") /\ copy' = [copy EXCEPT ![p] = Row]
  /\ UNCHANGED <<row, mine, polls, thread, Rest, analyses, counters>>

PublishWorking(p) ==
  /\ pc[p] = "publishWorking"
  /\ Publish(p, "WORKING")
  /\ Go(p, "readInternal")
  /\ UNCHANGED <<internal, lease, attempts, mine, polls, thread, Rest, analyses, counters>>

\* Mutant: every run starts an analysis of its own.
AlwaysStart(p) ==
  /\ pc[p] = "readInternal"
  /\ mine' = [mine EXCEPT ![p] = NoAnalysis]
  /\ Go(p, "starting") /\ call' = [call EXCEPT ![p] = "start"]
  /\ UNCHANGED <<row, copy, polls, res, Rest, analyses, counters>>

\* internal_thread: continue the analysis the row knows, or start one.
ReadInternal(p) ==
  /\ pc[p] = "readInternal"
  /\ mine' = [mine EXCEPT ![p] = internal]
  /\ IF internal = NoAnalysis
       THEN Go(p, "starting") /\ call' = [call EXCEPT ![p] = "start"]
       ELSE Go(p, "continuing") /\ call' = [call EXCEPT ![p] = "continue"]
  /\ UNCHANGED <<row, copy, polls, res, Rest, analyses, counters>>

\* A thread finishes its call.  A cancelled job does not stop it, and its result
\* is then dropped.
Answer(p, r) ==
  /\ res' = [res EXCEPT ![p] = r]
  /\ call' = [call EXCEPT ![p] = IF pc[p] \in Waiting THEN "done" ELSE "none"]

\* start_analysis_for_a2a: a fresh entry, its worker too if the brief is ready.
\* It may raise (empty query, no brief); the id reaches the job through mine.
StartAnalysis(p) ==
  /\ call[p] = "start"
  /\ \/ Answer(p, "raised") /\ UNCHANGED <<mine, analyses>>
     \/ \E i \in Analysis, s \in {"awaiting", "running"} :
          /\ ana[i] = "none" /\ \A j \in Analysis : j < i => ana[j] # "none"
          /\ ana' = [ana EXCEPT ![i] = s]
          /\ host' = [host EXCEPT ![i] = p]
          /\ worker' = IF s = "running" THEN worker \cup {i} ELSE worker
          /\ mine' = [mine EXCEPT ![p] = i]
          /\ Answer(p, s)
  /\ UNCHANGED <<row, pc, copy, polls, Rest, counters>>

\* What p sees of analysis i: its own entry, or what the database has, which
\* may still be the status running.
Seen(p, i) == IF host[i] = p THEN {ana[i]} ELSE {ana[i], "running"}

\* continue_analysis_for_a2a: validate the brief, claim a waiting analysis.  The
\* worker of a process without the entry returns at once and leaves it running.
ContinueAnalysis(p) ==
  LET i == mine[p] IN
  /\ call[p] = "continue"
  /\ \/ Answer(p, "raised") /\ UNCHANGED <<ana, worker>>
     \/ /\ ana[i] = "awaiting"
        /\ ana' = [ana EXCEPT ![i] = "running"]
        /\ worker' = IF host[i] = p THEN worker \cup {i} ELSE worker
        /\ Answer(p, "running")
     \/ /\ ana[i] # "awaiting"
        /\ \E s \in Seen(p, i) : Answer(p, s)
        /\ UNCHANGED <<ana, worker>>
  /\ UNCHANGED <<row, job, host, Rest, counters>>

\* get_analysis_for_a2a.
PollAnalysis(p) ==
  /\ call[p] = "poll"
  /\ \E s \in Seen(p, mine[p]) : Answer(p, s)
  /\ UNCHANGED <<row, job, Rest, analyses, counters>>

\* Ask for the status of the analysis; the Task read so far is not used again.
Poll(p, n) ==
  /\ Go(p, "polling")
  /\ call' = [call EXCEPT ![p] = "poll"]
  /\ polls' = [polls EXCEPT ![p] = n]
  /\ copy' = [copy EXCEPT ![p] = NoTask]
  /\ res' = [res EXCEPT ![p] = "none"]

\* The coroutine resumes with the result.  A started analysis is recorded first;
\* after continue only a wait for confirmation is looked for.
Resume(p) ==
  /\ LoopFree(p) /\ pc[p] \in Waiting /\ call[p] = "done"
  /\ IF pc[p] = "continuing" /\ res[p] \notin {"raised", "awaiting"}
       THEN Poll(p, 1)
       ELSE /\ Go(p, CASE res[p] = "raised" -> "raised"
                       [] res[p] # "raised" /\ pc[p] = "starting" -> "recordRead"
                       [] res[p] # "raised" /\ pc[p] = "polling" -> "polled"
                       [] OTHER -> "asking")
            /\ call' = [call EXCEPT ![p] = "none"]
            /\ UNCHANGED <<copy, polls, res>>
  /\ UNCHANGED <<row, mine, Rest, analyses, counters>>

RecordRead(p) ==
  /\ pc[p] = "recordRead"
  /\ copy' = [copy EXCEPT ![p] = Row]
  /\ Go(p, "recordSave")
  /\ UNCHANGED <<row, mine, polls, thread, Rest, analyses, counters>>

\* save with internal_thread_id, COALESCEd over the one there.
RecordSave(p) ==
  /\ pc[p] = "recordSave"
  /\ Save(copy[p])
  /\ internal' = IF Accepted(copy[p]) THEN mine[p] ELSE internal
  /\ IF res[p] = "awaiting"
       THEN Go(p, "asking") /\ UNCHANGED <<copy, polls, thread>>
       ELSE Poll(p, 1)
  /\ UNCHANGED <<lease, attempts, mine, Rest, analyses, counters>>

PublishInput(p) ==
  /\ pc[p] = "asking"
  /\ Publish(p, "INPUT_REQUIRED")
  /\ Go(p, "published")
  /\ UNCHANGED <<internal, lease, attempts, mine, polls, thread, Rest, analyses, counters>>

\* A poll's answer: get the task, stop if cancelled, report progress if it is new.
Polled(p) ==
  /\ pc[p] = "polled"
  /\ IF state = "CANCELED"
       THEN Go(p, "ending") /\ UNCHANGED copy
       ELSE /\ copy' = [copy EXCEPT ![p] = Row]
            /\ Go(p, "progress") \/ Go(p, "deciding")
  /\ UNCHANGED <<row, mine, polls, thread, Rest, analyses, counters>>

PublishProgress(p) ==
  /\ pc[p] = "progress"
  /\ Publish(p, "WORKING")
  /\ Go(p, "deciding")
  /\ UNCHANGED <<internal, lease, attempts, mine, polls, thread, Rest, analyses, counters>>

\* What the job does with the status; an interrupted analysis is polled on.
NextStage(r) ==
  CASE r = "awaiting" -> "asking" [] r = "failed" -> "raised" [] r = "completed" -> "artifact"
    [] OTHER -> "sleeping"

Decide(p) ==
  /\ pc[p] = "deciding"
  /\ Go(p, NextStage(res[p]))
  /\ res' = [res EXCEPT ![p] = "none"]
  /\ copy' = IF NextStage(res[p]) = "sleeping" THEN [copy EXCEPT ![p] = NoTask] ELSE copy
  /\ UNCHANGED <<row, mine, polls, call, Rest, analyses, counters>>

PollAgain(p) ==
  /\ LoopFree(p) /\ pc[p] = "sleeping" /\ polls[p] < MaxPolls
  /\ Poll(p, polls[p] + 1)
  /\ UNCHANGED <<row, mine, Rest, analyses, counters>>

\* The deadline of _poll_internal.
Timeout(p) ==
  /\ LoopFree(p) /\ pc[p] = "sleeping"
  /\ Go(p, "raised")
  /\ UNCHANGED <<row, copy, mine, polls, thread, Rest, analyses, counters>>

\* _publish_artifact.
PublishArtifact(p) ==
  /\ pc[p] = "artifact"
  /\ IF copy[p].state \in Terminal THEN UNCHANGED <<state, arts, copy>>
     ELSE LET c == [copy[p] EXCEPT !.arts = @ + 1] IN copy' = [copy EXCEPT ![p] = c] /\ Save(c)
  /\ Go(p, "completing")
  /\ UNCHANGED <<internal, lease, attempts, mine, polls, thread, Rest, analyses, counters>>

PublishCompleted(p) ==
  /\ pc[p] = "completing"
  /\ Publish(p, "COMPLETED")
  /\ Go(p, "published")
  /\ UNCHANGED <<internal, lease, attempts, mine, polls, thread, Rest, analyses, counters>>

-----------------------------------------------------------------------------
(* The job's exception handler and finally. *)

\* Mutant: the lease is left to expire.
FreeLater == UNCHANGED lease

\* release_execution clears the lease, whoever holds it.
Free == lease' = NoLease

Raised(p) ==
  /\ pc[p] = "raised"
  /\ Free
  /\ Go(p, "errorRead")
  /\ copy' = [copy EXCEPT ![p] = NoTask]
  /\ UNCHANGED <<state, arts, internal, attempts, mine, polls, thread, Rest, analyses, counters>>

AttemptsLeft == attempts < MaxAttempts

ErrorRead(p) ==
  /\ pc[p] = "errorRead"
  /\ IF state \in Terminal
       THEN Go(p, "ending") /\ UNCHANGED copy
       ELSE /\ copy' = [copy EXCEPT ![p] = Row]
            /\ Go(p, IF AttemptsLeft THEN "requeueing" ELSE "givingUp")
  /\ UNCHANGED <<row, mine, polls, thread, Rest, analyses, counters>>

Requeue(p) ==
  /\ pc[p] = "requeueing"
  /\ Publish(p, "SUBMITTED")
  /\ Go(p, "requeued")
  /\ UNCHANGED <<internal, lease, attempts, mine, polls, thread, Rest, analyses, counters>>

GiveUp(p) ==
  /\ pc[p] = "givingUp"
  /\ Publish(p, "FAILED")
  /\ Go(p, "ending")
  /\ UNCHANGED <<internal, lease, attempts, mine, polls, thread, Rest, analyses, counters>>

\* Mutant: _running still holds the job, so _schedule does nothing.
FinishUnscheduled(p) ==
  /\ Go(p, "none")
  /\ copy' = [copy EXCEPT ![p] = NoTask]
  /\ mine' = [mine EXCEPT ![p] = NoAnalysis]
  /\ polls' = [polls EXCEPT ![p] = 0]
  /\ res' = [res EXCEPT ![p] = "none"]
  /\ call' = [call EXCEPT ![p] = "none"]

\* The end of the job; a requeued one has scheduled the next.
Finish(p) ==
  /\ Go(p, IF pc[p] = "requeued" THEN "scheduled" ELSE "none")
  /\ copy' = [copy EXCEPT ![p] = NoTask]
  /\ mine' = [mine EXCEPT ![p] = IF call[p] = "none" THEN NoAnalysis ELSE @]
  /\ polls' = [polls EXCEPT ![p] = 0]
  /\ res' = [res EXCEPT ![p] = "none"]
  /\ call' = [call EXCEPT ![p] = IF @ = "done" THEN "none" ELSE @]

\* finally: release once more.
End(p) ==
  /\ pc[p] \in {"published", "requeued", "ending"}
  /\ Free
  /\ Finish(p)
  /\ UNCHANGED <<state, arts, internal, attempts, Rest, analyses, counters>>

-----------------------------------------------------------------------------
(* The analyses, failing store calls, and the processes. *)

\* A worker ends.  One that was told to stop may be past its last check.
AnalysisEnds(i) ==
  /\ i \in worker
  /\ \E s \in {"completed", "failed", "interrupted"} : ana' = [ana EXCEPT ![i] = s]
  /\ worker' = worker \ {i}
  /\ UNCHANGED <<row, job, thread, host, Rest, counters>>

\* A store call raises, or append_event does after the status was saved.  In the
\* body that is one more error, in the handler it leaves only finally, and in
\* finally, as in the claim, it ends the job.
JobStoreError(p) ==
  /\ pc[p] \notin Suspended \/ LoopFree(p)
  /\ \/ pc[p] \in (Body \ {"deciding"}) \cup {"claimed"} /\ Go(p, "raised") /\ UNCHANGED <<copy, mine, polls, thread>>
     \/ pc[p] \in Handler /\ Go(p, "ending") /\ UNCHANGED <<copy, mine, polls, thread>>
     \/ pc[p] = "scheduled" /\ Go(p, "none") /\ UNCHANGED <<copy, mine, polls, thread>>
     \/ pc[p] \in {"published", "requeued", "ending"} /\ Finish(p)
  /\ UNCHANGED <<cxl, ccopy, cfor>>

\* A cancel whose save raises has stopped the analysis and nothing else.
CancelStoreError(p) ==
  /\ cxl[p] = "publishing" \/ (cxl[p] = "stopped" /\ LoopFree(p))
  /\ cxl' = [cxl EXCEPT ![p] = "none"]
  /\ ccopy' = [ccopy EXCEPT ![p] = NoTask] /\ cfor' = [cfor EXCEPT ![p] = NoAnalysis]
  /\ UNCHANGED <<job, thread>>

StoreError(p) ==
  /\ errors < MaxErrors
  /\ errors' = errors + 1
  /\ JobStoreError(p) \/ CancelStoreError(p)
  /\ UNCHANGED <<row, accepting, up, analyses, continued, stops>>

\* The process ends: killed anywhere, or through stop(), whose cancelled jobs
\* release the lease.  Its entries and threads are lost; what the database has
\* of them may still be running.
Exit(p) ==
  /\ p \in up /\ stops < MaxStops
  /\ stops' = stops + 1
  /\ up' = up \ {p}
  /\ \/ UNCHANGED lease
     \/ LoopFree(p) /\ pc[p] \notin {"none", "scheduled"} /\ Free
  /\ Go(p, "none")
  /\ copy' = [copy EXCEPT ![p] = NoTask] /\ mine' = [mine EXCEPT ![p] = NoAnalysis]
  /\ polls' = [polls EXCEPT ![p] = 0]
  /\ call' = [call EXCEPT ![p] = "none"] /\ res' = [res EXCEPT ![p] = "none"]
  /\ acc' = [acc EXCEPT ![p] = "none"] /\ acopy' = [acopy EXCEPT ![p] = NoTask]
  /\ cxl' = [cxl EXCEPT ![p] = "none"]
  /\ ccopy' = [ccopy EXCEPT ![p] = NoTask] /\ cfor' = [cfor EXCEPT ![p] = NoAnalysis]
  /\ LET mineToo == {i \in Analysis : host[i] = p}
         ended == {i \in mineToo : ana[i] \in {"completed", "failed", "interrupted"}} IN
     /\ \E unsaved \in SUBSET ended :
          ana' = [i \in Analysis |-> IF i \in unsaved THEN "running" ELSE ana[i]]
     /\ host' = [i \in Analysis |-> IF i \in mineToo THEN NoProc ELSE host[i]]
     /\ worker' = worker \ mineToo
  /\ UNCHANGED <<state, arts, internal, attempts, continued, errors>>

\* start: schedule what recovery_candidates returns.
Restart(p) ==
  /\ p \notin up
  /\ up' = up \cup {p}
  /\ IF Executable THEN Schedule(p) ELSE UNCHANGED pc
  /\ UNCHANGED <<row, copy, mine, polls, thread, accepting, cancelling, analyses, continued, counters>>

-----------------------------------------------------------------------------
JobStep(p) ==
  \/ ClaimExecution(p) \/ Begin(p) \/ PublishWorking(p) \/ ReadInternal(p) \/ Resume(p)
  \/ RecordRead(p) \/ RecordSave(p) \/ PublishInput(p)
  \/ Polled(p) \/ PublishProgress(p) \/ Decide(p) \/ PollAgain(p) \/ Timeout(p)
  \/ PublishArtifact(p) \/ PublishCompleted(p)
  \/ Raised(p) \/ ErrorRead(p) \/ Requeue(p) \/ GiveUp(p) \/ End(p)

ThreadStep(p) == StartAnalysis(p) \/ ContinueAnalysis(p) \/ PollAnalysis(p)
CallerStep(p) == StoreMessage(p) \/ CancelStop(p) \/ CancelPublish(p)

Next ==
  \/ \E p \in Proc :
       \/ Accept(p) \/ CancelRead(p) \/ CallerStep(p) \/ JobStep(p) \/ ThreadStep(p)
       \/ StoreError(p) \/ Exit(p) \/ Restart(p)
  \/ \E i \in Analysis : AnalysisEnds(i)
  \/ Tick

Spec == Init /\ [][Next]_vars

\* Event loops and threads run, analyses end (their model calls time out), an
\* exited process is restarted, and time passes.
Fairness ==
  /\ WF_vars(Tick)
  /\ \A p \in Proc : WF_vars(CallerStep(p)) /\ WF_vars(JobStep(p)) /\ WF_vars(ThreadStep(p)) /\ WF_vars(Restart(p))
  /\ \A i \in Analysis : WF_vars(AnalysisEnds(i))

FairSpec == Spec /\ Fairness

-----------------------------------------------------------------------------
(* Properties. *)

Executing(p) == pc[p] \notin Handler \cup {"none", "scheduled", "ending"}

\* One process: while its job executes the row is leased (if only by an expired
\* lease), and unless a process exit or a failing call left it behind, a leased
\* row has a job that will release it: no path leaks the lease or runs without.
LeaseFollowsJob ==
  Cardinality(Proc) = 1 =>
    /\ \A p \in Proc : Executing(p) => lease # NoLease
    /\ lease # NoLease /\ stops = 0 /\ errors = 0 =>
         \E p \in Proc : Executing(p) \/ pc[p] \in {"raised", "ending"}

\* What a caller sees is backed, however stale the copies were that other
\* coroutines and processes saved: COMPLETED by a report among the artifacts, FAILED
\* by attempts that are used up, INPUT_REQUIRED by an analysis the answer continues.
StatusIsBacked ==
  /\ TypeOK
  /\ state = "COMPLETED" => arts > 0
  /\ state = "FAILED" => attempts >= MaxAttempts
  /\ state = "INPUT_REQUIRED" => internal # NoAnalysis

\* One process: an analysis once recorded for a task is never replaced, although
\* runs are repeated and each run without one starts its own.
AnalysisIsStable == [][internal # NoAnalysis => internal' = internal]_vars

\* One process: a late result never changes a terminal task; only a cancellation
\* that read the task before it ended does.
OnlyCancelIsLate ==
  [][(state \in {"COMPLETED", "FAILED", "CANCELED"}) => (state' \in {state, "CANCELED"})]_vars

\* Unless a process exits or a store call fails, submitted work is finished, cancelled,
\* or waits for its caller, through retries and the polling deadline.
Settles ==
  state \in {"SUBMITTED", "WORKING"} ~>
    state \in Terminal \cup {"INPUT_REQUIRED"} \/ stops > 0 \/ errors > 0

\* tests/test_a2a_provider.py:181, test_terminal_state_cannot_be_overwritten_by_late_result.
TerminalIsFinal == [][(state \in Terminal) => (state' = state)]_vars

\* docs/operations_en.md:58: "Late background results cannot overwrite a canceled task."
CanceledIsFinal == [][state = "CANCELED" => state' = "CANCELED"]_vars

\* docs/a2a-provider_en.md:20: "When the task is TASK_STATE_INPUT_REQUIRED, send the
\* next Message with the same taskId and contextId."
ContinuationResumes == continued ~> state # "INPUT_REQUIRED"

\* docs/operations_en.md:58: "After a restart, submitted/working tasks can resume".
Resumes == state \in {"SUBMITTED", "WORKING"} ~> state \in Terminal \cup {"INPUT_REQUIRED"}

\* store.py:166: "Atomically acquire a lease so two provider processes do not run
\* one task."
OneRunner == \A p, q \in Proc : pc[p] \in Waiting /\ pc[q] \in Waiting => p = q

=============================================================================
