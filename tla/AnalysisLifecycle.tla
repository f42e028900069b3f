------------------------- MODULE AnalysisLifecycle -------------------------
(***************************************************************************)
(* One analysis thread in the gateway (app/competition_router.py): its     *)
(* in-memory entry (_store), its row of analysis_history, its cancel flag, *)
(* the endpoints that act on it and the worker threads that run it.        *)
(*                                                                         *)
(* Endpoint coroutines run to completion on the event loop, one at a time  *)
(* (h says what is left of the current one); worker threads interleave     *)
(* with them between any two writes of shared state.  A report is a        *)
(* number; 0 is no report.  The entry refers to a state dict, which a      *)
(* graph run replaces at each event and a re-analysis or an edit changes   *)
(* in place: heap[d] is the report in dict d.                              *)
(***************************************************************************)
EXTENDS Integers, FiniteSets, Sequences

CONSTANTS
  Worker,        \* slots for worker threads
  MaxEvents,     \* bound on node events of a graph run
  MaxNodes,      \* most nodes of a re-analysis (replan has 4)
  MaxDecisions,  \* bound on rewrite, reanalyze and replan decisions
  MaxEdits,      \* bound on section edits
  MaxRestarts,   \* bound on gateway restarts
  MaxStartFails  \* bound on executor submissions that raise

ASSUME NumberAssumption ==
  /\ MaxEvents \in Nat /\ MaxNodes \in Nat \ {0} /\ MaxDecisions \in Nat
  /\ MaxEdits \in Nat /\ MaxRestarts \in Nat /\ MaxStartFails \in Nat
ASSUME WorkerAssumption == IsFiniteSet(Worker)

VARIABLES
  mem, cur,      \* _store[thread]: status ("absent": no entry) and state dict
  heap,          \* the reports in the state dicts
  db, dbRep,     \* the analysis_history row
  phase,         \* the report kept with the writer's phase of the graph run
  ver, approved, \* the reports of the latest and of the approved version
  flag,          \* _cancel_flags[thread]
  h, hv,         \* what the running endpoint has left to do, and what it read
  pc, left,      \* pc[w]: the next step of worker w, left[w]: nodes left to it
  own,           \* own[w]: the report of a graph run, the dict of a re-analysis
  made,          \* reports made so far
  decisions, edits, restarts, startFails,   \* counters for the bounds
  starts,        \* history: graph workers started
  restored,      \* history: a running row without a worker was loaded
  doomed,        \* history: workers cancelled with a check still ahead
  published      \* history: an approval wrote the row

entry == <<mem, cur, heap>>
record == <<db, dbRep, phase, ver, approved>>
threads == <<pc, left, own>>
counters == <<decisions, edits, restarts, startFails>>
history == <<starts, restored, doomed, published>>
vars == <<entry, record, flag, h, hv, threads, made, counters, history>>

Statuses == {"absent", "awaiting", "running", "interrupted", "failed", "completed", "approved"}
NoReport == 0

Graph == {"queued", "resolve", "title", "check", "node", "save", "end", "failMem", "failDb", "doneDb", "version"}
Rerun == {"reQueued", "reRun", "reCheck", "rePre", "rePost", "reEnd", "reVersion"}
Finalize == {"finalizeMem", "finalizeDb"}
PCs == {"none"} \cup Graph \cup Rerun \cup Finalize

TypeOK ==
  /\ mem \in Statuses /\ db \in Statuses
  /\ heap \in Seq(0 .. made) /\ cur \in 0 .. Len(heap)
  /\ {dbRep, phase, ver, approved} \subseteq 0 .. made
  /\ flag \in BOOLEAN
  /\ h \in {"idle", "claim", "start", "cancelMem", "cancelDb", "decide", "approveMem", "approveDb", "editDb"}
  /\ hv \in Nat
  /\ pc \in [Worker -> PCs]
  /\ left \in [Worker -> 0 .. MaxEvents + MaxNodes]
  /\ own \in [Worker -> Nat]
  /\ made \in Nat
  /\ decisions \in 0 .. MaxDecisions /\ edits \in 0 .. MaxEdits
  /\ restarts \in 0 .. MaxRestarts /\ startFails \in 0 .. MaxStartFails
  /\ starts \in Nat /\ restored \in BOOLEAN /\ doomed \subseteq Worker /\ published \in BOOLEAN

Init ==
  /\ mem = "absent" /\ cur = 0 /\ heap = << >>
  /\ db = "absent" /\ dbRep = NoReport /\ phase = NoReport /\ ver = NoReport /\ approved = NoReport
  /\ flag = FALSE /\ h = "idle" /\ hv = 0
  /\ own = [w \in Worker |-> 0]
  /\ pc = [w \in Worker |-> "none"] /\ left = [w \in Worker |-> 0]
  /\ made = 0
  /\ decisions = 0 /\ edits = 0 /\ restarts = 0 /\ startFails = 0
  /\ starts = 0 /\ restored = FALSE /\ doomed = {} /\ published = FALSE

Alive == {w \in Worker : pc[w] # "none"}

-----------------------------------------------------------------------------
(* Endpoints. *)

\* _restore_state_from_db: the row's status and report, or else the writer's.
Status == IF mem = "absent" THEN db ELSE mem
Restored == IF dbRep # NoReport THEN dbRep ELSE phase
Report == IF mem = "absent" THEN Restored ELSE heap[cur]

\* The entry an endpoint acts on, restored if need be: it gets status s.
SetEntry(s) ==
  /\ mem' = s
  /\ restored' = (restored \/ (mem = "absent" /\ db = "running"))

Load ==
  /\ cur' = (IF mem = "absent" THEN 1 ELSE cur)
  /\ heap' = IF mem = "absent" THEN <<Restored>> ELSE heap

Idle == h = "idle"

\* analyze: entry and row wait for confirmation, or the start is claimed at once.
Analyze ==
  /\ Idle /\ db = "absent"
  /\ mem' = "awaiting" /\ cur' = 1 /\ heap' = <<NoReport>>
  /\ db' = "awaiting"
  /\ h' \in {"idle", "claim"}
  /\ UNCHANGED <<dbRep, phase, ver, approved, flag, hv, threads, made, counters, history>>

\* confirm: restore the entry, then claim.
Confirm ==
  /\ Idle /\ db # "absent"
  /\ SetEntry(Status) /\ Load
  /\ h' = "claim"
  /\ UNCHANGED <<record, flag, hv, threads, made, counters, starts, doomed, published>>

\* claim_analysis_start: a compare-and-swap on the row's status.
Claim ==
  /\ h = "claim"
  /\ IF db = "awaiting" THEN db' = "running" /\ h' = "start" ELSE h' = "idle" /\ UNCHANGED db
  /\ UNCHANGED <<entry, dbRep, phase, ver, approved, flag, hv, threads, made, counters, history>>

\* A worker thread is submitted to the executor.
Submit(w, l, n) ==
  /\ pc[w] = "none"
  /\ pc' = [pc EXCEPT ![w] = l]
  /\ left' = [left EXCEPT ![w] = n]

\* _start_analysis_worker.
StartWorker(w) ==
  /\ h = "start"
  /\ mem' = "running"
  /\ Submit(w, "queued", MaxEvents)
  /\ starts' = starts + 1
  /\ h' = "idle"
  /\ UNCHANGED <<cur, heap, record, flag, hv, own, made, counters, restored, doomed, published>>

\* Submission raises.  restore_analysis_to_waiting asks for current_node IS NULL,
\* but upsert_analysis inserted '', so the row stays running.
StartFails ==
  /\ h = "start" /\ startFails < MaxStartFails
  /\ startFails' = startFails + 1
  /\ mem' = "awaiting"
  /\ h' = "idle"
  /\ UNCHANGED <<cur, heap, record, flag, hv, threads, made, decisions, edits, restarts, history>>

CheckAhead == {"queued", "resolve", "title", "check", "reQueued", "reRun", "reCheck", "rePre", "rePost"}

\* cancel_analysis of a waiting analysis, or of a running one: raise the flag.
Cancel ==
  /\ Idle
  /\ \/ /\ Status = "awaiting"
        /\ SetEntry("interrupted")
        /\ h' = "cancelDb"
        /\ UNCHANGED <<flag, doomed>>
     \/ /\ Status = "running"
        /\ SetEntry(Status)
        /\ flag' = TRUE
        /\ doomed' = IF Cardinality(Alive) = 1 THEN {w \in Alive : pc[w] \in CheckAhead} ELSE doomed
        /\ h' = "cancelMem"
  /\ Load
  /\ UNCHANGED <<record, hv, threads, made, counters, starts, published>>

CancelMem ==
  /\ h = "cancelMem"
  /\ mem' = "interrupted" /\ h' = "cancelDb"
  /\ UNCHANGED <<cur, heap, record, flag, hv, threads, made, counters, history>>

CancelDb ==
  /\ h = "cancelDb"
  /\ db' = "interrupted" /\ h' = "idle"
  /\ UNCHANGED <<entry, dbRep, phase, ver, approved, flag, hv, threads, made, counters, history>>

\* submit_decision refuses a running or approved analysis and accepts all others.
\* It puts back the state dict it read: intent parsing takes its time.
Decidable == Status \notin {"absent", "running", "approved"}

Decide ==
  /\ Idle /\ Decidable
  /\ SetEntry(Status) /\ Load
  /\ hv' = cur'
  /\ \/ h' = "decide" /\ decisions < MaxDecisions /\ decisions' = decisions + 1
     \/ h' = "approveMem" /\ UNCHANGED decisions
  /\ UNCHANGED <<record, flag, threads, made, edits, restarts, startFails, starts, doomed, published>>

\* rewrite (one node), reanalyze, replan: running again, on a worker of its own.
Rework(w) ==
  /\ h = "decide"
  /\ mem' = "running" /\ cur' = hv
  /\ \E n \in 1 .. MaxNodes : Submit(w, "reQueued", n)
  /\ doomed' = {}
  /\ h' = "idle"
  /\ UNCHANGED <<heap, record, flag, hv, own, made, counters, starts, restored, published>>

\* approve: the entry, then the version tree and the row, which becomes completed.
ApproveMem ==
  /\ h = "approveMem"
  /\ mem' = "approved" /\ cur' = hv /\ h' = "approveDb"
  /\ UNCHANGED <<heap, record, flag, hv, threads, made, counters, history>>

ApproveDb ==
  /\ h = "approveDb"
  /\ approved' = ver
  /\ db' = "completed" /\ dbRep' = heap[cur]
  /\ published' = TRUE
  /\ h' = "idle"
  /\ UNCHANGED <<entry, phase, ver, flag, hv, threads, made, counters, starts, restored, doomed>>

\* update_sections: any status, as long as there is a report.
Edit ==
  /\ Idle /\ edits < MaxEdits /\ Report # NoReport
  /\ SetEntry(Status)
  /\ cur' = (IF mem = "absent" THEN 1 ELSE cur)
  /\ heap' = IF mem = "absent" THEN <<made + 1>> ELSE [heap EXCEPT ![cur] = made + 1]
  /\ made' = made + 1 /\ edits' = edits + 1
  /\ h' = "editDb" /\ hv' = made + 1
  /\ UNCHANGED <<record, flag, threads, decisions, restarts, startFails, starts, doomed, published>>

EditDb ==
  /\ h = "editDb"
  /\ dbRep' = hv /\ ver' = hv
  /\ h' = "idle"
  /\ UNCHANGED <<entry, db, phase, approved, flag, hv, threads, made, counters, history>>

-----------------------------------------------------------------------------
(* Worker threads. *)

Step(w, from, to) == pc[w] = from /\ pc' = [pc EXCEPT ![w] = to]
Handlers == <<h, hv, counters, history>>

\* Mutant: the flag is popped but not acted on.
CheckIgnored(w, from, to) == Step(w, from, to) /\ flag' = FALSE

\* A graph run pops the flag where it checks it, and finalizes.
Check(w, from, to) ==
  /\ Step(w, from, IF flag THEN "finalizeMem" ELSE to)
  /\ flag' = FALSE

\* _finalize_cancelled.
FinalizeMem(w) ==
  /\ Step(w, "finalizeMem", "finalizeDb")
  /\ mem' = "interrupted"
  /\ UNCHANGED <<cur, heap, record, flag, left, own, made, Handlers>>

FinalizeDb(w) ==
  /\ Step(w, "finalizeDb", "none")
  /\ db' = "interrupted"
  /\ UNCHANGED <<entry, dbRep, phase, ver, approved, flag, left, own, made, Handlers>>

\* _resolve_and_run_graph.
Begin(w) ==
  /\ Check(w, "queued", "resolve")
  /\ UNCHANGED <<entry, record, left, own, made, Handlers>>

\* Resolution raises or finds no product: only the entry fails.  Otherwise the
\* entry is running again, whatever a cancellation wrote meanwhile.
Resolve(w) ==
  /\ \/ Step(w, "resolve", "none") /\ mem' = "failed"
     \/ Step(w, "resolve", "title") /\ mem' = "running"
  /\ UNCHANGED <<cur, heap, record, flag, left, own, made, Handlers>>

\* The title is written with status running.
Title(w) ==
  /\ Step(w, "title", "check")
  /\ db' = "running"
  /\ UNCHANGED <<entry, dbRep, phase, ver, approved, flag, left, own, made, Handlers>>

\* The graph starts from a copy of the entry's state.
BeforeGraph(w) ==
  /\ Check(w, "check", "node")
  /\ own' = [own EXCEPT ![w] = heap[cur]]
  /\ UNCHANGED <<entry, record, left, made, Handlers>>

\* _run_graph_sync: an event of the graph.  The flag is checked, then the state is
\* replaced by the event's, which has a new report once the writer is through.
Event(w) ==
  /\ left[w] > 0 /\ ~flag
  /\ Check(w, "node", "save")
  /\ left' = [left EXCEPT ![w] = @ - 1]
  /\ made' \in {made, made + 1}
  /\ own' = IF made' = made THEN own ELSE [own EXCEPT ![w] = made']
  /\ heap' = Append(heap, own'[w]) /\ cur' = Len(heap')
  /\ UNCHANGED <<mem, record, Handlers>>

EventCancelled(w) ==
  /\ left[w] > 0 /\ flag
  /\ Check(w, "node", "save")
  /\ UNCHANGED <<entry, record, left, own, made, Handlers>>

\* Each node's row update says running; its output goes to the node's phase.
SaveNode(w) ==
  /\ Step(w, "save", "node")
  /\ db' = "running" /\ phase' = own[w]
  /\ UNCHANGED <<entry, dbRep, ver, approved, flag, left, own, made, Handlers>>

\* Mutant: a run that ends without a report is completed.
GraphEndsEmpty(w) ==
  /\ Step(w, "node", "end")
  /\ own' = [own EXCEPT ![w] = cur]
  /\ UNCHANGED <<entry, record, flag, left, made, Handlers>>

\* The stream is exhausted: an error or no report in the entry's state fails the
\* run.  From here on that state's dict is the run's.
GraphEnds(w) ==
  /\ \/ Step(w, "node", "failMem")
     \/ Step(w, "node", "end") /\ heap[cur] # NoReport
  /\ own' = [own EXCEPT ![w] = cur]
  /\ UNCHANGED <<entry, record, flag, left, made, Handlers>>

\* An exception ends the run at any node; its failure is recorded without a report.
GraphRaises(w) ==
  /\ \E l \in {"node", "save"} : Step(w, l, "failMem")
  /\ own' = [own EXCEPT ![w] = 0]
  /\ UNCHANGED <<entry, record, flag, left, made, Handlers>>

FailMem(w) ==
  /\ Step(w, "failMem", "failDb")
  /\ mem' = "failed"
  /\ UNCHANGED <<cur, heap, record, flag, left, own, made, Handlers>>

FailDb(w) ==
  /\ Step(w, "failDb", "none")
  /\ db' = "failed"
  /\ dbRep' = IF own[w] = 0 \/ heap[own[w]] = NoReport THEN dbRep ELSE heap[own[w]]
  /\ UNCHANGED <<entry, phase, ver, approved, flag, left, own, made, Handlers>>

\* The end event goes out first, then entry, row and initial version.
DoneMem(w) ==
  /\ Step(w, "end", "doneDb")
  /\ mem' = "completed"
  /\ UNCHANGED <<cur, heap, record, flag, left, own, made, Handlers>>

DoneDb(w) ==
  /\ Step(w, "doneDb", "version")
  /\ db' = "completed" /\ dbRep' = heap[own[w]]
  /\ UNCHANGED <<entry, phase, ver, approved, flag, left, own, made, Handlers>>

InitialVersion(w) ==
  /\ Step(w, "version", "none")
  /\ ver' = IF ver = NoReport THEN heap[cur] ELSE ver
  /\ UNCHANGED <<entry, db, dbRep, phase, approved, flag, left, own, made, Handlers>>

\* _stop_if_cancelled: pop the flag; finalize unless the entry says so already.
StopIfCancelled(w, from, to) ==
  /\ Step(w, from, IF ~flag THEN to ELSE IF mem = "interrupted" THEN "none" ELSE "finalizeMem")
  /\ flag' = FALSE

\* _reanalyze_sync.
ReBegin(w) ==
  /\ StopIfCancelled(w, "reQueued", "reRun")
  /\ own' = [own EXCEPT ![w] = cur]
  /\ UNCHANGED <<entry, record, left, made, Handlers>>

ReRun(w) ==
  /\ Step(w, "reRun", "reCheck")
  /\ mem' = "running"
  /\ UNCHANGED <<cur, heap, record, flag, left, own, made, Handlers>>

ReCheck(w) ==
  /\ StopIfCancelled(w, "reCheck", "rePre")
  /\ cur' = IF flag THEN cur ELSE own[w]
  /\ UNCHANGED <<mem, heap, record, left, own, made, Handlers>>

\* _run_re_node: a check before the node ...
ReNode(w) ==
  /\ StopIfCancelled(w, "rePre", "rePost")
  /\ UNCHANGED <<entry, record, left, own, made, Handlers>>

\* ... and one after it.  The writer is the last node; one that fails leaves the
\* old report, and the run goes on to its end.
ReNodeDone(w) ==
  /\ StopIfCancelled(w, "rePost", IF left[w] > 1 THEN "rePre" ELSE "reEnd")
  /\ left' = [left EXCEPT ![w] = @ - 1]
  /\ \/ ~flag /\ left[w] = 1 /\ heap' = [heap EXCEPT ![own[w]] = made + 1] /\ made' = made + 1
     \/ UNCHANGED <<heap, made>>
  /\ UNCHANGED <<mem, cur, record, own, Handlers>>

\* Mutant: the exception is only logged.
ReFailsSilently(w) ==
  /\ \E l \in {"reRun", "reCheck", "rePre", "reEnd"} : Step(w, l, "none")
  /\ UNCHANGED <<entry, record, flag, left, own, made, Handlers>>

\* An exception: only the entry fails.
ReFails(w) ==
  /\ \E l \in {"reRun", "reCheck", "rePre", "reEnd"} : Step(w, l, "none")
  /\ mem' = "failed"
  /\ UNCHANGED <<cur, heap, record, flag, left, own, made, Handlers>>

\* The entry is completed and a version saved; the row is not written.
ReDone(w) ==
  /\ Step(w, "reEnd", "reVersion")
  /\ mem' = "completed" /\ cur' = own[w]
  /\ UNCHANGED <<heap, record, flag, left, own, made, Handlers>>

ReVersion(w) ==
  /\ Step(w, "reVersion", "none")
  /\ ver' = IF heap[own[w]] = NoReport THEN ver ELSE heap[own[w]]
  /\ UNCHANGED <<entry, db, dbRep, phase, approved, flag, left, own, made, Handlers>>

\* The gateway restarts: memory and threads are gone.
Restart ==
  /\ restarts < MaxRestarts
  /\ restarts' = restarts + 1
  /\ mem' = "absent" /\ cur' = 0 /\ heap' = << >>
  /\ flag' = FALSE /\ h' = "idle" /\ hv' = 0
  /\ own' = [w \in Worker |-> 0]
  /\ pc' = [w \in Worker |-> "none"] /\ left' = [w \in Worker |-> 0]
  /\ doomed' = {} /\ restored' = FALSE
  /\ UNCHANGED <<record, made, decisions, edits, startFails, starts, published>>

-----------------------------------------------------------------------------
GraphStep(w) ==
  \/ Begin(w) \/ Resolve(w) \/ Title(w) \/ BeforeGraph(w) \/ Event(w) \/ EventCancelled(w)
  \/ SaveNode(w) \/ GraphEnds(w) \/ GraphRaises(w) \/ FailMem(w) \/ FailDb(w) \/ DoneMem(w) \/ DoneDb(w) \/ InitialVersion(w)

RerunStep(w) ==
  \/ ReBegin(w) \/ ReRun(w) \/ ReCheck(w) \/ ReNode(w) \/ ReNodeDone(w)
  \/ ReFails(w) \/ ReDone(w) \/ ReVersion(w)

WorkerStep(w) == GraphStep(w) \/ RerunStep(w) \/ FinalizeMem(w) \/ FinalizeDb(w)

\* What finishes the endpoint at work.
EndpointStep ==
  \/ Claim \/ \E w \in Worker : StartWorker(w) \/ Rework(w)
  \/ CancelMem \/ CancelDb \/ ApproveMem \/ ApproveDb \/ EditDb

Next ==
  \/ Analyze \/ Confirm \/ Cancel \/ Decide \/ Edit
  \/ EndpointStep \/ StartFails
  \/ \E w \in Worker : WorkerStep(w)
  \/ Restart

Spec == Init /\ [][Next]_vars

\* Endpoints finish and worker threads run; users, restarts and failures are not
\* fair.
Fairness == WF_vars(EndpointStep) /\ \A w \in Worker : WF_vars(WorkerStep(w))
FairSpec == Spec /\ Fairness

-----------------------------------------------------------------------------
(* Properties. *)

\* An entry says running only while some worker is there to end it (otherwise
\* submit_decision would refuse for ever), unless it was restored that way; and
\* however often confirmations are repeated, and across restarts, the graph is
\* started at most once (db.py:1251, "exactly one worker submission").
RunningHasWorker ==
  /\ TypeOK
  /\ mem = "running" /\ ~restored => Alive # {}
  /\ starts <= 1

\* A row that says completed has a report, whatever was cancelled, edited or reworked
\* meanwhile, unless the user approved an analysis that has none.
CompletedIsReadable == db = "completed" /\ ~published => dbRep # NoReport

\* A worker that was cancelled with a check ahead never gets to report completion,
\* unless the user submits a rework that shares its flag.
CancelledStops ==
  \A w \in doomed : pc[w] \notin {"end", "doneDb", "version", "reEnd", "reVersion"}

\* Every run ends: an entry does not stay running until the gateway restarts.
RunningEnds == mem = "running" ~> (mem # "running" \/ restarts > 0)

\* competition_router.py:3839: a decision waits for the analysis under way to end
\* ("wait for it to finish before submitting").
DecisionsWait == [][(Idle /\ h' \in {"decide", "approveMem"}) => Alive = {}]_vars

\* competition_router.py:3842: an approved report "can no longer be modified".
ApprovedUnchanged ==
  [][(mem = "approved" /\ mem' = "approved") => (heap'[cur'] = heap[cur])]_vars

\* competition_router.py:4165: an approved report is persisted as such.
ApprovalSurvives == published /\ Idle /\ Alive = {} => Status = "approved"

\* competition_router.py:3723: the row restores the entry after a restart.
RestoredIsLatest == Idle /\ Alive = {} /\ mem = "completed" => dbRep = heap[cur]

\* db.py:1319: a claimed start whose submission failed is rolled back.
FailedStartIsWaiting == startFails > 0 /\ starts = 0 /\ Idle /\ mem = "awaiting" => db = "awaiting"

\* competition_router.py:3234: a cancelled analysis is interrupted, not completed.
CancelledIsNotCompleted ==
  [][(mem = "interrupted" /\ decisions = 0) => (mem' # "completed")]_vars

=============================================================================
