----------------------------- MODULE Monitoring -----------------------------
(***************************************************************************)
(* The observation of one competitor fact (competition/                    *)
(* observation_scheduler.py, intelligence_repo.py, alerts.py,              *)
(* notifications.py and the observation runtime of competition_router.py): *)
(* schedulers of several processes lease a due schedule and queue a task   *)
(* for its slot; a worker collects the fact, stores what changed, raises   *)
(* and delivers alerts, queues the change for the knowledge base and       *)
(* starts a deep analysis.                                                 *)
(*                                                                         *)
(* Time is counted in intervals of the schedule.  The lock of the          *)
(* scheduler class belongs to a process, which has one worker thread; it   *)
(* keeps nothing out here.  A run that raises is recorded as failed and    *)
(* its task succeeds; only the death of the process makes the task wait    *)
(* for another attempt (TaskQueue).                                        *)
(***************************************************************************)
EXTENDS Integers, Sequences, FiniteSets

CONSTANTS
  Ticker,      \* processes with a scheduler loop
  Worker,      \* processes with a task worker
  Manual,      \* idempotency keys of manual runs: a new one for each
  MaxRuns,     \* bound on the runs that fall due or are asked for
  MaxChanges,  \* bound on the changes of the fact
  MaxAttempts, \* max_attempts of the tasks (3 in the code)
  MaxFaults    \* bound on failures, stops and stalls

ASSUME BoundAssumption ==
  /\ MaxRuns \in Nat \ {0} /\ MaxChanges \in Nat
  /\ MaxAttempts \in Nat \ {0} /\ MaxFaults \in Nat
ASSUME SetAssumption == "none" \notin Worker /\ IsFiniteSet(Manual)

VARIABLES
  now,      \* the interval it is
  sched,    \* row of observation_schedules
  tick,     \* tick[t]: what scheduler t does with the row it claimed
  task,     \* tasks by idempotency key: a slot or a manual key
  run,      \* run[w]: the run worker w is in
  lock,     \* the writer of the intelligence pool's open transaction
  world,    \* the fact as its source shows it
  versions, \* intelligence_item_versions of the fact
  done,     \* versions that were alerted on, queued as knowledge and analysed
  alerts,   \* alert_events
  changes, faults

stored == <<sched, task, versions, done, alerts>>
vars == <<now, stored, tick, run, lock, world, changes, faults>>

Slot == 1 .. MaxRuns + 1
Key == Slot \cup Manual
Content == [value : {1, 2}, page : {1, 2}]
Stage == {"alerted", "queued", "analysed"}
Event == [of : Content, new : BOOLEAN, recent : BOOLEAN, sent : BOOLEAN,
          status : {"pending", "suppressed", "sent", "failed"}]
Free == [pc |-> "idle", key |-> 1, ver |-> 0, seen |-> [value |-> 1, page |-> 1],
         event |-> 0]
MaxVersions == MaxChanges + 1

TypeOK ==
  /\ now \in 1 .. MaxRuns /\ lock \in {"none"} \cup Worker
  /\ sched \in [present : BOOLEAN, enabled : BOOLEAN, next : Slot, leased : BOOLEAN]
  /\ tick \in [Ticker -> [pc : {"idle", "claimed", "queued"}, slot : Slot]]
  /\ task \in [Key -> [status : {"none", "queued", "running", "succeeded", "dead_letter"},
                       attempts : 0 .. MaxAttempts]]
  /\ \A w \in Worker :
       /\ run[w].pc \in {"idle", "collect", "store", "commit", "match", "save", "send",
                         "knowledge", "deep", "finish"}
       /\ run[w].key \in Key /\ run[w].ver \in 0 .. MaxVersions /\ run[w].seen \in Content
       /\ run[w].event \in 0 .. Len(alerts)
  /\ world \in Content
  /\ versions \in Seq(Content) /\ Len(versions) <= MaxVersions
  /\ done \in [1 .. MaxVersions -> SUBSET Stage]
  /\ alerts \in Seq(Event)
  /\ changes \in 0 .. MaxChanges /\ faults \in 0 .. MaxFaults

Init ==
  /\ now = 1 /\ lock = "none"
  /\ sched = [present |-> TRUE, enabled |-> TRUE, next |-> 1, leased |-> FALSE]
  /\ tick = [t \in Ticker |-> [pc |-> "idle", slot |-> 1]]
  /\ task = [k \in Key |-> [status |-> "none", attempts |-> 0]]
  /\ run = [w \in Worker |-> Free]
  /\ world = [value |-> 1, page |-> 1] /\ versions = <<>>
  /\ done = [v \in 1 .. MaxVersions |-> {}]
  /\ alerts = <<>>
  /\ changes = 0 /\ faults = 0

(***************************************************************************)
(* The schedule and its slots.                                             *)
(***************************************************************************)
NextRun == now + 1

\* Bound: an interval brings one run, and so does a manual key.
MoreRuns == now + Cardinality({k \in Manual : task[k].status # "none"}) < MaxRuns

Enqueue(k) == task' = IF task[k].status = "none" THEN [task EXCEPT ![k].status = "queued"] ELSE task

\* claim_due: the lease is taken in the transaction that reads the row.
ClaimDue(t) ==
  /\ tick[t].pc = "idle"
  /\ sched.present /\ sched.enabled /\ sched.next <= now /\ ~sched.leased
  /\ sched' = [sched EXCEPT !.leased = TRUE]
  /\ tick' = [tick EXCEPT ![t] = [pc |-> "claimed", slot |-> sched.next]]
  /\ UNCHANGED <<now, task, versions, done, alerts, run, lock, world, changes, faults>>

QueueSlot(t) ==
  /\ tick[t].pc = "claimed"
  /\ Enqueue(tick[t].slot)
  /\ tick' = [tick EXCEPT ![t].pc = "queued"]
  /\ UNCHANGED <<now, sched, versions, done, alerts, run, lock, world, changes, faults>>

\* Mutant: the next run is set before the task is queued.
AdvanceFirst(t) ==
  /\ tick[t].pc \in {"claimed", "queued"}
  /\ sched' = [sched EXCEPT !.next = IF sched.present THEN NextRun ELSE @]
  /\ tick' = [tick EXCEPT ![t].pc = "idle", ![t].slot = 1]
  /\ UNCHANGED <<now, task, versions, done, alerts, run, lock, world, changes, faults>>

\* The slot is left behind only now.  The lease stays until the run ends.
Advance(t) ==
  /\ tick[t].pc = "queued"
  /\ sched' = [sched EXCEPT !.next = IF sched.present THEN NextRun ELSE @]
  /\ tick' = [tick EXCEPT ![t].pc = "idle", ![t].slot = 1]
  /\ UNCHANGED <<now, task, versions, done, alerts, run, lock, world, changes, faults>>

\* A lease runs out: at the end of an interval, or of a stall.
Pass ==
  /\ MoreRuns /\ now' = now + 1
  /\ sched' = [sched EXCEPT !.leased = FALSE]
  /\ alerts' = [i \in 1 .. Len(alerts) |-> [alerts[i] EXCEPT !.recent = FALSE]]
  /\ UNCHANGED <<task, versions, done, tick, run, lock, world, changes, faults>>

TickerStops(t) ==
  /\ tick[t].pc # "idle" /\ faults < MaxFaults
  /\ faults' = faults + 1
  /\ tick' = [tick EXCEPT ![t].pc = "idle", ![t].slot = 1]
  /\ UNCHANGED <<now, stored, run, lock, world, changes>>

RunNow(k) ==
  /\ sched.present /\ task[k].status = "none" /\ MoreRuns
  /\ Enqueue(k)
  /\ UNCHANGED <<now, sched, versions, done, alerts, tick, run, lock, world, changes, faults>>

\* An edit computes the next run anew and keeps the lease.
UpdateSchedule ==
  /\ sched.present /\ faults < MaxFaults
  /\ faults' = faults + 1
  /\ \/ sched' = [sched EXCEPT !.enabled = ~@, !.next = NextRun]
     \/ sched' = [sched EXCEPT !.present = FALSE]
  /\ UNCHANGED <<now, task, versions, done, alerts, tick, run, lock, world, changes>>

\* The source shows another value, or the same one on a page of a new date.
WorldChanges ==
  /\ changes < MaxChanges
  /\ changes' = changes + 1
  /\ \/ world' = [world EXCEPT !.value = 3 - @]
     \/ world' = [world EXCEPT !.page = 3 - @]
  /\ UNCHANGED <<now, stored, tick, run, lock, faults>>

(***************************************************************************)
(* A run.                                                                  *)
(***************************************************************************)
Over(w) == run' = [run EXCEPT ![w] = [Free EXCEPT !.pc = "finish", !.key = run[w].key]]
To(w, pc) == run' = [run EXCEPT ![w].pc = pc]
Unlocked(w) == IF lock = w THEN "none" ELSE lock
Done(w, s) == done' = [done EXCEPT ![run[w].ver] = @ \cup {s}]

\* The handler finds the schedule; the row says running and gets its next time.
Claim(w, k) ==
  /\ run[w].pc = "idle" /\ task[k].status = "queued" /\ sched.present
  /\ task' = [task EXCEPT ![k].status = "running", ![k].attempts = @ + 1]
  /\ sched' = [sched EXCEPT !.next = NextRun]
  /\ run' = [run EXCEPT ![w] = [Free EXCEPT !.pc = "collect", !.key = k]]
  /\ UNCHANGED <<now, versions, done, alerts, tick, lock, world, changes, faults>>

\* The process dies: the task waits for its next attempt, or has none left.
Abandon(w) ==
  /\ task' = [task EXCEPT ![run[w].key].status =
                IF task[run[w].key].attempts < MaxAttempts THEN "queued" ELSE "dead_letter"]
  /\ run' = [run EXCEPT ![w] = Free]
  /\ lock' = Unlocked(w)

WorkerStops(w) ==
  /\ run[w].pc # "idle" /\ faults < MaxFaults
  /\ faults' = faults + 1
  /\ Abandon(w)
  /\ UNCHANGED <<now, sched, versions, done, alerts, tick, world, changes>>

\* The schedule is gone and the handler raises, until no attempt is left.
Gone(k) ==
  /\ task[k].status = "queued" /\ ~sched.present
  /\ task' = [task EXCEPT ![k].attempts = @ + 1,
               ![k].status = IF task[k].attempts + 1 < MaxAttempts THEN @ ELSE "dead_letter"]
  /\ UNCHANGED <<now, sched, versions, done, alerts, tick, run, lock, world, changes, faults>>

\* The collector searches.
Collect(w) ==
  /\ run[w].pc = "collect"
  /\ run' = [run EXCEPT ![w].pc = "store", ![w].seen = world]
  /\ UNCHANGED <<now, stored, tick, lock, world, changes, faults>>

\* What raises: the collection, the ingest (which degrades to no change), the
\* load of the changed items, the deep analysis.
Fails(w) ==
  /\ run[w].pc \in {"collect", "store", "knowledge", "deep"} /\ faults < MaxFaults
  /\ faults' = faults + 1
  /\ Over(w)
  /\ UNCHANGED <<now, stored, tick, lock, world, changes>>

\* The upsert of the source opens the transaction the item is read in.
Store(w) ==
  /\ run[w].pc = "store" /\ lock = "none"
  /\ lock' = w
  /\ run' = [run EXCEPT ![w].pc = "commit", ![w].ver = Len(versions)]
  /\ UNCHANGED <<now, stored, tick, world, changes, faults>>

Current(w) == IF run[w].ver = 0 THEN {} ELSE {versions[run[w].ver]}
Material(v) == v > 1 => versions[v].value # versions[v - 1].value

\* The same content only moves last_seen_at.
Unchanged(w) ==
  /\ run[w].pc = "commit" /\ run[w].seen \in Current(w)
  /\ lock' = Unlocked(w)
  /\ Over(w)
  /\ UNCHANGED <<now, stored, tick, world, changes, faults>>

NewVersion(w) ==
  /\ run[w].pc = "commit" /\ run[w].seen \notin Current(w)
  /\ Len(versions) < MaxVersions
  /\ versions' = Append(versions, run[w].seen)
  /\ lock' = Unlocked(w)
  /\ run' = [run EXCEPT ![w].pc = "match", ![w].ver = Len(versions) + 1]
  /\ UNCHANGED <<now, sched, task, done, alerts, tick, world, changes, faults>>

(***************************************************************************)
(* Alerts.  The rule asks for major changes.                               *)
(***************************************************************************)
FindRecent(w) ==
  \E i \in 1 .. Len(alerts) :
     alerts[i].recent /\ alerts[i].of = run[w].seen /\ alerts[i].new = (run[w].ver = 1)

\* AlertEngine.evaluate up to the read of find_recent.
Match(w) ==
  /\ run[w].pc = "match"
  /\ IF Material(run[w].ver) /\ ~FindRecent(w) THEN To(w, "save") /\ UNCHANGED done
     ELSE To(w, "knowledge") /\ Done(w, "alerted")
  /\ UNCHANGED <<now, sched, task, versions, alerts, tick, lock, world, changes, faults>>

\* In quiet hours the event is kept and never delivered.  Which rule matched,
\* and what it asks for, is left open.
SaveEvent(w, mode, status) ==
  /\ run[w].pc = "save"
  /\ alerts' = Append(alerts, [of |-> run[w].seen, new |-> run[w].ver = 1, recent |-> TRUE,
                                sent |-> FALSE, status |-> status])
  /\ Done(w, "alerted")
  /\ run' = IF mode = "immediate" /\ status = "pending"
            THEN [run EXCEPT ![w].event = Len(alerts) + 1, ![w].pc = "send"]
            ELSE [run EXCEPT ![w].pc = "knowledge"]
  /\ UNCHANGED <<now, sched, task, versions, tick, lock, world, changes, faults>>

\* A channel takes the message, or none does; the status follows.
Delivered(i, ok) ==
  [alerts EXCEPT ![i].sent = @ \/ ok, ![i].status = IF ok THEN "sent" ELSE "failed"]

Send(w, ok) ==
  /\ run[w].pc = "send"
  /\ alerts' = Delivered(run[w].event, ok)
  /\ run' = [run EXCEPT ![w].event = 0, ![w].pc = "knowledge"]
  /\ UNCHANGED <<now, sched, task, versions, done, tick, lock, world, changes, faults>>

\* Mutant: events of quiet hours are listed too.
PendingAll == {i \in 1 .. Len(alerts) : alerts[i].status \in {"pending", "suppressed"}}

Pending == {i \in 1 .. Len(alerts) : alerts[i].status = "pending"}

\* dispatch_pending_alerts delivers what is pending, of digest rules too.
DispatchPending(i, ok) ==
  /\ i \in Pending
  /\ alerts' = Delivered(i, ok)
  /\ UNCHANGED <<now, sched, task, versions, done, tick, run, lock, world, changes, faults>>

(***************************************************************************)
(* What follows a material change.                                         *)
(***************************************************************************)
\* A job of the same content exists already when the fact went back to it.
QueueKnowledge(w) ==
  /\ run[w].pc = "knowledge" /\ Material(run[w].ver)
  /\ Done(w, "queued")
  /\ To(w, "deep")
  /\ UNCHANGED <<now, sched, task, versions, alerts, tick, lock, world, changes, faults>>

\* Mutant: a change of confidence only is all that is looked at.
SkipMaterial(w) ==
  /\ run[w].pc = "knowledge"
  /\ Over(w)
  /\ UNCHANGED <<now, stored, tick, lock, world, changes, faults>>

\* Alerts that raise cost the run nothing, and neither does one import.
Degrades(w) ==
  /\ faults < MaxFaults
  /\ faults' = faults + 1
  /\ \/ run[w].pc \in {"match", "save", "send"} /\ To(w, "knowledge")
     \/ run[w].pc = "knowledge" /\ Material(run[w].ver) /\ To(w, "deep")
  /\ UNCHANGED <<now, stored, tick, lock, world, changes>>

\* A change of the page alone ends the run as skipped.
Skip(w) ==
  /\ run[w].pc = "knowledge" /\ ~Material(run[w].ver)
  /\ Over(w)
  /\ UNCHANGED <<now, stored, tick, lock, world, changes, faults>>

DeepAnalysis(w) ==
  /\ run[w].pc = "deep"
  /\ Done(w, "analysed")
  /\ Over(w)
  /\ UNCHANGED <<now, sched, task, versions, alerts, tick, lock, world, changes, faults>>

\* The run is recorded and the lease given back, whoever took it.
Finish(w) ==
  /\ run[w].pc = "finish"
  /\ sched' = [sched EXCEPT !.next = IF sched.present THEN NextRun ELSE @, !.leased = FALSE]
  /\ task' = [task EXCEPT ![run[w].key].status = "succeeded"]
  /\ run' = [run EXCEPT ![w] = Free]
  /\ UNCHANGED <<now, versions, done, alerts, tick, lock, world, changes, faults>>

-----------------------------------------------------------------------------
Step(w) ==
  \/ \E k \in Key : Claim(w, k)
  \/ Collect(w) \/ Store(w) \/ Unchanged(w) \/ NewVersion(w)
  \/ Match(w) \/ \E mode \in {"immediate", "digest"}, s \in {"pending", "suppressed"} : SaveEvent(w, mode, s)
  \/ \E ok \in BOOLEAN : Send(w, ok)
  \/ QueueKnowledge(w) \/ Skip(w) \/ DeepAnalysis(w) \/ Finish(w)

Next ==
  \/ \E t \in Ticker : ClaimDue(t) \/ QueueSlot(t) \/ Advance(t) \/ TickerStops(t)
  \/ Pass \/ UpdateSchedule \/ WorldChanges
  \/ \E k \in Manual : RunNow(k)
  \/ \E k \in Key : Gone(k)
  \/ \E w \in Worker : Step(w) \/ WorkerStops(w) \/ Fails(w) \/ Degrades(w)
  \/ \E i \in 1 .. Len(alerts), ok \in BOOLEAN : DispatchPending(i, ok)

Spec == Init /\ [][Next]_vars

(***************************************************************************)
(* Properties.                                                             *)
(***************************************************************************)
\* Each change is handled once.  A version is stored only when the content differs
\* from the one before it, whoever collects at the same time ("Upsert points and
\* create a new version only when content changes"); overlapping runs, retries and
\* dispatches raise at most one event for each material change; and while nothing
\* fails or stops, a material change whose run is over was alerted on, queued for
\* the knowledge base and analysed.
HandledOnce ==
  /\ TypeOK
  /\ \A v \in 2 .. Len(versions) : versions[v] # versions[v - 1]
  /\ Len(alerts) <= Cardinality({v \in 1 .. Len(versions) : Material(v)})
  /\ faults = 0 =>
       \A v \in 1 .. Len(versions) :
         (Material(v) /\ \A w \in Worker : run[w].ver # v) => done[v] = Stage

\* An event of quiet hours reaches no channel, by either way of delivery.
SuppressedIsSilent ==
  [][\A i \in 1 .. Len(alerts) : alerts[i].status = "suppressed" => ~alerts'[i].sent]_vars

\* A scheduler leaves a slot behind only with the task of the slot in the
\* queue, so the death of its process loses no run.
SlotIsQueued ==
  [][\A t \in Ticker : (tick[t].pc # "idle" /\ tick'[t].pc = "idle" /\ faults' = faults)
        => task[tick[t].slot].status # "none"]_vars
=============================================================================
