-------------------------- MODULE KnowledgeSources --------------------------
(***************************************************************************)
(* One source connector of the knowledge base (competition/                *)
(* knowledge_sources.py and the source tasks of competition_router.py):    *)
(* scheduled and manual syncs, change detection per entry, cooldown after  *)
(* a failed fetch, and the tasks that fetch the pages of a sitemap.        *)
(*                                                                         *)
(* A sync reads the connector row once and works with that copy.  An entry *)
(* with a text of its own is registered by the sync, a bare link is left   *)
(* to a task that fetches the page.  Each repository call commits, so a    *)
(* sync may stop between any two of them; its task is then queued again    *)
(* until its attempts are used (TaskQueue).  last_status, the errors and   *)
(* the failure count, which sets the length of a cooldown, are left out:   *)
(* no decision is made on them.                                            *)
(***************************************************************************)
EXTENDS Integers, FiniteSets

CONSTANTS
  Worker,      \* task workers
  Text, Link,  \* entries of the source with and without a text of their own
  Manual,      \* idempotency keys of manual syncs: a new one for each
  MaxRev,      \* bound on the revisions of an entry
  MaxAttempts, \* max_attempts of the tasks (3 in the code)
  MaxFaults    \* bound on fetches that fail, stops, and edits of the connector

ASSUME BoundAssumption ==
  /\ MaxRev \in Nat \ {0} /\ MaxAttempts \in Nat \ {0}
  /\ MaxFaults \in Nat
ASSUME EntryAssumption == Text \cap Link = {}

VARIABLES
  web,    \* web[e]: the revision of entry e that the site shows
  src,    \* the connector's row
  due,    \* last_checked_at lies an interval back
  items,  \* knowledge_source_items: the hash stored for each entry
  docs,   \* document versions registered from the source
  ingest, \* those whose ingestion job has a background task
  task,   \* the source's background tasks, by idempotency key
  ask,    \* who is between find_active and enqueue
  run,    \* run[w]: what worker w is doing
  closed, \* sync runs with finished_at, by task and attempt
  faults,
  overlap \* history: two syncs of the source were under way together

vars == <<web, src, due, items, docs, ingest, task, ask, run, closed, faults, overlap>>

Entry == Text \cup Link
Sync == {"due"} \cup Manual
Rev == 1 .. MaxRev
NoHash == [kind |-> "none", rev |-> 0]
Hash == {NoHash} \cup [kind : {"item", "page"}, rev : Rev]
DocRev == Entry \X Rev
Snapshot == [Entry -> Rev]
Nothing == [e \in Entry |-> 0]  \* content_hash NULL
Row == [present : BOOLEAN, enabled : BOOLEAN, hash : Snapshot \cup {Nothing},
        cooling : BOOLEAN]
NewRow == [present |-> TRUE, enabled |-> TRUE, hash |-> Nothing,
           cooling |-> FALSE]
Free == [pc |-> "idle", key |-> "due", row |-> NewRow, snap |-> Nothing, todo |-> {},
         at |-> {}, new |-> {}, links |-> {}]

TypeOK ==
  /\ web \in Snapshot /\ src \in Row /\ due \in BOOLEAN
  /\ items \in [Entry -> Hash]
  /\ docs \subseteq DocRev /\ ingest \subseteq docs
  /\ task \in [Sync \cup Link -> [status : {"none", "queued", "running", "completed", "failed"},
                                  attempts : 0 .. MaxAttempts]]
  /\ ask \in [{"scheduler", "user"} -> BOOLEAN]
  /\ \A w \in Worker :
       /\ run[w].pc \in {"idle", "begin", "begun", "fetch", "items", "upsert", "finish", "queue",
                         "page", "save"}
       /\ run[w].key \in Sync \cup Link /\ run[w].row \in Row
       /\ run[w].snap \in Snapshot \cup {Nothing} /\ run[w].todo \subseteq Entry
       /\ run[w].at \subseteq Entry
       /\ run[w].new \subseteq docs /\ run[w].links \subseteq Link
  /\ closed \subseteq Sync \X (1 .. MaxAttempts)
  /\ faults \in 0 .. MaxFaults /\ overlap \in BOOLEAN

Init ==
  /\ web = [e \in Entry |-> 1] /\ src = NewRow /\ due = TRUE
  /\ items = [e \in Entry |-> NoHash]
  /\ docs = {} /\ ingest = {}
  /\ task = [k \in Sync \cup Link |-> [status |-> "none", attempts |-> 0]]
  /\ ask = [r \in {"scheduler", "user"} |-> FALSE]
  /\ run = [w \in Worker |-> Free]
  /\ closed = {} /\ faults = 0 /\ overlap = FALSE

(***************************************************************************)
(* Repository calls.                                                       *)
(***************************************************************************)
\* TaskRepository.enqueue: a key that is known gives its old task back.
Enqueued(k) ==
  IF task[k].status = "none" THEN [task EXCEPT ![k].status = "queued"] ELSE task

FindActive == {k \in Sync : task[k].status \in {"queued", "running"}}

\* update_result writes to the row if it is there.
UpdateResult(row) == src' = IF src.present THEN row ELSE src

\* Sources list_due returns.
ListDue == src.present /\ src.enabled /\ ~src.cooling /\ due

Upsert(e, h) == items' = [items EXCEPT ![e] = h]

\* register_bytes: content that is known makes no new version and no job.
Registered(r, d) == [r EXCEPT !.new = IF d \in docs THEN @ ELSE @ \cup {d}]

(***************************************************************************)
(* The connector's endpoints, the scheduler and the site.                  *)
(***************************************************************************)
\* First half of _queue_knowledge_source_sync: nobody syncs the source yet.
Ask(r) ==
  /\ ~ask[r] /\ FindActive = {}
  /\ r = "scheduler" => ListDue
  /\ src.present
  /\ ask' = [ask EXCEPT ![r] = TRUE]
  /\ UNCHANGED <<web, src, due, items, docs, ingest, task, run, closed, faults, overlap>>

\* The retry endpoint clears the cooldown first.
Retry ==
  /\ src.present /\ ~ask["user"]
  /\ src' = [src EXCEPT !.cooling = FALSE]
  /\ ask' = [ask EXCEPT !["user"] = FindActive = {}]
  /\ UNCHANGED <<web, due, items, docs, ingest, task, run, closed, faults, overlap>>

\* The other half.  The scheduler's key is always the same one.
Queue(r) ==
  /\ ask[r]
  /\ ask' = [ask EXCEPT ![r] = FALSE]
  /\ \/ r = "scheduler" /\ task' = Enqueued("due")
     \/ r = "user" /\ \E k \in Manual : task[k].status = "none" /\ task' = Enqueued(k)
  /\ UNCHANGED <<web, src, due, items, docs, ingest, run, closed, faults, overlap>>

\* Another address, product or dimension resets what is known of the site.
ResetIdentity(row) == [row EXCEPT !.hash = Nothing, !.cooling = FALSE]

UpdateConfig ==
  /\ src.present /\ faults < MaxFaults
  /\ faults' = faults + 1
  /\ \/ src' = [src EXCEPT !.enabled = ~@]
     \/ src' = ResetIdentity(src)
  /\ UNCHANGED <<web, due, items, docs, ingest, task, ask, run, closed, overlap>>

\* The items go with the connector.
Delete ==
  /\ src.present /\ faults < MaxFaults
  /\ faults' = faults + 1
  /\ src' = [NewRow EXCEPT !.present = FALSE]
  /\ items' = [e \in Entry |-> NoHash] /\ closed' = {}
  /\ UNCHANGED <<web, due, docs, ingest, task, ask, run, overlap>>

Publish(e) ==
  /\ web[e] < MaxRev
  /\ web' = [web EXCEPT ![e] = @ + 1]
  /\ UNCHANGED <<src, due, items, docs, ingest, task, ask, run, closed, faults, overlap>>

\* The interval passes, or the cooldown.
Tick ==
  /\ \/ ~due /\ due' = TRUE /\ UNCHANGED src
     \/ src.cooling /\ src' = [src EXCEPT !.cooling = FALSE] /\ UNCHANGED due
  /\ UNCHANGED <<web, items, docs, ingest, task, ask, run, closed, faults, overlap>>

(***************************************************************************)
(* A worker.                                                               *)
(***************************************************************************)
Claim(w, k) ==
  /\ run[w].pc = "idle" /\ task[k].status = "queued"
  /\ task' = [task EXCEPT ![k].status = "running", ![k].attempts = @ + 1]
  /\ run' = [run EXCEPT ![w] = [Free EXCEPT !.pc = IF k \in Sync THEN "begin" ELSE "page",
                                            !.key = k]]
  /\ overlap' = (overlap \/ (k \in Sync /\ \E v \in Worker : run[v].pc # "idle" /\ run[v].key \in Sync))
  /\ UNCHANGED <<web, src, due, items, docs, ingest, ask, closed, faults>>

\* A handler that raises, or a worker that dies: the task waits for its next
\* attempt, or has none left.
Abandon(w) ==
  /\ task' = [task EXCEPT ![run[w].key].status = IF @ # "running" THEN @
                ELSE IF task[run[w].key].attempts < MaxAttempts THEN "queued" ELSE "failed"]
  /\ run' = [run EXCEPT ![w] = Free]

Stop(w) ==
  /\ run[w].pc # "idle" /\ faults < MaxFaults
  /\ faults' = faults + 1
  /\ Abandon(w)
  /\ UNCHANGED <<web, src, due, items, docs, ingest, ask, closed, overlap>>

\* Nothing can be read or written of a connector that is gone.
Gone(w) ==
  /\ ~src.present /\ run[w].pc \in {"begin", "upsert", "page", "save"}
  /\ Abandon(w)
  /\ UNCHANGED <<web, src, due, items, docs, ingest, ask, closed, faults, overlap>>

To(w, pc) == run' = [run EXCEPT ![w].pc = pc]

\* The row is read and the sync run opened.
Begin(w) ==
  /\ run[w].pc = "begin" /\ src.present
  /\ run' = [run EXCEPT ![w].pc = "begun", ![w].row = src]
  /\ UNCHANGED <<web, src, due, items, docs, ingest, task, ask, closed, faults, overlap>>

Disabled(w) ==
  /\ run[w].pc = "begun" /\ ~run[w].row.enabled
  /\ due' = FALSE /\ To(w, "finish")
  /\ UNCHANGED <<web, src, items, docs, ingest, task, ask, closed, faults, overlap>>

Cooldown(w) ==
  /\ run[w].pc = "begun" /\ run[w].row.enabled /\ run[w].row.cooling
  /\ To(w, "finish")
  /\ UNCHANGED <<web, src, due, items, docs, ingest, task, ask, closed, faults, overlap>>

\* Mutant: the cooldown of the row is not looked at.
CheckAnyway(w) ==
  /\ run[w].pc = "begun" /\ run[w].row.enabled
  /\ due' = FALSE /\ To(w, "fetch")
  /\ UNCHANGED <<web, src, items, docs, ingest, task, ask, closed, faults, overlap>>

Check(w) ==
  /\ run[w].pc = "begun" /\ run[w].row.enabled /\ ~run[w].row.cooling
  /\ due' = FALSE /\ To(w, "fetch")
  /\ UNCHANGED <<web, src, items, docs, ingest, task, ask, closed, faults, overlap>>

\* The fetch fails: a cooldown.
FetchFails(w) ==
  /\ run[w].pc = "fetch" /\ faults < MaxFaults
  /\ faults' = faults + 1 /\ due' = FALSE
  /\ UpdateResult([src EXCEPT !.cooling = TRUE])
  /\ run' = [run EXCEPT ![w].pc = "finish", ![w].row = NewRow]
  /\ UNCHANGED <<web, items, docs, ingest, task, ask, closed, overlap>>

\* The site says 304, which leaves a cooldown set meanwhile, or sends what the
\* connector has.
SameContent(w) ==
  /\ run[w].pc = "fetch" /\ run[w].row.hash = web /\ due' = FALSE
  /\ UNCHANGED src \/ UpdateResult([src EXCEPT !.cooling = FALSE])
  /\ run' = [run EXCEPT ![w].pc = "finish", ![w].row = NewRow]
  /\ UNCHANGED <<web, items, docs, ingest, task, ask, closed, faults, overlap>>

\* Mutant: the connector's hash is stored before the entries are.
NewContentEarly(w) ==
  /\ run[w].pc = "fetch" /\ run[w].row.hash # web
  /\ run' = [run EXCEPT ![w].pc = "items", ![w].row = NewRow, ![w].snap = web,
                        ![w].todo = Entry]
  /\ UpdateResult([src EXCEPT !.hash = web])
  /\ UNCHANGED <<web, due, items, docs, ingest, task, ask, closed, faults, overlap>>

NewContent(w) ==
  /\ run[w].pc = "fetch" /\ run[w].row.hash # web
  /\ run' = [run EXCEPT ![w].pc = "items", ![w].row = NewRow, ![w].snap = web,
                        ![w].todo = Entry]
  /\ UNCHANGED <<web, src, due, items, docs, ingest, task, ask, closed, faults, overlap>>

ItemHash(w, e) == [kind |-> "item", rev |-> run[w].snap[e]]

Changed(w, e) == items[e] # ItemHash(w, e)

\* A changed text is registered, and the worker goes on to store it.
RegisterItem(w, e) ==
  /\ run[w].pc = "items" /\ e \in run[w].todo \cap Text /\ Changed(w, e)
  /\ docs' = docs \cup {<<e, run[w].snap[e]>>}
  /\ run' = [run EXCEPT ![w] = [Registered(@, <<e, run[w].snap[e]>>)
                                 EXCEPT !.pc = "upsert", !.at = {e}]]
  /\ UNCHANGED <<web, src, due, items, ingest, task, ask, closed, faults, overlap>>

\* What needs no registration: an entry as it was, or a new link.
ListItem(w, e) ==
  /\ run[w].pc = "items" /\ e \in run[w].todo
  /\ e \in Link \/ ~Changed(w, e)
  /\ run' = [run EXCEPT ![w].pc = "upsert", ![w].at = {e},
                        ![w].links = IF Changed(w, e) THEN @ \cup {e} ELSE @]
  /\ UNCHANGED <<web, src, due, items, docs, ingest, task, ask, closed, faults, overlap>>

StoreItem(w, e) ==
  /\ run[w].pc = "upsert" /\ e \in run[w].at /\ src.present
  /\ Upsert(e, ItemHash(w, e))
  /\ run' = [run EXCEPT ![w].pc = "items", ![w].todo = @ \ {e}, ![w].at = {}]
  /\ UNCHANGED <<web, src, due, docs, ingest, task, ask, closed, faults, overlap>>

\* Every entry is stored: the connector's row takes the hash.
Parent(w) ==
  /\ run[w].pc = "items" /\ run[w].todo = {}
  /\ UpdateResult([src EXCEPT !.hash = run[w].snap, !.cooling = FALSE]) /\ due' = FALSE
  /\ run' = [run EXCEPT ![w].pc = "finish", ![w].snap = Nothing]
  /\ UNCHANGED <<web, items, docs, ingest, task, ask, closed, faults, overlap>>

FinishSyncRun(w) ==
  /\ run[w].pc = "finish"
  /\ closed' = closed \cup {<<run[w].key, task[run[w].key].attempts>>}
  /\ To(w, "queue")
  /\ UNCHANGED <<web, src, due, items, docs, ingest, task, ask, faults, overlap>>

QueueJob(w) ==
  /\ run[w].pc = "queue"
  /\ \E d \in run[w].new :
       /\ ingest' = ingest \cup {d}
       /\ run' = [run EXCEPT ![w].new = @ \ {d}]
  /\ UNCHANGED <<web, src, due, items, docs, task, ask, closed, faults, overlap>>

\* The key names the source and the entry, whatever its revision.
QueueLink(w) ==
  /\ run[w].pc = "queue" /\ run[w].new = {}
  /\ \E e \in run[w].links :
       /\ task' = Enqueued(e)
       /\ run' = [run EXCEPT ![w].links = @ \ {e}]
  /\ UNCHANGED <<web, src, due, items, docs, ingest, ask, closed, faults, overlap>>

Complete(w) ==
  /\ run[w].pc = "queue" /\ run[w].new = {} /\ run[w].links = {}
  /\ task' = [task EXCEPT ![run[w].key].status = "completed"]
  /\ run' = [run EXCEPT ![w] = Free]
  /\ UNCHANGED <<web, src, due, items, docs, ingest, ask, closed, faults, overlap>>

(***************************************************************************)
(* A task that fetches the page behind a link.  Its item was stored before *)
(* the task was queued, and goes only with the connector.                  *)
(***************************************************************************)
\* The site says 304 to the headers of its connector.
PageUnchanged(w) ==
  /\ run[w].pc = "page" /\ src.present /\ src.hash # Nothing
  /\ run' = [run EXCEPT ![w].pc = "queue"]
  /\ UNCHANGED <<web, src, due, items, docs, ingest, task, ask, closed, faults, overlap>>

RegisterPage(w) ==
  LET e == run[w].key d == <<e, web[e]>> IN
  /\ run[w].pc = "page" /\ src.present /\ items[e] # NoHash
  /\ docs' = docs \cup {d}
  /\ run' = [run EXCEPT ![w] = [Registered(@, d) EXCEPT !.pc = "save", !.snap = web]]
  /\ UNCHANGED <<web, src, due, items, ingest, task, ask, closed, faults, overlap>>

\* The item takes the hash of the page, which no later list of the site has.
SavePage(w) ==
  LET e == run[w].key IN
  /\ run[w].pc = "save" /\ src.present
  /\ Upsert(e, [kind |-> "page", rev |-> run[w].snap[e]])
  /\ run' = [run EXCEPT ![w].pc = "queue", ![w].snap = Nothing]
  /\ UNCHANGED <<web, src, due, docs, ingest, task, ask, closed, faults, overlap>>

-----------------------------------------------------------------------------
Step(w) ==
  \/ \E k \in Sync \cup Link : Claim(w, k)
  \/ Gone(w) \/ Begin(w) \/ Disabled(w) \/ Cooldown(w) \/ Check(w)
  \/ SameContent(w) \/ NewContent(w)
  \/ \E e \in Entry : RegisterItem(w, e) \/ ListItem(w, e) \/ StoreItem(w, e)
  \/ Parent(w) \/ FinishSyncRun(w) \/ QueueJob(w) \/ QueueLink(w) \/ Complete(w)
  \/ PageUnchanged(w) \/ RegisterPage(w) \/ SavePage(w)

Next ==
  \/ \E r \in {"scheduler", "user"} : Ask(r) \/ Queue(r)
  \/ Retry \/ UpdateConfig \/ Delete \/ Tick
  \/ \E e \in Entry : Publish(e)
  \/ \E w \in Worker : Step(w) \/ Stop(w) \/ FetchFails(w)

Spec == Init /\ [][Next]_vars

\* The scheduler polls, and the workers of the queue go on with what they do.
FairSpec == Spec /\ \A w \in Worker : WF_vars(Step(w))
                 /\ WF_vars(Ask("scheduler")) /\ WF_vars(Queue("scheduler"))

(***************************************************************************)
(* Properties.                                                             *)
(***************************************************************************)
\* What a connector offers is not lost.  While syncs do not overlap, its hash
\* never speaks for a revision that its texts have not reached: the next sync of
\* that content looks at no entry (the comparison of content_hash in sync_source).
\* A text is stored as seen only when its document is registered, so that a sync
\* which is stopped in the middle registers it at its next attempt; and unless a
\* sync failed or was stopped, a registered version has the task of its job or its
\* worker still has to queue it.
NothingIsLost ==
  /\ TypeOK
  /\ ~overlap => \A e \in Text : items[e].rev >= src.hash[e]
  /\ \A e \in Text : items[e] # NoHash => <<e, items[e].rev>> \in docs
  /\ faults = 0 => \A d \in docs \ ingest : \E w \in Worker : d \in run[w].new

\* No fetch begins in a cooldown that the sync could see.
CooldownHolds ==
  [][\A w \in Worker : (run[w].pc = "begun" /\ run'[w].pc = "fetch") => ~src.cooling \/ overlap]_vars

\* A source that is due is looked at again (list_due: "Return enabled sources
\* whose interval has elapsed and cooldown expired").
DueIsSynced == ListDue ~> ~ListDue
=============================================================================
