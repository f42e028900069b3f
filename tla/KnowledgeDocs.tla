--------------------------- MODULE KnowledgeDocs ---------------------------
(***************************************************************************)
(* One knowledge document and its versions (competition/                   *)
(* knowledge_service.py, knowledge_repo.py, knowledge_index.py): uploads,  *)
(* ingestion, reindex and rebuild jobs, reviews, deletion and searches.    *)
(*                                                                         *)
(* Four stores hold a version: the original file, the object store, the    *)
(* chunk rows of SQLite and the points of the vector index.  No two of     *)
(* them change in one transaction, so each write below is a step of its    *)
(* own.  A document is found by its source key; the key is unique per      *)
(* user even among deleted rows, so after a deletion the INSERT of a new   *)
(* upload raises and changes nothing here.  The background task of a job   *)
(* is queued again when its worker dies (TaskQueue says how).              *)
(***************************************************************************)
EXTENDS Integers, Sequences, FiniteSets

CONSTANTS
  Worker,       \* task workers: the API process's and any standalone one
  MaxVersions,  \* bound on the versions of the document
  MaxJobs,      \* bound on the jobs
  MaxReviews,   \* bound on reviews
  MaxFaults     \* bound on failing parsers, indexes, object stores and exits

ASSUME BoundAssumption == /\ MaxVersions \in Nat \ {0} /\ MaxJobs \in Nat
                          /\ MaxReviews \in Nat /\ MaxFaults \in Nat

VARIABLES
  doc,      \* row of knowledge_documents
  ver,      \* rows of knowledge_document_versions, by version_no
  files,    \* versions whose original file is on disk
  rows,     \* versions with rows in knowledge_chunks
  active,   \* the version whose rows have active = 1, 0: none
  points,   \* points[v]: the points of version v in the index
  jobs,     \* knowledge_ingestion_jobs with their background tasks
  run,      \* run[w]: the job worker w is in
  api,      \* the review or deletion in progress
  search,   \* the search in progress
  cache,    \* result cache entry of the one query
  reviews, faults,
  stale     \* history: an index write was lost or made from an old read

stored == <<doc, ver, files, rows, active>>
docsVars == <<stored, points, jobs, run, api, search, cache, reviews, faults, stale>>

Version == 1 .. MaxVersions
Content == Version  \* a content is named by the first version that has it
Ready == {"indexed", "partial"}
Open == {"queued", "running"}
Idle == [pc |-> "idle", job |-> 0, v |-> 0]
NoSearch == [pc |-> "idle", hits |-> {}]
Empty == [full |-> FALSE, hits |-> {}]

DocsTypeOK ==
  /\ doc \in [status : {"none", "queued", "processing", "failed", "deleted"} \cup Ready,
              cur : 0 .. MaxVersions, hash : 0 .. MaxVersions,
              approval : {"approved", "pending", "rejected"}, deleted : BOOLEAN]
  /\ ver \in Seq([hash : Version, status : {"queued", "processing", "failed"} \cup Ready])
  /\ Len(ver) <= MaxVersions
  /\ files \subseteq Version /\ rows \subseteq Version
  /\ active \in {0} \cup rows
  /\ points \in [Version -> {"absent", "active", "inactive"}]
  /\ jobs \in Seq([op : {"ingest", "reindex", "rebuild"}, v : 0 .. MaxVersions,
                   status : Open \cup {"completed", "failed"}, task : Open \cup {"done"}])
  /\ run \in [Worker -> [pc : {"idle", "parse", "index", "save", "finish", "drop", "fill", "invalidate"},
                         job : 0 .. MaxJobs, v : 0 .. MaxVersions]]
  /\ api \in [pc : {"idle", "delete", "approve", "reject"}, v : 0 .. MaxVersions]
  /\ search \in [pc : {"idle", "recalled", "built"}, hits : SUBSET Version]
  /\ cache \in [full : BOOLEAN, hits : SUBSET Version]
  /\ reviews \in 0 .. MaxReviews /\ faults \in 0 .. MaxFaults
  /\ stale \in BOOLEAN

DocsInit ==
  /\ doc = [status |-> "none", cur |-> 0, hash |-> 0,
            approval |-> "approved", deleted |-> FALSE]
  /\ ver = <<>> /\ files = {} /\ rows = {} /\ active = 0
  /\ points = [v \in Version |-> "absent"]
  /\ jobs = <<>>
  /\ run = [w \in Worker |-> Idle]
  /\ api = [pc |-> "idle", v |-> 0]
  /\ search = NoSearch /\ cache = Empty
  /\ reviews = 0 /\ faults = 0 /\ stale = FALSE

(***************************************************************************)
(* The repository's writes.                                                *)
(***************************************************************************)
CreateJob(op, v, status) ==
  /\ Len(jobs) < MaxJobs
  /\ jobs' = Append(jobs, [op |-> op, v |-> v, status |-> status,
                           task |-> IF status = "queued" THEN "queued" ELSE "done"])

NewVersion(c) == ver' = Append(ver, [hash |-> c, status |-> "queued"])

\* The row of a new upload; its approval is reset.
Uploaded(a) == doc' = [doc EXCEPT !.status = "queued", !.approval = a]

SoftDeleted == [doc EXCEPT !.status = "deleted", !.deleted = TRUE]

JobStatus(j, s) == [jobs EXCEPT ![j].status = s]

UpdateVersion(v, s) == ver' = [ver EXCEPT ![v].status = s]

\* The rows of every version lose active; those of v are written anew.
ReplaceChunks(v) == rows' = rows \cup {v} /\ active' = v

\* Mutant: the join forgets deleted_at.
VisibleRowsDeleted == IF doc.approval = "approved" THEN {active} \cap rows ELSE {}

\* Rows a search may return: of the active version of an approved document
\* that is not deleted.
VisibleRows == IF doc.approval = "approved" /\ ~doc.deleted THEN {active} \cap rows ELSE {}

\* Mutant: the points of other versions stay active.
DeactivatedNot(v) == [points EXCEPT ![v] = "active"]

\* Points after KnowledgeIndex.replace_document: v is current, and what was
\* active of other versions no longer is.
Deactivated(v) ==
  [u \in Version |-> IF u = v THEN "active"
                     ELSE IF points[u] = "active" THEN "inactive" ELSE points[u]]

DeletedPoints == [u \in Version |-> "absent"]

Fault == faults < MaxFaults /\ faults' = faults + 1
NoFault == UNCHANGED faults

(***************************************************************************)
(* Requests.                                                               *)
(***************************************************************************)
Unchanged(c) == doc.hash = c /\ doc.status \in Ready

\* register_bytes, under the registration lock, with the job's task.  A known
\* content of a ready document only leaves a completed job; anything else is
\* a new version.  The approval of the whole document is reset; that brings
\* no points back which a rejection removed.
Register(c) ==
  /\ ~doc.deleted
  /\ c = Len(ver) + 1 \/ \E v \in DOMAIN ver : ver[v].hash = c
  /\ IF Unchanged(c)
     THEN /\ CreateJob("ingest", 0, "completed")
          /\ UNCHANGED <<doc, ver, files, stale>>
     ELSE /\ Len(ver) < MaxVersions
          /\ \E a \in {"approved", "pending"} : Uploaded(a)
          /\ stale' = (stale \/ doc.approval = "rejected")
          /\ NewVersion(c)
          /\ files' = files \cup {Len(ver) + 1}
          /\ CreateJob("ingest", Len(ver) + 1, "queued")
  /\ UNCHANGED <<rows, active, points, run, api, search, cache, reviews, faults>>

QueueReindex ==
  /\ ~doc.deleted /\ doc.cur # 0
  /\ CreateJob("reindex", doc.cur, "queued")
  /\ UNCHANGED <<stored, points, run, api, search, cache, reviews, faults, stale>>

QueueRebuild ==
  /\ CreateJob("rebuild", 0, "queued")
  /\ UNCHANGED <<stored, points, run, api, search, cache, reviews, faults, stale>>

\* retry_job copies a failed job; get_document refuses deleted documents.
RetryJob(j) ==
  /\ jobs[j].status = "failed"
  /\ jobs[j].op # "rebuild" => ~doc.deleted
  /\ CreateJob(jobs[j].op, jobs[j].v, "queued")
  /\ UNCHANGED <<stored, points, run, api, search, cache, reviews, faults, stale>>

\* delete_document, and purge_expired at the end of the retention: the row
\* first ...
DeleteRow ==
  /\ api.pc = "idle" /\ doc.status # "none" /\ ~doc.deleted
  /\ doc' = SoftDeleted
  /\ api' = [pc |-> "delete", v |-> 0]
  /\ UNCHANGED <<ver, files, rows, active, points, jobs, run, search, cache, reviews, faults, stale>>

PurgeExpired == DeleteRow

\* ... then points (a failure is only logged), files and cached results.
\* Nothing removes the objects of the object store.
DeleteRest ==
  /\ api.pc = "delete"
  /\ \/ points' = DeletedPoints /\ NoFault
     \/ Fault /\ UNCHANGED points
  /\ files' = {}
  /\ cache' = Empty
  /\ api' = [pc |-> "idle", v |-> 0]
  /\ UNCHANGED <<doc, ver, rows, active, jobs, run, search, reviews, stale>>

\* review_document writes the decision and reads the active chunks ...
ReviewRow(decision) ==
  /\ api.pc = "idle" /\ reviews < MaxReviews
  /\ doc.status # "none" /\ ~doc.deleted
  /\ doc' = [doc EXCEPT !.approval = decision]
  /\ api' = [pc |-> IF decision = "approved" /\ active # 0 THEN "approve" ELSE "reject", v |-> active]
  /\ reviews' = reviews + 1
  /\ UNCHANGED <<ver, files, rows, active, points, jobs, run, search, cache, faults, stale>>

Busy(w) == run[w].pc \in {"save", "finish"}

\* ... and later indexes the chunks it read, which makes good for lost writes
\* when nothing runs beside it,
ReviewIndex ==
  /\ api.pc = "approve"
  /\ \/ /\ points' = Deactivated(api.v) /\ NoFault
        /\ stale' = IF api.v = active /\ active = doc.cur /\ \A w \in Worker : run[w].pc = "idle"
                    THEN FALSE
                    ELSE stale \/ api.v # active \/ \E w \in Worker : Busy(w)
     \/ Fault /\ stale' = TRUE /\ UNCHANGED points
  /\ cache' = Empty
  /\ api' = [pc |-> "idle", v |-> 0]
  /\ UNCHANGED <<stored, jobs, run, search, reviews>>

\* or removes the points.
ReviewRemove ==
  /\ api.pc = "reject"
  /\ \/ points' = DeletedPoints /\ NoFault
     \/ Fault /\ UNCHANGED points
  /\ stale' = (stale \/ doc.approval # "rejected" \/ \E w \in Worker : Busy(w))
  /\ cache' = Empty
  /\ api' = [pc |-> "idle", v |-> 0]
  /\ UNCHANGED <<stored, jobs, run, search, reviews>>

(***************************************************************************)
(* process_job and process_rebuild_job in a worker.                        *)
(***************************************************************************)
Goto(w, pc) == run' = [run EXCEPT ![w].pc = pc]
EndTask(j, s) == jobs' = [jobs EXCEPT ![j].status = s, ![j].task = "done"]

\* The worker claims the task of a job that completed before its worker died.
SkipCompleted(w, j) ==
  /\ run[w].pc = "idle" /\ jobs[j].task = "queued" /\ jobs[j].status = "completed"
  /\ EndTask(j, "completed")
  /\ UNCHANGED <<stored, points, run, api, search, cache, reviews, faults, stale>>

\* A deleted document is still found by its id and processed.
BeginIngest(w, j) ==
  /\ run[w].pc = "idle" /\ jobs[j].task = "queued" /\ jobs[j].status # "completed"
  /\ jobs[j].op # "rebuild"
  /\ jobs' = [jobs EXCEPT ![j].status = "running", ![j].task = "running"]
  /\ doc' = [doc EXCEPT !.status = "processing"]
  /\ run' = [run EXCEPT ![w] = [pc |-> "parse", job |-> j, v |-> jobs[j].v]]
  /\ UNCHANGED <<ver, files, rows, active, points, api, search, cache, reviews, faults, stale>>

\* A file that is gone comes back from the object store, of which only ingest
\* jobs know the key; a store that fails ends the job there.
Restore(w) ==
  /\ run[w].pc = "parse" /\ run[w].v \notin files
  /\ jobs[run[w].job].op = "ingest"
  /\ \/ /\ files' = files \cup {run[w].v} /\ NoFault
        /\ UNCHANGED <<jobs, run>>
     \/ /\ Fault /\ EndTask(run[w].job, "failed")
        /\ run' = [run EXCEPT ![w] = Idle]
        /\ UNCHANGED files
  /\ UNCHANGED <<doc, ver, rows, active, points, api, search, cache, reviews, stale>>

Parse(w) ==
  /\ run[w].pc = "parse" /\ run[w].v \in files
  /\ UpdateVersion(run[w].v, "processing")
  /\ Goto(w, "index")
  /\ UNCHANGED <<doc, files, rows, active, points, jobs, api, search, cache, reviews, faults, stale>>

IndexChunks(w) ==
  /\ run[w].pc = "index"
  /\ points' = Deactivated(run[w].v)
  /\ stale' = (api.pc = "reject" \/ \E u \in Worker : Busy(u))
  /\ Goto(w, "save")
  /\ UNCHANGED <<stored, jobs, api, search, cache, reviews, faults>>

SaveChunks(w) ==
  /\ run[w].pc = "save"
  /\ ReplaceChunks(run[w].v)
  /\ Goto(w, "finish")
  /\ UNCHANGED <<doc, ver, files, points, jobs, api, search, cache, reviews, faults, stale>>

\* Version, document and job.  (With warnings of the parser they are partial,
\* which everything treats like indexed.)
SaveDocument(w) ==
  /\ run[w].pc = "finish"
  /\ UpdateVersion(run[w].v, "indexed")
  /\ doc' = [doc EXCEPT !.status = "indexed", !.cur = run[w].v, !.hash = ver[run[w].v].hash]
  /\ jobs' = JobStatus(run[w].job, "completed")
  /\ Goto(w, "invalidate")
  /\ UNCHANGED <<files, rows, active, points, api, search, cache, reviews, faults, stale>>

\* Mutant: the handler raises without closing the job.
FailIngestRaises(w) ==
  /\ run[w].pc \in {"parse", "index"} /\ Fault
  /\ UpdateVersion(run[w].v, "failed")
  /\ doc' = [doc EXCEPT !.status = IF active # 0 THEN "partial" ELSE "failed"]
  /\ jobs' = [jobs EXCEPT ![run[w].job].task = "done"]
  /\ run' = [run EXCEPT ![w] = Idle]
  /\ UNCHANGED <<files, rows, active, points, api, search, cache, reviews, stale>>

\* The parser fails or finds no file, or the index fails before or after it
\* took the new points and deactivated the old ones, or a later write fails,
\* the version's event behind its completion included.
FailIngest(w) ==
  /\ \/ /\ run[w].pc = "parse" /\ run[w].v \notin files /\ jobs[run[w].job].op = "reindex"
        /\ NoFault /\ UNCHANGED <<points, stale>>
     \/ run[w].pc = "parse" /\ run[w].v \in files /\ Fault /\ UNCHANGED <<points, stale>>
     \/ /\ run[w].pc = "index" /\ Fault
        /\ \/ UNCHANGED <<points, stale>>
           \/ points' = Deactivated(run[w].v) /\ stale' = TRUE
     \/ /\ run[w].pc \in {"save", "finish", "invalidate"} /\ jobs[run[w].job].op # "rebuild"
        /\ Fault /\ stale' = TRUE /\ UNCHANGED points
  /\ UpdateVersion(run[w].v, "failed")
  /\ doc' = [doc EXCEPT !.status = IF active # 0 THEN "partial" ELSE "failed"]
  /\ EndTask(run[w].job, "failed")
  /\ run' = [run EXCEPT ![w] = Idle]
  /\ UNCHANGED <<files, rows, active, api, search, cache, reviews>>

Invalidate(w) ==
  /\ run[w].pc = "invalidate"
  /\ cache' = Empty
  /\ EndTask(run[w].job, jobs[run[w].job].status)
  /\ run' = [run EXCEPT ![w] = Idle]
  /\ UNCHANGED <<stored, points, api, search, reviews, faults, stale>>

BeginRebuild(w, j) ==
  /\ run[w].pc = "idle" /\ jobs[j].task = "queued" /\ jobs[j].op = "rebuild"
  /\ jobs[j].status # "completed"
  /\ jobs' = [jobs EXCEPT ![j].status = "running", ![j].task = "running"]
  /\ run' = [run EXCEPT ![w] = [pc |-> "drop", job |-> j, v |-> 0]]
  /\ UNCHANGED <<stored, points, api, search, cache, reviews, faults, stale>>

\* delete_user, then the document list is read.
DropPoints(w) ==
  /\ run[w].pc = "drop"
  /\ points' = DeletedPoints
  /\ run' = [run EXCEPT ![w].pc = "fill", ![w].v = IF doc.deleted THEN 0 ELSE doc.cur]
  /\ stale' = (stale \/ doc.cur # active \/ api.pc # "idle"
                     \/ \E u \in Worker \ {w} : run[u].pc # "idle")
  /\ UNCHANGED <<stored, jobs, api, search, cache, reviews, faults>>

\* The versions a rebuild indexes again: ready ones with chunk rows.
Rebuilt == {v \in rows : ver[v].status \in Ready}

FillPoints(w) ==
  /\ run[w].pc = "fill"
  /\ \/ /\ points' = [v \in Version |->
              IF run[w].v # 0 /\ v \in Rebuilt
              THEN IF v = run[w].v THEN "active" ELSE "inactive" ELSE points[v]]
        /\ jobs' = JobStatus(run[w].job, "completed")
        /\ stale' = (stale \/ run[w].v # active \/ api.pc # "idle"
                           \/ \E u \in Worker \ {w} : run[u].pc # "idle")
        /\ NoFault
     \/ /\ Fault /\ stale' = TRUE
        /\ jobs' = JobStatus(run[w].job, IF run[w].v # 0 THEN "failed" ELSE "completed")
        /\ UNCHANGED points
  /\ Goto(w, "invalidate")
  /\ UNCHANGED <<stored, api, search, cache, reviews>>

(***************************************************************************)
(* search_many for one query: recall in the index, rows, then the cache.   *)
(***************************************************************************)
Cached == cache.full

Recalled == {v \in Version : points[v] = "active"}

Recall ==
  /\ search.pc = "idle" /\ ~Cached
  /\ search' = [pc |-> "recalled", hits |-> Recalled]
  /\ UNCHANGED <<stored, points, jobs, run, api, cache, reviews, faults, stale>>

ReadRows ==
  /\ search.pc = "recalled"
  /\ search' = [pc |-> "built", hits |-> search.hits \cap VisibleRows]
  /\ UNCHANGED <<stored, points, jobs, run, api, cache, reviews, faults, stale>>

LexicalRows == {v \in VisibleRows : ver[v].status \in Ready}

\* The models are unavailable: search_chunks_lexical answers from the rows.
LexicalFallback ==
  /\ search.pc = "recalled"
  /\ search' = [pc |-> "built", hits |-> LexicalRows]
  /\ UNCHANGED <<stored, points, jobs, run, api, cache, reviews, faults, stale>>

PutCached ==
  /\ search.pc = "built"
  /\ cache' = [full |-> TRUE, hits |-> search.hits]
  /\ search' = NoSearch
  /\ UNCHANGED <<stored, points, jobs, run, api, reviews, faults, stale>>

\* RESULT_CACHE_TTL_SECONDS have passed.
CacheExpires ==
  /\ cache.full
  /\ cache' = Empty
  /\ UNCHANGED <<stored, points, jobs, run, api, search, reviews, faults, stale>>

\* The processes stop and start again; running tasks are recovered.
RestartRuntime ==
  /\ Fault
  /\ jobs' = [j \in DOMAIN jobs |-> [jobs[j] EXCEPT !.task = IF @ = "running" THEN "queued" ELSE @]]
  /\ run' = [w \in Worker |-> Idle]
  /\ api' = [pc |-> "idle", v |-> 0]
  /\ search' = NoSearch /\ cache' = Empty
  /\ stale' = (stale \/ api.pc # "idle" \/ \E w \in Worker : run[w].pc \in {"save", "finish", "fill"})
  /\ UNCHANGED <<stored, points, reviews>>

WorkerStep(w) ==
  \/ \E j \in DOMAIN jobs : SkipCompleted(w, j) \/ BeginIngest(w, j) \/ BeginRebuild(w, j)
  \/ Restore(w) \/ Parse(w) \/ IndexChunks(w) \/ SaveChunks(w) \/ SaveDocument(w)
  \/ FailIngest(w) \/ Invalidate(w) \/ DropPoints(w) \/ FillPoints(w)

ApiStep == DeleteRest \/ ReviewIndex \/ ReviewRemove

SearchStep == ReadRows \/ LexicalFallback \/ PutCached

DocsNext ==
  \/ \E c \in Content : Register(c)
  \/ QueueReindex \/ QueueRebuild
  \/ \E j \in DOMAIN jobs : RetryJob(j)
  \/ DeleteRow \/ PurgeExpired
  \/ \E d \in {"approved", "rejected"} : ReviewRow(d)
  \/ ApiStep
  \/ \E w \in Worker : WorkerStep(w)
  \/ Recall \/ SearchStep \/ CacheExpires
  \/ RestartRuntime

DocsSpec == DocsInit /\ [][DocsNext]_docsVars

DocsFairness == /\ \A w \in Worker : WF_docsVars(WorkerStep(w))
                /\ WF_docsVars(ApiStep) /\ WF_docsVars(SearchStep) /\ WF_docsVars(CacheExpires)

DocsFairSpec == DocsSpec /\ DocsFairness

(***************************************************************************)
(* Properties.                                                             *)
(***************************************************************************)
Quiet == /\ api.pc = "idle"
         /\ \A w \in Worker : run[w].pc = "idle"
         /\ \A j \in DOMAIN jobs : jobs[j].task = "done"

\* When no job and no request is under way, the version an approved document
\* serves is its current one, and it is what a search for current knowledge
\* recalls, and nothing else: rows and index, written in different steps by
\* ingestions, rebuilds and reviews, come together again unless an index write
\* was lost or made from an old read.
Searchable ==
  /\ DocsTypeOK
  /\ Quiet /\ ~stale /\ active # 0 /\ ver[active].status \in Ready
       /\ doc.approval = "approved" /\ ~doc.deleted
     => active = doc.cur /\ Recalled = {active}

\* A job always ends, whatever its worker meets and however often the
\* processes restart.
JobsSettle ==
  \A n \in 1 .. MaxJobs :
    (n \in DOMAIN jobs /\ jobs[n].status \in Open)
      ~> (n \in DOMAIN jobs /\ jobs[n].status \notin Open)

\* Results of a deleted document that a search in flight put into the cache
\* behind the deletion's invalidation do not stay there.
DeletedIsForgotten == doc.deleted ~> [](cache.hits = {})

=============================================================================
