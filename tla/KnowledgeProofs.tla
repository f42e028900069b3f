-------------------------- MODULE KnowledgeProofs --------------------------
(***************************************************************************)
(* Proofs about KnowledgeSources (a source and its syncs) and              *)
(* KnowledgeGraph (relations, rebuilds, reviews and merges), for any       *)
(* entries, documents, products, workers, threads and bounds.              *)
(***************************************************************************)
EXTENDS KnowledgeSources, KnowledgeGraph, FiniteSetTheorems, SequenceTheorems, TLAPS

-----------------------------------------------------------------------------
(* KnowledgeSources: the inductive invariant. *)

SyncPC == {"begin", "begun", "fetch", "items", "upsert", "finish"}
PagePC == {"page", "save"}

Run == [pc : SyncPC \cup PagePC \cup {"idle", "queue"}, key : Sync \cup Link, row : Row,
        snap : Snapshot \cup {Nothing}, todo : SUBSET Entry, at : SUBSET Entry,
        new : SUBSET DocRev, links : SUBSET Link]

RunType == run \in [Worker -> Run]

Syncing(w) == run[w].pc # "idle" /\ run[w].key \in Sync

\* A step of a sync is made for a sync, one of a page for a link; a worker at
\* rest has nothing left to queue, and a sync at its entries has a snapshot.
Fits(r) ==
  /\ r.pc \in SyncPC => r.key \in Sync
  /\ r.pc \in PagePC => r.key \in Link
  /\ r.pc = "idle" => r.new = {}
  /\ r.pc \in {"items", "upsert", "save"} => r.snap \in Snapshot

RunsFit == \A w \in Worker : Fits(run[w])

\* Attempts are counted from one while a task runs, and never beyond the bound.
AttemptsFit ==
  /\ \A k \in Sync \cup Link : /\ task[k].status = "none" => task[k].attempts = 0
                               /\ task[k].status = "queued" => task[k].attempts < MaxAttempts
  /\ \A w \in Worker : run[w].pc # "idle" => task[run[w].key].attempts >= 1

\* A connector that is gone has no hash, and goes only by a deletion.
RowFits ==
  /\ ~src.present => src.hash = Nothing
  /\ faults = 0 => src.present

\* Nobody knows a revision that the site has not shown.
KnownIsPublished ==
  \A e \in Entry : src.hash[e] <= web[e] /\ \A w \in Worker : run[w].snap[e] <= web[e]

OneSync ==
  ~overlap => \A v, w \in Worker : Syncing(v) /\ Syncing(w) => v = w

\* A sync alone works with a snapshot at least as new as the connector's hash,
\* and the entries behind it have reached the snapshot.
SyncIsAhead ==
  ~overlap =>
    \A w \in Worker : run[w].pc \in {"items", "upsert"} =>
      \A e \in Text : /\ src.hash[e] <= run[w].snap[e]
                      /\ src.present /\ e \notin run[w].todo => items[e].rev >= run[w].snap[e]

\* What a worker is about to store as seen is registered.
StoredIsRegistered ==
  \A w \in Worker : run[w].pc = "upsert" =>
    \A e \in run[w].at \cap Text : <<e, run[w].snap[e]>> \in docs

\* A sync alone sees the cooldown in the copy of the row that it works with.
CooldownIsSeen ==
  ~overlap => \A w \in Worker : run[w].pc = "begun" /\ src.cooling => run[w].row.cooling

IInv ==
  /\ NothingIsLost
  /\ RunType /\ RunsFit /\ AttemptsFit /\ RowFits /\ KnownIsPublished
  /\ OneSync /\ SyncIsAhead /\ StoredIsRegistered /\ CooldownIsSeen

-----------------------------------------------------------------------------
(* What a step of worker w leaves in run[w]. *)

Leaves(w, r) == run' = [run EXCEPT ![w] = r]

\* The versions a worker has to queue when it registered d.
New(w, d) == IF d \in docs THEN run[w].new ELSE run[w].new \cup {d}

LEMMA Steps ==
  ASSUME NEW w \in Worker, RunType
  PROVE /\ \A k \in Sync \cup Link : Claim(w, k) =>
             Leaves(w, [Free EXCEPT !.pc = IF k \in Sync THEN "begin" ELSE "page", !.key = k])
        /\ Gone(w) \/ Stop(w) \/ Complete(w) => Leaves(w, Free)
        /\ Begin(w) => Leaves(w, [run[w] EXCEPT !.pc = "begun", !.row = src])
        /\ Disabled(w) \/ Cooldown(w) => Leaves(w, [run[w] EXCEPT !.pc = "finish"])
        /\ Check(w) => Leaves(w, [run[w] EXCEPT !.pc = "fetch"])
        /\ SameContent(w) \/ FetchFails(w) => Leaves(w, [run[w] EXCEPT !.pc = "finish", !.row = NewRow])
        /\ NewContent(w) => Leaves(w, [run[w] EXCEPT !.pc = "items", !.row = NewRow,
                                                     !.snap = web, !.todo = Entry])
        /\ \A e \in Entry : RegisterItem(w, e) =>
             Leaves(w, [run[w] EXCEPT !.new = New(w, <<e, run[w].snap[e]>>), !.pc = "upsert", !.at = {e}])
        /\ \A e \in Entry : ListItem(w, e) =>
             Leaves(w, [run[w] EXCEPT !.pc = "upsert", !.at = {e},
                                      !.links = IF Changed(w, e) THEN @ \cup {e} ELSE @])
        /\ \A e \in Entry : StoreItem(w, e) =>
             Leaves(w, [run[w] EXCEPT !.pc = "items", !.todo = @ \ {e}, !.at = {}])
        /\ Parent(w) => Leaves(w, [run[w] EXCEPT !.pc = "finish", !.snap = Nothing])
        /\ FinishSyncRun(w) \/ PageUnchanged(w) => Leaves(w, [run[w] EXCEPT !.pc = "queue"])
        /\ QueueJob(w) => \E d \in run[w].new : /\ ingest' = ingest \cup {d}
                                                /\ Leaves(w, [run[w] EXCEPT !.new = @ \ {d}])
        /\ QueueLink(w) => \E e \in run[w].links : /\ task' = Enqueued(e)
                                                   /\ Leaves(w, [run[w] EXCEPT !.links = @ \ {e}])
        /\ RegisterPage(w) =>
             Leaves(w, [run[w] EXCEPT !.new = New(w, <<run[w].key, web[run[w].key]>>),
                                      !.pc = "save", !.snap = web])
        /\ SavePage(w) => Leaves(w, [run[w] EXCEPT !.pc = "queue", !.snap = Nothing])
  <1> USE DEF RunType, Run, Leaves, New
  <1>1. \A k \in Sync \cup Link : Claim(w, k) =>
        Leaves(w, [Free EXCEPT !.pc = IF k \in Sync THEN "begin" ELSE "page", !.key = k])
    BY DEF Claim
  <1>2. Gone(w) \/ Stop(w) \/ Complete(w) => Leaves(w, Free)
    BY DEF Gone, Stop, Complete, Abandon
  <1>3. Begin(w) => Leaves(w, [run[w] EXCEPT !.pc = "begun", !.row = src])
    BY DEF Begin
  <1>4. Disabled(w) \/ Cooldown(w) => Leaves(w, [run[w] EXCEPT !.pc = "finish"])
    BY DEF Disabled, Cooldown, To
  <1>5. Check(w) => Leaves(w, [run[w] EXCEPT !.pc = "fetch"])
    BY DEF Check, To
  <1>6. SameContent(w) \/ FetchFails(w) => Leaves(w, [run[w] EXCEPT !.pc = "finish", !.row = NewRow])
    BY DEF SameContent, FetchFails
  <1>7. NewContent(w) => Leaves(w, [run[w] EXCEPT !.pc = "items", !.row = NewRow,
                                                !.snap = web, !.todo = Entry])
    BY DEF NewContent
  <1>8. \A e \in Entry : RegisterItem(w, e) =>
        Leaves(w, [run[w] EXCEPT !.new = New(w, <<e, run[w].snap[e]>>), !.pc = "upsert", !.at = {e}])
    BY DEF RegisterItem, Registered
  <1>9. \A e \in Entry : ListItem(w, e) =>
        Leaves(w, [run[w] EXCEPT !.pc = "upsert", !.at = {e},
                                 !.links = IF Changed(w, e) THEN @ \cup {e} ELSE @])
    BY DEF ListItem
  <1>10. \A e \in Entry : StoreItem(w, e) =>
        Leaves(w, [run[w] EXCEPT !.pc = "items", !.todo = @ \ {e}, !.at = {}])
    BY DEF StoreItem
  <1>11. Parent(w) => Leaves(w, [run[w] EXCEPT !.pc = "finish", !.snap = Nothing])
    BY DEF Parent
  <1>12. FinishSyncRun(w) \/ PageUnchanged(w) => Leaves(w, [run[w] EXCEPT !.pc = "queue"])
    BY DEF FinishSyncRun, PageUnchanged, To
  <1>13. QueueJob(w) => \E d \in run[w].new : /\ ingest' = ingest \cup {d}
                                           /\ Leaves(w, [run[w] EXCEPT !.new = @ \ {d}])
    BY DEF QueueJob
  <1>14. QueueLink(w) => \E e \in run[w].links : /\ task' = Enqueued(e)
                                              /\ Leaves(w, [run[w] EXCEPT !.links = @ \ {e}])
    BY DEF QueueLink
  <1>15. RegisterPage(w) =>
        Leaves(w, [run[w] EXCEPT !.new = New(w, <<run[w].key, web[run[w].key]>>),
                                 !.pc = "save", !.snap = web])
    BY DEF RegisterPage, Registered
  <1>16. SavePage(w) => Leaves(w, [run[w] EXCEPT !.pc = "queue", !.snap = Nothing])
    BY DEF SavePage
  <1> QED
    BY <1>1, <1>2, <1>3, <1>4, <1>5, <1>6, <1>7, <1>8, <1>9, <1>10, <1>11, <1>12, <1>13, <1>14, <1>15, <1>16, Zenon

-----------------------------------------------------------------------------
(* Types. *)

Types == TypeOK /\ RunType /\ RunsFit /\ AttemptsFit

LEMMA FreeFits == Free \in Run /\ Fits(Free)
  <1>1. NewRow \in Row
    BY DEF NewRow, Row
  <1> QED
    BY <1>1 DEF Free, Sync, Run, Fits, SyncPC, PagePC

LEMMA SyncInitTypes == Init => Types
  <1> SUFFICES ASSUME Init PROVE Types
    OBVIOUS
  <1> USE BoundAssumption
  <1>1. Nothing \in Snapshot \cup {Nothing} /\ NewRow \in Row
    BY DEF NewRow, Row
  <1>2. Free \in Run
    BY FreeFits
  <1>3. RunType
    BY <1>2 DEF Init, RunType
  <1>4. TypeOK
    <2>1. \A w \in Worker : run[w] = Free
      BY DEF Init
    <2>2. web \in Snapshot
      <3>1. 1 \in Rev
        BY DEF Rev, BoundAssumption
      <3> QED
        BY <3>1 DEF Init, Snapshot, Rev
    <2>3. items \in [Entry -> Hash] /\ task \in [Sync \cup Link -> [status : {"none", "queued", "running", "completed", "failed"},
                                  attempts : 0 .. MaxAttempts]]
      BY DEF Init, Hash
    <2>4. ask \in [{"scheduler", "user"} -> BOOLEAN] /\ faults \in 0 .. MaxFaults
      BY DEF Init
    <2> QED
      BY <1>1, <1>2, <2>1, <2>2, <2>3, <2>4 DEF Init, TypeOK, Free, Sync
  <1>5. RunsFit /\ AttemptsFit
    BY DEF Init, RunsFit, Fits, AttemptsFit, Free, SyncPC, PagePC
  <1> QED
    BY <1>3, <1>4, <1>5 DEF Types

\* One worker moves to a record that fits.
LEMMA FitsOne ==
  ASSUME RunType, RunsFit, NEW w \in Worker, NEW r \in Run, Leaves(w, r), Fits(r)
  PROVE RunType' /\ RunsFit'
  BY DEF RunType, RunsFit, Fits, Leaves

LEMMA RunStep == Types /\ [Next]_vars => RunType' /\ RunsFit'
  <1> SUFFICES ASSUME Types, [Next]_vars PROVE RunType' /\ RunsFit'
    OBVIOUS
  <1>0. /\ RunType /\ RunsFit /\ web \in Snapshot /\ src \in Row
        /\ ingest \subseteq docs /\ docs \subseteq DocRev
        /\ \A w \in Worker : run[w] \in Run /\ Fits(run[w])
    BY DEF Types, TypeOK, RunType, RunsFit
  <1> DEFINE Goal == RunType' /\ RunsFit'
  <1> USE DEF SyncPC, PagePC
  <1>1. ASSUME NEW w \in Worker, NEW k \in Sync \cup Link, Claim(w, k) PROVE Goal
    <2> DEFINE r == [Free EXCEPT !.pc = IF k \in Sync THEN "begin" ELSE "page", !.key = k]
    <2>1. r \in Run /\ Fits(r)
      <3>1. r \in Run
        BY FreeFits DEF Run
      <3>2. r.pc = (IF k \in Sync THEN "begin" ELSE "page") /\ r.key = k /\ r.new = {}
        BY DEF Free
      <3> QED
        BY <3>1, <3>2 DEF Fits
    <2>2. Leaves(w, r)
      BY <1>1, <1>0, Steps
    <2> QED
      BY <1>0, <2>1, <2>2, FitsOne
  <1>2. ASSUME NEW w \in Worker, Gone(w) \/ Stop(w) \/ Complete(w) PROVE Goal
    <2> DEFINE r == Free
    <2>1. r \in Run /\ Fits(r)
      BY FreeFits
    <2>2. Leaves(w, r)
      BY <1>2, <1>0, Steps
    <2> QED
      BY <1>0, <2>1, <2>2, FitsOne
  <1>3. ASSUME NEW w \in Worker, Begin(w) PROVE Goal
    <2> DEFINE r == [run[w] EXCEPT !.pc = "begun", !.row = src]
    <2>1. r \in Run /\ Fits(r)
      BY <1>3, <1>0 DEF Run, Fits, Begin
    <2>2. Leaves(w, r)
      BY <1>3, <1>0, Steps
    <2> QED
      BY <1>0, <2>1, <2>2, FitsOne
  <1>4. ASSUME NEW w \in Worker, Disabled(w) \/ Cooldown(w) PROVE Goal
    <2> DEFINE r == [run[w] EXCEPT !.pc = "finish"]
    <2>1. r \in Run /\ Fits(r)
      BY <1>4, <1>0 DEF Run, Fits, Disabled, Cooldown
    <2>2. Leaves(w, r)
      BY <1>4, <1>0, Steps
    <2> QED
      BY <1>0, <2>1, <2>2, FitsOne
  <1>5. ASSUME NEW w \in Worker, Check(w) PROVE Goal
    <2> DEFINE r == [run[w] EXCEPT !.pc = "fetch"]
    <2>1. r \in Run /\ Fits(r)
      BY <1>5, <1>0 DEF Run, Fits, Check
    <2>2. Leaves(w, r)
      BY <1>5, <1>0, Steps
    <2> QED
      BY <1>0, <2>1, <2>2, FitsOne
  <1>6. ASSUME NEW w \in Worker, SameContent(w) \/ FetchFails(w) PROVE Goal
    <2> DEFINE r == [run[w] EXCEPT !.pc = "finish", !.row = NewRow]
    <2>1. r \in Run /\ Fits(r)
      BY ZenonT(30), <1>6, <1>0 DEF Run, Fits, SameContent, FetchFails, NewRow, Row
    <2>2. Leaves(w, r)
      BY <1>6, <1>0, Steps
    <2> QED
      BY <1>0, <2>1, <2>2, FitsOne
  <1>7. ASSUME NEW w \in Worker, NewContent(w) PROVE Goal
    <2> DEFINE r == [run[w] EXCEPT !.pc = "items", !.row = NewRow, !.snap = web, !.todo = Entry]
    <2>1. r \in Run /\ Fits(r)
      BY ZenonT(30), <1>7, <1>0 DEF Run, Fits, NewContent, NewRow, Row
    <2>2. Leaves(w, r)
      BY <1>7, <1>0, Steps
    <2> QED
      BY <1>0, <2>1, <2>2, FitsOne
  <1>8. ASSUME NEW w \in Worker, NEW e \in Entry, RegisterItem(w, e) PROVE Goal
    <2> DEFINE r == [run[w] EXCEPT !.new = New(w, <<e, run[w].snap[e]>>), !.pc = "upsert", !.at = {e}]
    <2>1. r \in Run /\ Fits(r)
      <3>1. run[w].snap \in Snapshot
        BY <1>8, <1>0 DEF Fits, RegisterItem
      <3>2. <<e, run[w].snap[e]>> \in DocRev
        BY <3>1 DEF DocRev, Snapshot
      <3>3. New(w, <<e, run[w].snap[e]>>) \in SUBSET DocRev
        BY <1>0, <3>2 DEF New, Run
      <3> QED
        BY <1>8, <1>0, <3>1, <3>3 DEF Run, Fits, RegisterItem
    <2>2. Leaves(w, r)
      BY <1>8, <1>0, Steps
    <2> QED
      BY <1>0, <2>1, <2>2, FitsOne
  <1>9. ASSUME NEW w \in Worker, NEW e \in Entry, ListItem(w, e) PROVE Goal
    <2> DEFINE r == [run[w] EXCEPT !.pc = "upsert", !.at = {e}, !.links = IF Changed(w, e) THEN @ \cup {e} ELSE @]
    <2>1. r \in Run /\ Fits(r)
      BY <1>9, <1>0 DEF Run, Fits, ListItem
    <2>2. Leaves(w, r)
      BY <1>9, <1>0, Steps
    <2> QED
      BY <1>0, <2>1, <2>2, FitsOne
  <1>10. ASSUME NEW w \in Worker, NEW e \in Entry, StoreItem(w, e) PROVE Goal
    <2> DEFINE r == [run[w] EXCEPT !.pc = "items", !.todo = @ \ {e}, !.at = {}]
    <2>1. r \in Run /\ Fits(r)
      BY <1>10, <1>0 DEF Run, Fits, StoreItem
    <2>2. Leaves(w, r)
      BY <1>10, <1>0, Steps
    <2> QED
      BY <1>0, <2>1, <2>2, FitsOne
  <1>11. ASSUME NEW w \in Worker, Parent(w) PROVE Goal
    <2> DEFINE r == [run[w] EXCEPT !.pc = "finish", !.snap = Nothing]
    <2>1. r \in Run /\ Fits(r)
      BY <1>11, <1>0 DEF Run, Fits, Parent
    <2>2. Leaves(w, r)
      BY <1>11, <1>0, Steps
    <2> QED
      BY <1>0, <2>1, <2>2, FitsOne
  <1>12. ASSUME NEW w \in Worker, FinishSyncRun(w) \/ PageUnchanged(w) PROVE Goal
    <2> DEFINE r == [run[w] EXCEPT !.pc = "queue"]
    <2>1. r \in Run /\ Fits(r)
      BY <1>12, <1>0 DEF Run, Fits, FinishSyncRun, PageUnchanged
    <2>2. Leaves(w, r)
      BY <1>12, <1>0, Steps
    <2> QED
      BY <1>0, <2>1, <2>2, FitsOne
  <1>13. ASSUME NEW w \in Worker, QueueJob(w) PROVE Goal
    <2>1. PICK d \in run[w].new : Leaves(w, [run[w] EXCEPT !.new = @ \ {d}])
      BY <1>13, <1>0, Steps
    <2> DEFINE r == [run[w] EXCEPT !.new = @ \ {d}]
    <2>2. r \in Run /\ Fits(r)
      BY <1>13, <1>0 DEF Run, Fits
    <2> QED
      BY <1>0, <2>1, <2>2, FitsOne
  <1>14. ASSUME NEW w \in Worker, QueueLink(w) PROVE Goal
    <2>1. PICK e \in run[w].links : Leaves(w, [run[w] EXCEPT !.links = @ \ {e}])
      BY <1>14, <1>0, Steps
    <2> DEFINE r == [run[w] EXCEPT !.links = @ \ {e}]
    <2>2. r \in Run /\ Fits(r)
      BY <1>14, <1>0 DEF Run, Fits
    <2> QED
      BY <1>0, <2>1, <2>2, FitsOne
  <1>15. ASSUME NEW w \in Worker, RegisterPage(w) PROVE Goal
    <2> DEFINE r == [run[w] EXCEPT !.new = New(w, <<run[w].key, web[run[w].key]>>), !.pc = "save", !.snap = web]
    <2>1. r \in Run /\ Fits(r)
      <3>1. run[w].key \in Link
        BY <1>15, <1>0 DEF Fits, RegisterPage
      <3>2. <<run[w].key, web[run[w].key]>> \in DocRev
        BY <1>0, <3>1 DEF DocRev, Snapshot, Entry
      <3>3. New(w, <<run[w].key, web[run[w].key]>>) \in SUBSET DocRev
        BY <1>0, <3>2 DEF New, Run
      <3> QED
        BY <1>0, <3>1, <3>3 DEF Run, Fits
    <2>2. Leaves(w, r)
      BY <1>15, <1>0, Steps
    <2> QED
      BY <1>0, <2>1, <2>2, FitsOne
  <1>16. ASSUME NEW w \in Worker, SavePage(w) PROVE Goal
    <2> DEFINE r == [run[w] EXCEPT !.pc = "queue", !.snap = Nothing]
    <2>1. r \in Run /\ Fits(r)
      BY <1>16, <1>0 DEF Run, Fits, SavePage
    <2>2. Leaves(w, r)
      BY <1>16, <1>0, Steps
    <2> QED
      BY <1>0, <2>1, <2>2, FitsOne
  <1>17. CASE UNCHANGED run
    BY <1>17, <1>0 DEF RunType, RunsFit, Fits
  <1>18. CASE UNCHANGED vars
    BY <1>18, <1>17 DEF vars
  <1> HIDE DEF Goal
  <1>19. ASSUME NEW r \in {"scheduler", "user"}, Ask(r) \/ Queue(r) PROVE UNCHANGED run
    BY <1>19 DEF Ask, Queue
  <1>20. ASSUME Retry \/ UpdateConfig \/ Delete \/ Tick PROVE UNCHANGED run
    BY <1>20 DEF Retry, UpdateConfig, Delete, Tick
  <1>21. ASSUME NEW e \in Entry, Publish(e) PROVE UNCHANGED run
    BY <1>21 DEF Publish
  <1> QED
    BY <1>1, <1>2, <1>3, <1>4, <1>5, <1>6, <1>7, <1>8, <1>9, <1>10, <1>11, <1>12, <1>13, <1>14,
       <1>15, <1>16, <1>17, <1>18, <1>19, <1>20, <1>21, Zenon DEF Next, Step, Goal

SiteType ==
  /\ web \in Snapshot /\ src \in Row /\ due \in BOOLEAN
  /\ ask \in [{"scheduler", "user"} -> BOOLEAN]
  /\ faults \in 0 .. MaxFaults /\ overlap \in BOOLEAN

LEMMA RowChanges ==
  ASSUME src \in Row
  PROVE /\ \A b \in BOOLEAN : [src EXCEPT !.cooling = b] \in Row
        /\ [src EXCEPT !.enabled = ~@] \in Row /\ ResetIdentity(src) \in Row
        /\ \A h \in Snapshot \cup {Nothing} : [src EXCEPT !.hash = h, !.cooling = FALSE] \in Row
        /\ NewRow \in Row /\ [NewRow EXCEPT !.present = FALSE] \in Row
  BY DEF Row, NewRow, ResetIdentity

LEMMA SiteStep == Types /\ [Next]_vars => SiteType'
  <1> SUFFICES ASSUME Types, [Next]_vars PROVE SiteType'
    OBVIOUS
  <1>0. /\ SiteType
        /\ src.present \in BOOLEAN
        /\ \A w \in Worker : run[w].snap \in Snapshot \cup {Nothing}
    BY DEF Types, TypeOK, SiteType, Row
  <1>00. faults < MaxFaults /\ faults' = faults + 1 => faults' \in 0 .. MaxFaults
    BY <1>0, BoundAssumption DEF SiteType
  <1> USE <1>0, <1>00 DEF SiteType
  <1>1. ASSUME NEW r \in {"scheduler", "user"}, Ask(r) PROVE SiteType'
    BY <1>1 DEF Ask
  <1>2. ASSUME NEW r \in {"scheduler", "user"}, Queue(r) PROVE SiteType'
    BY <1>2 DEF Queue
  <1>3. CASE Retry
    BY <1>3, RowChanges DEF Retry
  <1>4. CASE UpdateConfig
    BY <1>4, RowChanges DEF UpdateConfig
  <1>5. CASE Delete
    BY <1>5, RowChanges DEF Delete
  <1>6. CASE Tick
    BY <1>6, RowChanges DEF Tick
  <1>7. ASSUME NEW e \in Entry, Publish(e) PROVE SiteType'
    BY <1>7, BoundAssumption DEF Publish, Snapshot, Rev
  <1>8. ASSUME NEW w \in Worker, NEW k \in Sync \cup Link, Claim(w, k) PROVE SiteType'
    BY <1>8 DEF Claim, Free
  <1>9. ASSUME NEW w \in Worker, Gone(w) PROVE SiteType'
    BY <1>9 DEF Gone, Abandon, Free
  <1>10. ASSUME NEW w \in Worker, Begin(w) PROVE SiteType'
    BY <1>10 DEF Begin
  <1>11. ASSUME NEW w \in Worker, Disabled(w) PROVE SiteType'
    BY <1>11 DEF Disabled, To
  <1>12. ASSUME NEW w \in Worker, Cooldown(w) PROVE SiteType'
    BY <1>12 DEF Cooldown, To
  <1>13. ASSUME NEW w \in Worker, Check(w) PROVE SiteType'
    BY <1>13 DEF Check, To
  <1>14. ASSUME NEW w \in Worker, SameContent(w) PROVE SiteType'
    BY <1>14, RowChanges DEF SameContent, UpdateResult
  <1>15. ASSUME NEW w \in Worker, NewContent(w) PROVE SiteType'
    BY <1>15 DEF NewContent
  <1>16. ASSUME NEW w \in Worker, NEW e \in Entry, RegisterItem(w, e) PROVE SiteType'
    BY <1>16 DEF RegisterItem, Registered
  <1>17. ASSUME NEW w \in Worker, NEW e \in Entry, ListItem(w, e) PROVE SiteType'
    BY <1>17 DEF ListItem
  <1>18. ASSUME NEW w \in Worker, NEW e \in Entry, StoreItem(w, e) PROVE SiteType'
    BY <1>18 DEF StoreItem, Upsert, ItemHash
  <1>19. ASSUME NEW w \in Worker, Parent(w) PROVE SiteType'
    BY <1>19, RowChanges DEF Parent, UpdateResult
  <1>20. ASSUME NEW w \in Worker, FinishSyncRun(w) PROVE SiteType'
    BY <1>20 DEF FinishSyncRun, To
  <1>21. ASSUME NEW w \in Worker, QueueJob(w) PROVE SiteType'
    BY <1>21 DEF QueueJob
  <1>22. ASSUME NEW w \in Worker, QueueLink(w) PROVE SiteType'
    BY <1>22 DEF QueueLink, Enqueued
  <1>23. ASSUME NEW w \in Worker, Complete(w) PROVE SiteType'
    BY <1>23 DEF Complete, Free
  <1>24. ASSUME NEW w \in Worker, PageUnchanged(w) PROVE SiteType'
    BY <1>24 DEF PageUnchanged
  <1>25. ASSUME NEW w \in Worker, RegisterPage(w) PROVE SiteType'
    BY <1>25 DEF RegisterPage, Registered
  <1>26. ASSUME NEW w \in Worker, SavePage(w) PROVE SiteType'
    BY <1>26 DEF SavePage, Upsert
  <1>27. ASSUME NEW w \in Worker, Stop(w) PROVE SiteType'
    BY <1>27 DEF Stop, Abandon, Free
  <1>28. ASSUME NEW w \in Worker, FetchFails(w) PROVE SiteType'
    BY <1>28, RowChanges DEF FetchFails, UpdateResult
  <1>29. CASE UNCHANGED vars
    BY <1>29 DEF vars
  <1> QED
    BY <1>1, <1>2, <1>3, <1>4, <1>5, <1>6, <1>7, <1>8, <1>9, <1>10, <1>11, <1>12, <1>13, <1>14,
       <1>15, <1>16, <1>17, <1>18, <1>19, <1>20, <1>21, <1>22, <1>23, <1>24, <1>25, <1>26, <1>27,
       <1>28, <1>29, Zenon DEF Next, Step

DocsType ==
  /\ items \in [Entry -> Hash] /\ docs \subseteq DocRev /\ ingest \subseteq docs
  /\ \A w \in Worker : run[w].new \subseteq docs

LEMMA DocsStep == Types /\ [Next]_vars => DocsType'
  <1> SUFFICES ASSUME Types, [Next]_vars PROVE DocsType'
    OBVIOUS
  <1>0. /\ DocsType /\ RunType /\ web \in Snapshot
        /\ \A w \in Worker : run[w] \in Run /\ Fits(run[w])
    BY DEF Types, TypeOK, DocsType, RunsFit, RunType
  <1> USE <1>0 DEF DocsType, RunType
  <1>1. ASSUME NEW w \in Worker, NEW k \in Sync \cup Link, Claim(w, k) PROVE DocsType'
    <2>1. Leaves(w, [Free EXCEPT !.pc = IF k \in Sync THEN "begin" ELSE "page", !.key = k])
      BY <1>1, <1>0, Steps
    <2> QED
      BY <1>1, <2>1 DEF Claim, Leaves, Free
  <1>2. ASSUME NEW w \in Worker, Gone(w) \/ Stop(w) \/ Complete(w) PROVE DocsType'
    <2>1. Leaves(w, Free)
      BY <1>2, <1>0, Steps
    <2> QED
      BY <1>2, <2>1 DEF Gone, Stop, Complete, Leaves, Free
  <1>3. ASSUME NEW w \in Worker, Begin(w) PROVE DocsType'
    <2>1. Leaves(w, [run[w] EXCEPT !.pc = "begun", !.row = src])
      BY <1>3, <1>0, Steps
    <2> QED
      BY <1>3, <2>1 DEF Begin, Leaves
  <1>4. ASSUME NEW w \in Worker, Disabled(w) \/ Cooldown(w) PROVE DocsType'
    <2>1. Leaves(w, [run[w] EXCEPT !.pc = "finish"])
      BY <1>4, <1>0, Steps
    <2> QED
      BY <1>4, <2>1 DEF Disabled, Cooldown, Leaves
  <1>5. ASSUME NEW w \in Worker, Check(w) PROVE DocsType'
    <2>1. Leaves(w, [run[w] EXCEPT !.pc = "fetch"])
      BY <1>5, <1>0, Steps
    <2> QED
      BY <1>5, <2>1 DEF Check, Leaves
  <1>6. ASSUME NEW w \in Worker, SameContent(w) \/ FetchFails(w) PROVE DocsType'
    <2>1. Leaves(w, [run[w] EXCEPT !.pc = "finish", !.row = NewRow])
      BY <1>6, <1>0, Steps
    <2> QED
      BY <1>6, <2>1 DEF SameContent, FetchFails, Leaves
  <1>7. ASSUME NEW w \in Worker, NewContent(w) PROVE DocsType'
    <2>1. Leaves(w, [run[w] EXCEPT !.pc = "items", !.row = NewRow, !.snap = web, !.todo = Entry])
      BY <1>7, <1>0, Steps
    <2> QED
      BY <1>7, <2>1 DEF NewContent, Leaves
  <1>8. ASSUME NEW w \in Worker, NEW e \in Entry, RegisterItem(w, e) PROVE DocsType'
    <2>1. Leaves(w, [run[w] EXCEPT !.new = New(w, <<e, run[w].snap[e]>>), !.pc = "upsert", !.at = {e}])
      BY <1>8, <1>0, Steps
    <2> QED
      <3>1. run[w].snap \in Snapshot
        BY <1>8 DEF Fits, RegisterItem
      <3>2. <<e, run[w].snap[e]>> \in DocRev
        BY <3>1 DEF DocRev, Snapshot
      <3>3. New(w, <<e, run[w].snap[e]>>) \subseteq docs'
        BY <1>8 DEF New, RegisterItem
      <3>4. run'[w].new = New(w, <<e, run[w].snap[e]>>) /\ \A v \in Worker \ {w} : run'[v] = run[v]
        BY <2>1 DEF Leaves, Run
      <3> QED
        BY <1>8, <3>2, <3>3, <3>4 DEF RegisterItem
  <1>9. ASSUME NEW w \in Worker, NEW e \in Entry, ListItem(w, e) PROVE DocsType'
    <2>1. Leaves(w, [run[w] EXCEPT !.pc = "upsert", !.at = {e}, !.links = IF Changed(w, e) THEN @ \cup {e} ELSE @])
      BY <1>9, <1>0, Steps
    <2> QED
      BY <1>9, <2>1 DEF ListItem, Leaves
  <1>10. ASSUME NEW w \in Worker, NEW e \in Entry, StoreItem(w, e) PROVE DocsType'
    <2>1. Leaves(w, [run[w] EXCEPT !.pc = "items", !.todo = @ \ {e}, !.at = {}])
      BY <1>10, <1>0, Steps
    <2> QED
      <3>1. run[w].snap \in Snapshot
        BY <1>10 DEF Fits, StoreItem
      <3>2. ItemHash(w, e) \in Hash
        BY <3>1 DEF ItemHash, Hash, Snapshot
      <3>3. \A v \in Worker : run'[v].new = run[v].new
        BY <2>1 DEF Leaves, Run
      <3> QED
        BY <1>10, <3>2, <3>3 DEF StoreItem, Upsert
  <1>11. ASSUME NEW w \in Worker, Parent(w) PROVE DocsType'
    <2>1. Leaves(w, [run[w] EXCEPT !.pc = "finish", !.snap = Nothing])
      BY <1>11, <1>0, Steps
    <2> QED
      BY <1>11, <2>1 DEF Parent, Leaves
  <1>12. ASSUME NEW w \in Worker, FinishSyncRun(w) \/ PageUnchanged(w) PROVE DocsType'
    <2>1. Leaves(w, [run[w] EXCEPT !.pc = "queue"])
      BY <1>12, <1>0, Steps
    <2> QED
      BY <1>12, <2>1 DEF FinishSyncRun, PageUnchanged, Leaves
  <1>13. ASSUME NEW w \in Worker, QueueJob(w) PROVE DocsType'
    <2>1. PICK d \in run[w].new : ingest' = ingest \cup {d} /\ Leaves(w, [run[w] EXCEPT !.new = @ \ {d}])
      BY <1>13, <1>0, Steps
    <2> QED
      BY <1>13, <2>1 DEF QueueJob, Leaves
  <1>14. ASSUME NEW w \in Worker, QueueLink(w) PROVE DocsType'
    <2>1. PICK e \in run[w].links : task' = Enqueued(e) /\ Leaves(w, [run[w] EXCEPT !.links = @ \ {e}])
      BY <1>14, <1>0, Steps
    <2> QED
      BY <1>14, <2>1 DEF QueueLink, Leaves
  <1>15. ASSUME NEW w \in Worker, RegisterPage(w) PROVE DocsType'
    <2>1. Leaves(w, [run[w] EXCEPT !.new = New(w, <<run[w].key, web[run[w].key]>>), !.pc = "save", !.snap = web])
      BY <1>15, <1>0, Steps
    <2> QED
      <3>1. run[w].key \in Entry
        BY <1>15 DEF Fits, RegisterPage, PagePC, Entry
      <3>2. <<run[w].key, web[run[w].key]>> \in DocRev
        BY <3>1 DEF DocRev, Snapshot
      <3>3. New(w, <<run[w].key, web[run[w].key]>>) \subseteq docs'
        BY <1>15 DEF New, RegisterPage
      <3>4. /\ run'[w].new = New(w, <<run[w].key, web[run[w].key]>>)
            /\ \A v \in Worker \ {w} : run'[v] = run[v]
        BY <2>1 DEF Leaves, Run
      <3> QED
        BY <1>15, <3>2, <3>3, <3>4 DEF RegisterPage
  <1>16. ASSUME NEW w \in Worker, SavePage(w) PROVE DocsType'
    <2>1. Leaves(w, [run[w] EXCEPT !.pc = "queue", !.snap = Nothing])
      BY <1>16, <1>0, Steps
    <2> QED
      <3>1. run[w].snap \in Snapshot /\ run[w].key \in Entry
        BY <1>16 DEF Fits, SavePage, PagePC, Entry
      <3>2. [kind |-> "page", rev |-> run[w].snap[run[w].key]] \in Hash
        BY <3>1 DEF Hash, Snapshot
      <3>3. \A v \in Worker : run'[v].new = run[v].new
        BY <2>1 DEF Leaves, Run
      <3> QED
        BY <1>16, <3>2, <3>3 DEF SavePage, Upsert
  <1>17. ASSUME NEW r \in {"scheduler", "user"}, Ask(r) \/ Queue(r) PROVE DocsType'
    BY <1>17 DEF Ask, Queue
  <1>18. CASE Retry
    BY <1>18 DEF Retry
  <1>19. CASE UpdateConfig
    BY <1>19 DEF UpdateConfig
  <1>20. CASE Delete
    BY <1>20 DEF Delete, Hash
  <1>21. CASE Tick
    BY <1>21 DEF Tick
  <1>22. ASSUME NEW e \in Entry, Publish(e) PROVE DocsType'
    BY <1>22 DEF Publish
  <1>23. CASE UNCHANGED vars
    BY <1>23 DEF vars
  <1> QED
    BY <1>1, <1>2, <1>3, <1>4, <1>5, <1>6, <1>7, <1>8, <1>9, <1>10, <1>11, <1>12, <1>13, <1>14,
       <1>15, <1>16, <1>17, <1>18, <1>19, <1>20, <1>21, <1>22, <1>23, Zenon DEF Next, Step

TaskRow == [status : {"none", "queued", "running", "completed", "failed"}, attempts : 0 .. MaxAttempts]

TaskType ==
  /\ task \in [Sync \cup Link -> TaskRow]
  /\ closed \subseteq Sync \X (1 .. MaxAttempts)

\* A row of the queue whose attempts fit its status.
TaskFits(t) ==
  /\ t \in TaskRow
  /\ t.status = "none" => t.attempts = 0
  /\ t.status = "queued" => t.attempts < MaxAttempts

\* Enqueueing keeps the rows in shape and leaves the attempts alone.
LEMMA EnqueuedFits ==
  ASSUME NEW k \in Sync \cup Link, task \in [Sync \cup Link -> TaskRow],
         \A j \in Sync \cup Link : TaskFits(task[j])
  PROVE /\ Enqueued(k) \in [Sync \cup Link -> TaskRow]
        /\ \A j \in Sync \cup Link : /\ TaskFits(Enqueued(k)[j])
                                     /\ Enqueued(k)[j].attempts = task[j].attempts
  <1> DEFINE t == [task[k] EXCEPT !.status = "queued"]
  <1>1. t \in TaskRow /\ t.attempts = task[k].attempts /\ t.status = "queued"
    BY DEF TaskRow
  <1>2. task[k].status = "none" => TaskFits(t)
    BY <1>1, BoundAssumption DEF TaskFits
  <1>3. Enqueued(k) = IF task[k].status = "none" THEN [task EXCEPT ![k] = t] ELSE task
    BY DEF Enqueued
  <1> HIDE DEF t
  <1> QED
    BY <1>1, <1>2, <1>3

LEMMA AttemptsStep == Types /\ [Next]_vars => TaskType' /\ AttemptsFit'
  <1> SUFFICES ASSUME Types, [Next]_vars PROVE TaskType' /\ AttemptsFit'
    OBVIOUS
  <1>0. /\ TaskType /\ AttemptsFit /\ RunType
        /\ \A w \in Worker : run[w] \in Run /\ Fits(run[w])
        /\ \A j \in Sync \cup Link : TaskFits(task[j])
    BY DEF Types, TypeOK, TaskType, TaskRow, RunsFit, RunType, TaskFits, AttemptsFit
  <1>00. \A k \in Sync \cup Link :
           /\ Enqueued(k) \in [Sync \cup Link -> TaskRow]
           /\ \A j \in Sync \cup Link : /\ TaskFits(Enqueued(k)[j])
                                        /\ Enqueued(k)[j].attempts = task[j].attempts
    BY <1>0, EnqueuedFits DEF TaskType
  <1> USE <1>0 DEF TaskType, AttemptsFit, RunType
  <1>1. ASSUME NEW w \in Worker, NEW k \in Sync \cup Link, Claim(w, k) PROVE TaskType' /\ AttemptsFit'
    <2>1. Leaves(w, [Free EXCEPT !.pc = IF k \in Sync THEN "begin" ELSE "page", !.key = k])
      BY <1>1, <1>0, Steps
    <2> QED
      <3> DEFINE t == [task[k] EXCEPT !.status = "running", !.attempts = @ + 1]
      <3>1. task' = [task EXCEPT ![k] = t]
        BY <1>1 DEF Claim, TaskRow
      <3>2. task[k].attempts + 1 \in 1 .. MaxAttempts
        BY <1>1, BoundAssumption DEF Claim, TaskFits, TaskRow
      <3>3. t \in TaskRow /\ t.status = "running" /\ t.attempts = task[k].attempts + 1
        <4>1. task[k] \in TaskRow
          OBVIOUS
        <4>2. task[k].attempts + 1 \in 0 .. MaxAttempts
          BY <3>2
        <4> QED
          BY <4>1, <4>2 DEF TaskRow
      <3>4. run'[w].key = k /\ \A v \in Worker \ {w} : run'[v] = run[v]
        BY <2>1 DEF Leaves, Free
      <3>5. closed' = closed
        BY <1>1 DEF Claim
      <3>6. \A j \in Sync \cup Link : task'[j].attempts >= task[j].attempts
        BY <3>1, <3>2, <3>3 DEF TaskRow
      <3> HIDE DEF t
      <3>7. \A v \in Worker \ {w} : run[v].pc # "idle" => task'[run[v].key].attempts >= 1
        BY <3>1, <3>2, <3>3, <3>6 DEF Run, TaskRow
      <3> QED
        BY <3>1, <3>2, <3>3, <3>4, <3>5, <3>7
  <1>2. ASSUME NEW w \in Worker, Gone(w) \/ Stop(w) \/ Complete(w) PROVE TaskType' /\ AttemptsFit'
    <2>1. Leaves(w, Free)
      BY <1>2, <1>0, Steps
    <2> QED
      <3>1. run'[w].pc = "idle" /\ \A v \in Worker \ {w} : run'[v] = run[v]
        BY <2>1 DEF Leaves, Free
      <3>2. run[w].key \in Sync \cup Link
        BY DEF Run
      <3>3. PICK t \in TaskRow : /\ task' = [task EXCEPT ![run[w].key] = t] /\ TaskFits(t)
                                /\ t.attempts = task[run[w].key].attempts
        <4> DEFINE k == run[w].key
                   u(x) == [task[k] EXCEPT !.status = x]
        <4>1. \A x \in {"queued", "running", "completed", "failed"} :
                u(x) \in TaskRow /\ u(x).status = x /\ u(x).attempts = task[k].attempts
          BY <3>2 DEF TaskRow
        <4>2. CASE Complete(w)
          <5>1. task' = [task EXCEPT ![k] = u("completed")]
            BY <4>2 DEF Complete
          <5>2. TaskFits(u("completed"))
            BY <4>1 DEF TaskFits
          <5> QED
            BY <4>1, <5>1, <5>2
        <4>3. CASE Gone(w) \/ Stop(w)
          <5>1. CASE task[k].status # "running"
            <6>1. task' = [task EXCEPT ![k] = task[k]]
              BY <4>3, <5>1, <3>2 DEF Gone, Stop, Abandon, TaskRow
            <6> QED
              BY <6>1, <3>2
          <5>2. CASE task[k].status = "running"
            <6> DEFINE x == IF task[k].attempts < MaxAttempts THEN "queued" ELSE "failed"
            <6>1. task' = [task EXCEPT ![k] = u(x)]
              BY <4>3, <5>2, <3>2 DEF Gone, Stop, Abandon
            <6>2. TaskFits(u(x)) /\ u(x) \in TaskRow /\ u(x).attempts = task[k].attempts
              BY <4>1 DEF TaskFits
            <6> QED
              BY <6>1, <6>2
          <5> QED
            BY <5>1, <5>2
        <4> QED
          BY <1>2, <4>2, <4>3
      <3>4. closed' = closed
        BY <1>2 DEF Gone, Stop, Complete
      <3>5. \A j \in Sync \cup Link : task'[j].attempts = task[j].attempts /\ TaskFits(task'[j])
        BY <3>2, <3>3
      <3>6. task' \in [Sync \cup Link -> TaskRow]
        BY <3>2, <3>3
      <3> QED
        BY <3>1, <3>4, <3>5, <3>6 DEF Run, TaskFits
  <1>3. ASSUME NEW w \in Worker, Begin(w) PROVE TaskType' /\ AttemptsFit'
    <2>1. Leaves(w, [run[w] EXCEPT !.pc = "begun", !.row = src])
      BY <1>3, <1>0, Steps
    <2> QED
      BY <1>3, <2>1 DEF Begin, Leaves
  <1>4. ASSUME NEW w \in Worker, Disabled(w) \/ Cooldown(w) PROVE TaskType' /\ AttemptsFit'
    <2>1. Leaves(w, [run[w] EXCEPT !.pc = "finish"])
      BY <1>4, <1>0, Steps
    <2> QED
      BY <1>4, <2>1 DEF Disabled, Cooldown, Leaves
  <1>5. ASSUME NEW w \in Worker, Check(w) PROVE TaskType' /\ AttemptsFit'
    <2>1. Leaves(w, [run[w] EXCEPT !.pc = "fetch"])
      BY <1>5, <1>0, Steps
    <2> QED
      BY <1>5, <2>1 DEF Check, Leaves
  <1>6. ASSUME NEW w \in Worker, SameContent(w) \/ FetchFails(w) PROVE TaskType' /\ AttemptsFit'
    <2>1. Leaves(w, [run[w] EXCEPT !.pc = "finish", !.row = NewRow])
      BY <1>6, <1>0, Steps
    <2> QED
      BY <1>6, <2>1 DEF SameContent, FetchFails, Leaves
  <1>7. ASSUME NEW w \in Worker, NewContent(w) PROVE TaskType' /\ AttemptsFit'
    <2>1. Leaves(w, [run[w] EXCEPT !.pc = "items", !.row = NewRow, !.snap = web, !.todo = Entry])
      BY <1>7, <1>0, Steps
    <2> QED
      BY <1>7, <2>1 DEF NewContent, Leaves
  <1>8. ASSUME NEW w \in Worker, NEW e \in Entry, RegisterItem(w, e) PROVE TaskType' /\ AttemptsFit'
    <2>1. Leaves(w, [run[w] EXCEPT !.new = New(w, <<e, run[w].snap[e]>>), !.pc = "upsert", !.at = {e}])
      BY <1>8, <1>0, Steps
    <2> QED
      <3>1. /\ run'[w].key = run[w].key /\ run[w].pc # "idle"
            /\ \A v \in Worker \ {w} : run'[v] = run[v]
        BY ZenonT(30), <1>8, <2>1 DEF RegisterItem, Leaves, Run
      <3> QED
        BY <1>8, <3>1 DEF RegisterItem
  <1>9. ASSUME NEW w \in Worker, NEW e \in Entry, ListItem(w, e) PROVE TaskType' /\ AttemptsFit'
    <2>1. Leaves(w, [run[w] EXCEPT !.pc = "upsert", !.at = {e}, !.links = IF Changed(w, e) THEN @ \cup {e} ELSE @])
      BY <1>9, <1>0, Steps
    <2> QED
      BY <1>9, <2>1 DEF ListItem, Leaves
  <1>10. ASSUME NEW w \in Worker, NEW e \in Entry, StoreItem(w, e) PROVE TaskType' /\ AttemptsFit'
    <2>1. Leaves(w, [run[w] EXCEPT !.pc = "items", !.todo = @ \ {e}, !.at = {}])
      BY <1>10, <1>0, Steps
    <2> QED
      BY <1>10, <2>1 DEF StoreItem, Leaves
  <1>11. ASSUME NEW w \in Worker, Parent(w) PROVE TaskType' /\ AttemptsFit'
    <2>1. Leaves(w, [run[w] EXCEPT !.pc = "finish", !.snap = Nothing])
      BY <1>11, <1>0, Steps
    <2> QED
      BY <1>11, <2>1 DEF Parent, Leaves
  <1>12. ASSUME NEW w \in Worker, FinishSyncRun(w) \/ PageUnchanged(w) PROVE TaskType' /\ AttemptsFit'
    <2>1. Leaves(w, [run[w] EXCEPT !.pc = "queue"])
      BY <1>12, <1>0, Steps
    <2> QED
      <3>1. /\ run'[w].key = run[w].key /\ run[w].pc # "idle"
            /\ \A v \in Worker \ {w} : run'[v] = run[v]
        BY <1>12, <2>1 DEF FinishSyncRun, PageUnchanged, Leaves, Run
      <3>2. closed' \subseteq Sync \X (1 .. MaxAttempts)
        <4>1. CASE FinishSyncRun(w)
          <5>1. run[w].key \in Sync
            BY <4>1 DEF FinishSyncRun, Fits, SyncPC
          <5>2. task[run[w].key].attempts \in 1 .. MaxAttempts
            BY <3>1, <5>1 DEF TaskRow
          <5> QED
            BY <4>1, <5>1, <5>2 DEF FinishSyncRun
        <4>2. CASE PageUnchanged(w)
          BY <4>2 DEF PageUnchanged
        <4> QED
          BY <1>12, <4>1, <4>2
      <3> QED
        BY <1>12, <3>1, <3>2 DEF FinishSyncRun, PageUnchanged
  <1>13. ASSUME NEW w \in Worker, QueueJob(w) PROVE TaskType' /\ AttemptsFit'
    <2>1. PICK d \in run[w].new : ingest' = ingest \cup {d} /\ Leaves(w, [run[w] EXCEPT !.new = @ \ {d}])
      BY <1>13, <1>0, Steps
    <2> QED
      BY <1>13, <2>1 DEF QueueJob, Leaves
  <1>14. ASSUME NEW w \in Worker, QueueLink(w) PROVE TaskType' /\ AttemptsFit'
    <2>1. PICK e \in run[w].links : task' = Enqueued(e) /\ Leaves(w, [run[w] EXCEPT !.links = @ \ {e}])
      BY <1>14, <1>0, Steps
    <2> QED
      <3>1. /\ run'[w].key = run[w].key /\ run[w].pc # "idle"
            /\ \A v \in Worker \ {w} : run'[v] = run[v]
        BY <1>14, <2>1 DEF QueueLink, Leaves, Run
      <3>2. e \in Sync \cup Link /\ closed' = closed
        BY <1>14 DEF QueueLink, Run
      <3> QED
        <4>1. task' \in [Sync \cup Link -> TaskRow]
          BY <2>1, <3>2, <1>00
        <4>2. \A j \in Sync \cup Link : TaskFits(task'[j]) /\ task'[j].attempts = task[j].attempts
          BY <2>1, <3>2, <1>00
        <4> QED
          BY <3>1, <3>2, <4>1, <4>2 DEF Run, TaskFits
  <1>15. ASSUME NEW w \in Worker, RegisterPage(w) PROVE TaskType' /\ AttemptsFit'
    <2>1. Leaves(w, [run[w] EXCEPT !.new = New(w, <<run[w].key, web[run[w].key]>>), !.pc = "save", !.snap = web])
      BY <1>15, <1>0, Steps
    <2> QED
      <3>1. /\ run'[w].key = run[w].key /\ run[w].pc # "idle"
            /\ \A v \in Worker \ {w} : run'[v] = run[v]
        <4>1. PICK x : Leaves(w, [run[w] EXCEPT !.new = x, !.pc = "save", !.snap = web])
          BY <2>1
        <4>2. run[w].pc = "page"
          BY <1>15 DEF RegisterPage
        <4> QED
          BY <4>1, <4>2 DEF Leaves, Run
      <3> QED
        BY <1>15, <3>1 DEF RegisterPage
  <1>16. ASSUME NEW w \in Worker, SavePage(w) PROVE TaskType' /\ AttemptsFit'
    <2>1. Leaves(w, [run[w] EXCEPT !.pc = "queue", !.snap = Nothing])
      BY <1>16, <1>0, Steps
    <2> QED
      BY <1>16, <2>1 DEF SavePage, Leaves
  <1>17. ASSUME NEW r \in {"scheduler", "user"}, Ask(r) \/ Queue(r) PROVE TaskType' /\ AttemptsFit'
    <2>1. run' = run /\ closed' = closed
      BY <1>17 DEF Ask, Queue
    <2>2. task' = task \/ \E k \in Sync \cup Link : task' = Enqueued(k)
      BY <1>17 DEF Ask, Queue, Sync
    <2> QED
      <3>1. task' \in [Sync \cup Link -> TaskRow]
        BY <2>2, <1>00
      <3>2. \A j \in Sync \cup Link : TaskFits(task'[j]) /\ task'[j].attempts = task[j].attempts
        BY <2>2, <1>00
      <3> QED
        BY <2>1, <3>1, <3>2 DEF Run, TaskFits
  <1>18. CASE Retry
    BY <1>18 DEF Retry
  <1>19. CASE UpdateConfig
    BY <1>19 DEF UpdateConfig
  <1>20. CASE Delete
    BY <1>20 DEF Delete
  <1>21. CASE Tick
    BY <1>21 DEF Tick
  <1>22. ASSUME NEW e \in Entry, Publish(e) PROVE TaskType' /\ AttemptsFit'
    BY <1>22 DEF Publish
  <1>23. CASE UNCHANGED vars
    BY <1>23 DEF vars
  <1> QED
    BY <1>1, <1>2, <1>3, <1>4, <1>5, <1>6, <1>7, <1>8, <1>9, <1>10, <1>11, <1>12, <1>13, <1>14,
       <1>15, <1>16, <1>17, <1>18, <1>19, <1>20, <1>21, <1>22, <1>23, Zenon DEF Next, Step

LEMMA TypesStep == Types /\ [Next]_vars => Types'
  <1> SUFFICES ASSUME Types, [Next]_vars PROVE Types'
    OBVIOUS
  <1>1. RunType' /\ RunsFit' /\ SiteType' /\ DocsType' /\ TaskType' /\ AttemptsFit'
    BY RunStep, SiteStep, DocsStep, AttemptsStep
  <1>2. \A w \in Worker : run'[w] \in Run
    BY <1>1 DEF RunType
  <1>3. TypeOK'
    BY <1>1, <1>2 DEF TypeOK, SiteType, DocsType, TaskType, TaskRow, Run, SyncPC, PagePC
  <1> QED
    BY <1>1, <1>3 DEF Types

-----------------------------------------------------------------------------
(* Syncs that do not overlap. *)

\* Only a claim starts a sync; another step of the worker goes on with it.
GoesOn(w) ==
  /\ overlap' = overlap /\ run[w].pc # "idle"
  /\ run'[w].pc = "idle" \/ run'[w].key = run[w].key
  /\ \A v \in Worker \ {w} : run'[v] = run[v]

LEMMA OneSyncStep == Types /\ OneSync /\ [Next]_vars => OneSync'
  <1> SUFFICES ASSUME Types, OneSync, [Next]_vars PROVE OneSync'
    OBVIOUS
  <1>0. RunType /\ \A w \in Worker : run[w] \in Run /\ Fits(run[w])
    BY DEF Types, RunType, RunsFit
  <1>1. ASSUME NEW w \in Worker, NEW k \in Sync \cup Link, Claim(w, k) PROVE OneSync'
    <2>1. Leaves(w, [Free EXCEPT !.pc = IF k \in Sync THEN "begin" ELSE "page", !.key = k])
      BY <1>1, <1>0, Steps
    <2>2. run'[w].key = k /\ \A v \in Worker \ {w} : run'[v] = run[v]
      BY <1>0, <2>1 DEF Leaves, RunType, Free
    <2>3. /\ run[w].pc = "idle"
          /\ overlap' = (overlap \/ (k \in Sync /\ \E v \in Worker : run[v].pc # "idle" /\ run[v].key \in Sync))
      BY <1>1 DEF Claim
    <2> QED
      BY <2>2, <2>3, Zenon DEF OneSync, Syncing
  <1>2. ASSUME NEW w \in Worker, Gone(w) \/ Stop(w) \/ Complete(w) PROVE GoesOn(w)
    <2>1. Leaves(w, Free)
      BY <1>2, <1>0, Steps
    <2>2. /\ run'[w].pc = "idle" \/ run'[w].key = run[w].key
          /\ \A v \in Worker \ {w} : run'[v] = run[v]
      BY <1>0, <2>1 DEF Leaves, RunType, Run, Free
    <2>3. overlap' = overlap /\ run[w].pc # "idle"
      BY <1>2 DEF Gone, Stop, Complete
    <2> QED
      BY <2>2, <2>3 DEF GoesOn
  <1>3. ASSUME NEW w \in Worker, Begin(w) PROVE GoesOn(w)
    <2>1. Leaves(w, [run[w] EXCEPT !.pc = "begun", !.row = src])
      BY <1>3, <1>0, Steps
    <2>2. /\ run'[w].pc = "idle" \/ run'[w].key = run[w].key
          /\ \A v \in Worker \ {w} : run'[v] = run[v]
      BY <1>0, <2>1 DEF Leaves, RunType, Run
    <2>3. overlap' = overlap /\ run[w].pc # "idle"
      BY <1>3 DEF Begin
    <2> QED
      BY <2>2, <2>3 DEF GoesOn
  <1>4. ASSUME NEW w \in Worker, Disabled(w) \/ Cooldown(w) PROVE GoesOn(w)
    <2>1. Leaves(w, [run[w] EXCEPT !.pc = "finish"])
      BY <1>4, <1>0, Steps
    <2>2. /\ run'[w].pc = "idle" \/ run'[w].key = run[w].key
          /\ \A v \in Worker \ {w} : run'[v] = run[v]
      BY <1>0, <2>1 DEF Leaves, RunType, Run
    <2>3. overlap' = overlap /\ run[w].pc # "idle"
      BY <1>4 DEF Disabled, Cooldown
    <2> QED
      BY <2>2, <2>3 DEF GoesOn
  <1>5. ASSUME NEW w \in Worker, Check(w) PROVE GoesOn(w)
    <2>1. Leaves(w, [run[w] EXCEPT !.pc = "fetch"])
      BY <1>5, <1>0, Steps
    <2>2. /\ run'[w].pc = "idle" \/ run'[w].key = run[w].key
          /\ \A v \in Worker \ {w} : run'[v] = run[v]
      BY <1>0, <2>1 DEF Leaves, RunType, Run
    <2>3. overlap' = overlap /\ run[w].pc # "idle"
      BY <1>5 DEF Check
    <2> QED
      BY <2>2, <2>3 DEF GoesOn
  <1>6. ASSUME NEW w \in Worker, SameContent(w) \/ FetchFails(w) PROVE GoesOn(w)
    <2>1. Leaves(w, [run[w] EXCEPT !.pc = "finish", !.row = NewRow])
      BY <1>6, <1>0, Steps
    <2>2. /\ run'[w].pc = "idle" \/ run'[w].key = run[w].key
          /\ \A v \in Worker \ {w} : run'[v] = run[v]
      BY <1>0, <2>1 DEF Leaves, RunType, Run
    <2>3. overlap' = overlap /\ run[w].pc # "idle"
      BY <1>6 DEF SameContent, FetchFails
    <2> QED
      BY <2>2, <2>3 DEF GoesOn
  <1>7. ASSUME NEW w \in Worker, NewContent(w) PROVE GoesOn(w)
    <2>1. Leaves(w, [run[w] EXCEPT !.pc = "items", !.row = NewRow, !.snap = web, !.todo = Entry])
      BY <1>7, <1>0, Steps
    <2>2. /\ run'[w].pc = "idle" \/ run'[w].key = run[w].key
          /\ \A v \in Worker \ {w} : run'[v] = run[v]
      BY <1>0, <2>1 DEF Leaves, RunType, Run
    <2>3. overlap' = overlap /\ run[w].pc # "idle"
      BY <1>7 DEF NewContent
    <2> QED
      BY <2>2, <2>3 DEF GoesOn
  <1>8. ASSUME NEW w \in Worker, NEW e \in Entry, RegisterItem(w, e) PROVE GoesOn(w)
    <2>1. Leaves(w, [run[w] EXCEPT !.new = New(w, <<e, run[w].snap[e]>>), !.pc = "upsert", !.at = {e}])
      BY <1>8, <1>0, Steps
    <2>2. /\ run'[w].pc = "idle" \/ run'[w].key = run[w].key
          /\ \A v \in Worker \ {w} : run'[v] = run[v]
      BY <1>0, <2>1 DEF Leaves, RunType, Run
    <2>3. overlap' = overlap /\ run[w].pc # "idle"
      BY <1>8 DEF RegisterItem
    <2> QED
      BY <2>2, <2>3 DEF GoesOn
  <1>9. ASSUME NEW w \in Worker, NEW e \in Entry, ListItem(w, e) PROVE GoesOn(w)
    <2>1. Leaves(w, [run[w] EXCEPT !.pc = "upsert", !.at = {e}, !.links = IF Changed(w, e) THEN @ \cup {e} ELSE @])
      BY <1>9, <1>0, Steps
    <2>2. /\ run'[w].pc = "idle" \/ run'[w].key = run[w].key
          /\ \A v \in Worker \ {w} : run'[v] = run[v]
      BY <1>0, <2>1 DEF Leaves, RunType, Run
    <2>3. overlap' = overlap /\ run[w].pc # "idle"
      BY <1>9 DEF ListItem
    <2> QED
      BY <2>2, <2>3 DEF GoesOn
  <1>10. ASSUME NEW w \in Worker, NEW e \in Entry, StoreItem(w, e) PROVE GoesOn(w)
    <2>1. Leaves(w, [run[w] EXCEPT !.pc = "items", !.todo = @ \ {e}, !.at = {}])
      BY <1>10, <1>0, Steps
    <2>2. /\ run'[w].pc = "idle" \/ run'[w].key = run[w].key
          /\ \A v \in Worker \ {w} : run'[v] = run[v]
      BY <1>0, <2>1 DEF Leaves, RunType, Run
    <2>3. overlap' = overlap /\ run[w].pc # "idle"
      BY <1>10 DEF StoreItem
    <2> QED
      BY <2>2, <2>3 DEF GoesOn
  <1>11. ASSUME NEW w \in Worker, Parent(w) PROVE GoesOn(w)
    <2>1. Leaves(w, [run[w] EXCEPT !.pc = "finish", !.snap = Nothing])
      BY <1>11, <1>0, Steps
    <2>2. /\ run'[w].pc = "idle" \/ run'[w].key = run[w].key
          /\ \A v \in Worker \ {w} : run'[v] = run[v]
      BY <1>0, <2>1 DEF Leaves, RunType, Run
    <2>3. overlap' = overlap /\ run[w].pc # "idle"
      BY <1>11 DEF Parent
    <2> QED
      BY <2>2, <2>3 DEF GoesOn
  <1>12. ASSUME NEW w \in Worker, FinishSyncRun(w) \/ PageUnchanged(w) PROVE GoesOn(w)
    <2>1. Leaves(w, [run[w] EXCEPT !.pc = "queue"])
      BY <1>12, <1>0, Steps
    <2>2. /\ run'[w].pc = "idle" \/ run'[w].key = run[w].key
          /\ \A v \in Worker \ {w} : run'[v] = run[v]
      BY <1>0, <2>1 DEF Leaves, RunType, Run
    <2>3. overlap' = overlap /\ run[w].pc # "idle"
      BY <1>12 DEF FinishSyncRun, PageUnchanged
    <2> QED
      BY <2>2, <2>3 DEF GoesOn
  <1>13. ASSUME NEW w \in Worker, QueueJob(w) PROVE GoesOn(w)
    <2>1. PICK d \in run[w].new : ingest' = ingest \cup {d} /\ Leaves(w, [run[w] EXCEPT !.new = @ \ {d}])
      BY <1>13, <1>0, Steps
    <2>2. /\ run'[w].pc = "idle" \/ run'[w].key = run[w].key
          /\ \A v \in Worker \ {w} : run'[v] = run[v]
      BY <1>0, <2>1 DEF Leaves, RunType, Run
    <2>3. overlap' = overlap /\ run[w].pc # "idle"
      BY <1>13 DEF QueueJob
    <2> QED
      BY <2>2, <2>3 DEF GoesOn
  <1>14. ASSUME NEW w \in Worker, QueueLink(w) PROVE GoesOn(w)
    <2>1. PICK e \in run[w].links : task' = Enqueued(e) /\ Leaves(w, [run[w] EXCEPT !.links = @ \ {e}])
      BY <1>14, <1>0, Steps
    <2>2. /\ run'[w].pc = "idle" \/ run'[w].key = run[w].key
          /\ \A v \in Worker \ {w} : run'[v] = run[v]
      BY <1>0, <2>1 DEF Leaves, RunType, Run
    <2>3. overlap' = overlap /\ run[w].pc # "idle"
      BY <1>14 DEF QueueLink
    <2> QED
      BY <2>2, <2>3 DEF GoesOn
  <1>15. ASSUME NEW w \in Worker, RegisterPage(w) PROVE GoesOn(w)
    <2>1. Leaves(w, [run[w] EXCEPT !.new = New(w, <<run[w].key, web[run[w].key]>>), !.pc = "save", !.snap = web])
      BY <1>15, <1>0, Steps
    <2>2. /\ run'[w].pc = "idle" \/ run'[w].key = run[w].key
          /\ \A v \in Worker \ {w} : run'[v] = run[v]
      BY <1>0, <2>1 DEF Leaves, RunType, Run
    <2>3. overlap' = overlap /\ run[w].pc # "idle"
      BY <1>15 DEF RegisterPage
    <2> QED
      BY <2>2, <2>3 DEF GoesOn
  <1>16. ASSUME NEW w \in Worker, SavePage(w) PROVE GoesOn(w)
    <2>1. Leaves(w, [run[w] EXCEPT !.pc = "queue", !.snap = Nothing])
      BY <1>16, <1>0, Steps
    <2>2. /\ run'[w].pc = "idle" \/ run'[w].key = run[w].key
          /\ \A v \in Worker \ {w} : run'[v] = run[v]
      BY <1>0, <2>1 DEF Leaves, RunType, Run
    <2>3. overlap' = overlap /\ run[w].pc # "idle"
      BY <1>16 DEF SavePage
    <2> QED
      BY <2>2, <2>3 DEF GoesOn
  <1>17. ASSUME NEW r \in {"scheduler", "user"}, Ask(r) \/ Queue(r) PROVE UNCHANGED <<run, overlap>>
    BY <1>17 DEF Ask, Queue
  <1>18. ASSUME Retry \/ UpdateConfig \/ Delete \/ Tick \/ UNCHANGED vars PROVE UNCHANGED <<run, overlap>>
    BY <1>18 DEF Retry, UpdateConfig, Delete, Tick, vars
  <1>19. ASSUME NEW e \in Entry, Publish(e) PROVE UNCHANGED <<run, overlap>>
    BY <1>19 DEF Publish
  <1>20. ASSUME NEW w \in Worker, GoesOn(w) PROVE OneSync'
    BY <1>20, Zenon DEF GoesOn, OneSync, Syncing
  <1>21. ASSUME UNCHANGED <<run, overlap>> PROVE OneSync'
    BY <1>21 DEF OneSync, Syncing
  <1> QED
    BY <1>1, <1>2, <1>3, <1>4, <1>5, <1>6, <1>7, <1>8, <1>9, <1>10, <1>11, <1>12, <1>13, <1>14,
       <1>15, <1>16, <1>17, <1>18, <1>19, <1>20, <1>21, Zenon DEF Next, Step

-----------------------------------------------------------------------------
(* What steps may change of the shared state, and from where a worker enters *)
(* the places that the invariant is about.                                   *)

Effect(w) ==
  /\ web' = web /\ docs \subseteq docs' /\ (overlap => overlap')
  /\ faults' \in {faults, faults + 1}
  /\ src'.present = src.present
  /\ src'.hash = src.hash \/ Parent(w)
  /\ src'.cooling => src.cooling \/ FetchFails(w)
  /\ (\A e \in Text : items'[e] = items[e]) \/ \E e \in Entry : StoreItem(w, e)
  /\ \A v \in Worker \ {w} : run'[v] = run[v]
  /\ run'[w].snap \in {run[w].snap, Nothing, web}
  /\ run'[w].pc = "begun" => Begin(w)
  /\ run'[w].pc = "items" => NewContent(w) \/ \E e \in Entry : StoreItem(w, e)
  /\ run'[w].pc = "upsert" => \E e \in Entry : RegisterItem(w, e) \/ ListItem(w, e)

LEMMA WorkerEffect ==
  ASSUME Types, NEW w \in Worker, Step(w) \/ Stop(w) \/ FetchFails(w)
  PROVE Effect(w)
  <1>0. RunType /\ src \in Row /\ overlap \in BOOLEAN /\ items \in [Entry -> Hash] /\ \A v \in Worker : run[v] \in Run /\ Fits(run[v])
    BY DEF Types, TypeOK, RunType, RunsFit
  <1>1. ASSUME NEW k \in Sync \cup Link, Claim(w, k) PROVE Effect(w)
    <2>1. Leaves(w, [Free EXCEPT !.pc = IF k \in Sync THEN "begin" ELSE "page", !.key = k])
      BY <1>1, <1>0, Steps
    <2>2. /\ run'[w].pc \in {"begin", "page"} /\ run'[w].snap = Nothing
          /\ \A v \in Worker \ {w} : run'[v] = run[v]
      BY <1>1, <1>0, <2>1 DEF Leaves, RunType, Run, Free
    <2> QED
      BY <1>1, <1>0, <2>2 DEF Effect, Claim
  <1>2. ASSUME Gone(w) \/ Stop(w) \/ Complete(w) PROVE Effect(w)
    <2>1. Leaves(w, Free)
      BY <1>2, <1>0, Steps
    <2>2. /\ run'[w].pc = "idle" /\ run'[w].snap = Nothing
          /\ \A v \in Worker \ {w} : run'[v] = run[v]
      BY <1>2, <1>0, <2>1 DEF Leaves, RunType, Run, Free
    <2> QED
      BY <1>2, <1>0, <2>2 DEF Effect, Gone, Stop, Complete, Abandon
  <1>3. ASSUME Begin(w) PROVE Effect(w)
    <2>1. Leaves(w, [run[w] EXCEPT !.pc = "begun", !.row = src])
      BY <1>3, <1>0, Steps
    <2>2. /\ run'[w].pc = "begun" /\ run'[w].snap = run[w].snap
          /\ \A v \in Worker \ {w} : run'[v] = run[v]
      BY <1>3, <1>0, <2>1 DEF Leaves, RunType, Run
    <2> QED
      BY <1>3, <1>0, <2>2 DEF Effect, Begin
  <1>4. ASSUME Disabled(w) \/ Cooldown(w) PROVE Effect(w)
    <2>1. Leaves(w, [run[w] EXCEPT !.pc = "finish"])
      BY <1>4, <1>0, Steps
    <2>2. /\ run'[w].pc = "finish" /\ run'[w].snap = run[w].snap
          /\ \A v \in Worker \ {w} : run'[v] = run[v]
      BY <1>4, <1>0, <2>1 DEF Leaves, RunType, Run
    <2> QED
      BY <1>4, <1>0, <2>2 DEF Effect, Disabled, Cooldown
  <1>5. ASSUME Check(w) PROVE Effect(w)
    <2>1. Leaves(w, [run[w] EXCEPT !.pc = "fetch"])
      BY <1>5, <1>0, Steps
    <2>2. /\ run'[w].pc = "fetch" /\ run'[w].snap = run[w].snap
          /\ \A v \in Worker \ {w} : run'[v] = run[v]
      BY <1>5, <1>0, <2>1 DEF Leaves, RunType, Run
    <2> QED
      BY <1>5, <1>0, <2>2 DEF Effect, Check
  <1>6. ASSUME SameContent(w) \/ FetchFails(w) PROVE Effect(w)
    <2>1. Leaves(w, [run[w] EXCEPT !.pc = "finish", !.row = NewRow])
      BY <1>6, <1>0, Steps
    <2>2. /\ run'[w].pc = "finish" /\ run'[w].snap = run[w].snap
          /\ \A v \in Worker \ {w} : run'[v] = run[v]
      BY <1>6, <1>0, <2>1 DEF Leaves, RunType, Run
    <2>3. /\ src'.present = src.present /\ src'.hash = src.hash
          /\ src'.cooling => src.cooling \/ FetchFails(w)
      <3>1. CASE SameContent(w)
        BY <3>1, <1>0 DEF SameContent, UpdateResult, Row
      <3>2. CASE FetchFails(w)
        BY <3>2, <1>0 DEF FetchFails, UpdateResult, Row
      <3> QED
        BY <1>6, <3>1, <3>2
    <2>4. web' = web /\ docs' = docs /\ overlap' = overlap /\ items' = items /\ faults' \in {faults, faults + 1}
      BY <1>6 DEF SameContent, FetchFails
    <2> QED
      BY <2>2, <2>3, <2>4 DEF Effect
  <1>7. ASSUME NewContent(w) PROVE Effect(w)
    <2>1. Leaves(w, [run[w] EXCEPT !.pc = "items", !.row = NewRow, !.snap = web, !.todo = Entry])
      BY <1>7, <1>0, Steps
    <2>2. /\ run'[w].pc = "items" /\ run'[w].snap = web
          /\ \A v \in Worker \ {w} : run'[v] = run[v]
      BY <1>7, <1>0, <2>1 DEF Leaves, RunType, Run
    <2> QED
      BY <1>7, <1>0, <2>2 DEF Effect, NewContent
  <1>8. ASSUME NEW e \in Entry, RegisterItem(w, e) PROVE Effect(w)
    <2>1. Leaves(w, [run[w] EXCEPT !.new = New(w, <<e, run[w].snap[e]>>), !.pc = "upsert", !.at = {e}])
      BY <1>8, <1>0, Steps
    <2>2. /\ run'[w].pc = "upsert" /\ run'[w].snap = run[w].snap
          /\ \A v \in Worker \ {w} : run'[v] = run[v]
      BY <1>8, <1>0, <2>1 DEF Leaves, RunType, Run
    <2> QED
      BY <1>8, <1>0, <2>2 DEF Effect, RegisterItem
  <1>9. ASSUME NEW e \in Entry, ListItem(w, e) PROVE Effect(w)
    <2>1. Leaves(w, [run[w] EXCEPT !.pc = "upsert", !.at = {e}, !.links = IF Changed(w, e) THEN @ \cup {e} ELSE @])
      BY <1>9, <1>0, Steps
    <2>2. /\ run'[w].pc = "upsert" /\ run'[w].snap = run[w].snap
          /\ \A v \in Worker \ {w} : run'[v] = run[v]
      BY <1>9, <1>0, <2>1 DEF Leaves, RunType, Run
    <2> QED
      BY <1>9, <1>0, <2>2 DEF Effect, ListItem
  <1>10. ASSUME NEW e \in Entry, StoreItem(w, e) PROVE Effect(w)
    <2>1. Leaves(w, [run[w] EXCEPT !.pc = "items", !.todo = @ \ {e}, !.at = {}])
      BY <1>10, <1>0, Steps
    <2>2. /\ run'[w].pc = "items" /\ run'[w].snap = run[w].snap
          /\ \A v \in Worker \ {w} : run'[v] = run[v]
      BY <1>10, <1>0, <2>1 DEF Leaves, RunType, Run
    <2> QED
      BY <1>10, <1>0, <2>2 DEF Effect, StoreItem
  <1>11. ASSUME Parent(w) PROVE Effect(w)
    <2>1. Leaves(w, [run[w] EXCEPT !.pc = "finish", !.snap = Nothing])
      BY <1>11, <1>0, Steps
    <2>2. /\ run'[w].pc = "finish" /\ run'[w].snap = Nothing
          /\ \A v \in Worker \ {w} : run'[v] = run[v]
      BY <1>11, <1>0, <2>1 DEF Leaves, RunType, Run
    <2>3. src'.present = src.present /\ (src'.cooling => src.cooling)
      BY <1>11, <1>0 DEF Parent, UpdateResult, Row
    <2>4. web' = web /\ docs' = docs /\ overlap' = overlap /\ items' = items /\ faults' = faults
      BY <1>11 DEF Parent
    <2> QED
      BY <1>11, <2>2, <2>3, <2>4 DEF Effect
  <1>12. ASSUME FinishSyncRun(w) \/ PageUnchanged(w) PROVE Effect(w)
    <2>1. Leaves(w, [run[w] EXCEPT !.pc = "queue"])
      BY <1>12, <1>0, Steps
    <2>2. /\ run'[w].pc = "queue" /\ run'[w].snap = run[w].snap
          /\ \A v \in Worker \ {w} : run'[v] = run[v]
      BY <1>12, <1>0, <2>1 DEF Leaves, RunType, Run
    <2> QED
      BY <1>12, <1>0, <2>2 DEF Effect, FinishSyncRun, PageUnchanged
  <1>13. ASSUME QueueJob(w) PROVE Effect(w)
    <2>1. PICK d \in run[w].new : ingest' = ingest \cup {d} /\ Leaves(w, [run[w] EXCEPT !.new = @ \ {d}])
      BY <1>13, <1>0, Steps
    <2>2. /\ run'[w].pc = "queue" /\ run'[w].snap = run[w].snap
          /\ \A v \in Worker \ {w} : run'[v] = run[v]
      BY <1>13, <1>0, <2>1 DEF Leaves, RunType, Run, QueueJob
    <2> QED
      BY <1>13, <1>0, <2>2 DEF Effect, QueueJob
  <1>14. ASSUME QueueLink(w) PROVE Effect(w)
    <2>1. PICK e \in run[w].links : task' = Enqueued(e) /\ Leaves(w, [run[w] EXCEPT !.links = @ \ {e}])
      BY <1>14, <1>0, Steps
    <2>2. /\ run'[w].pc = "queue" /\ run'[w].snap = run[w].snap
          /\ \A v \in Worker \ {w} : run'[v] = run[v]
      BY <1>14, <1>0, <2>1 DEF Leaves, RunType, Run, QueueLink
    <2> QED
      BY <1>14, <1>0, <2>2 DEF Effect, QueueLink
  <1>15. ASSUME RegisterPage(w) PROVE Effect(w)
    <2>1. Leaves(w, [run[w] EXCEPT !.new = New(w, <<run[w].key, web[run[w].key]>>), !.pc = "save", !.snap = web])
      BY <1>15, <1>0, Steps
    <2>2. /\ run'[w].pc = "save" /\ run'[w].snap = web
          /\ \A v \in Worker \ {w} : run'[v] = run[v]
      BY <1>15, <1>0, <2>1 DEF Leaves, RunType, Run
    <2> QED
      BY <1>15, <1>0, <2>2 DEF Effect, RegisterPage
  <1>16. ASSUME SavePage(w) PROVE Effect(w)
    <2>1. Leaves(w, [run[w] EXCEPT !.pc = "queue", !.snap = Nothing])
      BY <1>16, <1>0, Steps
    <2>2. /\ run'[w].pc = "queue" /\ run'[w].snap = Nothing
          /\ \A v \in Worker \ {w} : run'[v] = run[v]
      BY <1>16, <1>0, <2>1 DEF Leaves, RunType, Run
    <2>3. run[w].key \in Link
      BY <1>16, <1>0 DEF SavePage, Fits, PagePC
    <2>4. \A e \in Text : items'[e] = items[e]
      BY <1>16, <1>0, <2>3, EntryAssumption DEF SavePage, Upsert, Entry
    <2>5. web' = web /\ docs' = docs /\ overlap' = overlap /\ src' = src /\ faults' = faults
      BY <1>16 DEF SavePage
    <2> QED
      BY <2>2, <2>4, <2>5 DEF Effect
  <1> QED
    BY <1>1, <1>2, <1>3, <1>4, <1>5, <1>6, <1>7, <1>8, <1>9, <1>10, <1>11, <1>12, <1>13, <1>14,
       <1>15, <1>16, Zenon DEF Step

Outside ==
  \/ \E r \in {"scheduler", "user"} : Ask(r) \/ Queue(r)
  \/ Retry \/ UpdateConfig \/ Delete \/ Tick
  \/ \E e \in Entry : Publish(e)
  \/ UNCHANGED vars

LEMMA OutsideEffect ==
  ASSUME Types, Outside
  PROVE /\ run' = run /\ docs' = docs /\ ingest' = ingest /\ overlap' = overlap
        /\ faults' >= faults
        /\ \A e \in Entry : web'[e] >= web[e]
        /\ src'.cooling => src.cooling
        /\ src'.hash = src.hash \/ src'.hash = Nothing
        /\ Delete \/ (src'.present = src.present /\ items' = items)
  <1>0. src \in Row /\ web \in Snapshot /\ faults \in Nat
    BY BoundAssumption DEF Types, TypeOK
  <1>1. /\ run' = run /\ docs' = docs /\ ingest' = ingest /\ overlap' = overlap
        /\ faults' >= faults
    BY <1>0 DEF Outside, Ask, Queue, Retry, UpdateConfig, Delete, Tick, Publish, vars
  <1>2. \A e \in Entry : web'[e] >= web[e]
    BY <1>0 DEF Outside, Ask, Queue, Retry, UpdateConfig, Delete, Tick, Publish, vars, Snapshot, Rev
  <1>3. /\ src'.cooling => src.cooling
        /\ src'.hash = src.hash \/ src'.hash = Nothing
        /\ Delete \/ (src'.present = src.present /\ items' = items)
    BY <1>0 DEF Outside, Ask, Queue, Retry, UpdateConfig, ResetIdentity, Delete, Tick, Publish, vars, Row, NewRow
  <1> QED
    BY <1>1, <1>2, <1>3

\* Every step is one of the two.
LEMMA StepKinds ==
  ASSUME [Next]_vars
  PROVE Outside \/ \E w \in Worker : Step(w) \/ Stop(w) \/ FetchFails(w)
  BY Zenon DEF Next, Outside

-----------------------------------------------------------------------------
(* Invariance. *)

LEMMA RowFitsStep == Types /\ RowFits /\ [Next]_vars => RowFits'
  <1> SUFFICES ASSUME Types, RowFits, [Next]_vars PROVE RowFits'
    OBVIOUS
  <1>0. src \in Row /\ faults \in Nat
    BY BoundAssumption DEF Types, TypeOK
  <1>1. CASE Delete
    BY <1>0, <1>1 DEF Delete, RowFits, NewRow
  <1>2. CASE Outside /\ ~Delete
    BY <1>0, <1>2, OutsideEffect DEF RowFits
  <1>3. ASSUME NEW w \in Worker, Step(w) \/ Stop(w) \/ FetchFails(w) PROVE RowFits'
    <2>1. /\ src'.present = src.present /\ (src'.hash = src.hash \/ Parent(w))
          /\ faults' \in {faults, faults + 1}
      BY <1>3, WorkerEffect DEF Effect
    <2>2. Parent(w) /\ ~src.present => src'.hash = src.hash
      BY DEF Parent, UpdateResult
    <2> QED
      BY <1>0, <2>1, <2>2 DEF RowFits
  <1> QED
    BY <1>1, <1>2, <1>3, StepKinds

LEMMA KnownStep == Types /\ KnownIsPublished /\ [Next]_vars => KnownIsPublished'
  <1> SUFFICES ASSUME Types, KnownIsPublished, [Next]_vars, NEW e \in Entry
               PROVE src'.hash[e] <= web'[e] /\ \A w \in Worker : run'[w].snap[e] <= web'[e]
    BY DEF KnownIsPublished
  <1>0. /\ web \in Snapshot /\ web' \in Snapshot /\ src'.hash \in Snapshot \cup {Nothing}
        /\ \A w \in Worker : run'[w].snap \in Snapshot \cup {Nothing}
    BY TypesStep DEF Types, TypeOK, Row
  <1>1. Nothing[e] = 0 /\ web[e] \in Nat /\ web'[e] \in Nat
    BY <1>0 DEF Nothing, Snapshot, Rev
  <1>2. src.hash[e] <= web[e] /\ \A w \in Worker : run[w].snap[e] <= web[e]
    BY DEF KnownIsPublished
  <1>3. \A h \in Snapshot \cup {Nothing} : h[e] \in Nat
    BY <1>1 DEF Snapshot, Rev
  <1>4. CASE Outside
    <2>1. run' = run /\ web'[e] >= web[e] /\ (src'.hash = src.hash \/ src'.hash = Nothing)
      BY <1>4, OutsideEffect
    <2>2. src'.hash[e] <= web'[e]
      <3>1. src'.hash = src.hash => src.hash[e] \in Nat
        BY <1>0, <1>3
      <3> QED
        BY <1>1, <1>2, <2>1, <3>1
    <2>3. ASSUME NEW w \in Worker PROVE run'[w].snap[e] <= web'[e]
      <3>1. run'[w].snap[e] \in Nat /\ run'[w].snap[e] = run[w].snap[e]
        BY <1>0, <1>3, <2>1
      <3> QED
        BY <1>1, <1>2, <2>1, <3>1
    <2> QED
      BY <2>2, <2>3
  <1>5. ASSUME NEW w \in Worker, Step(w) \/ Stop(w) \/ FetchFails(w)
        PROVE src'.hash[e] <= web'[e] /\ \A v \in Worker : run'[v].snap[e] <= web'[e]
    <2>1. Effect(w)
      BY <1>5, WorkerEffect
    <2>2. Parent(w) => src'.hash = src.hash \/ src'.hash = run[w].snap
      BY DEF Parent, UpdateResult, Types, TypeOK, Row
    <2>3. src'.hash[e] <= web'[e]
      BY <1>1, <1>2, <2>1, <2>2 DEF Effect
    <2>4. ASSUME NEW v \in Worker PROVE run'[v].snap[e] <= web'[e]
      BY <1>1, <1>2, <2>1 DEF Effect
    <2> QED
      BY <2>3, <2>4
  <1> QED
    BY <1>4, <1>5, StepKinds

LEMMA StoredStep ==
  Types /\ StoredIsRegistered /\ NothingIsLost /\ [Next]_vars => StoredIsRegistered'
  <1> SUFFICES ASSUME Types, StoredIsRegistered, NothingIsLost, [Next]_vars,
                      NEW v \in Worker, run'[v].pc = "upsert", NEW x \in run'[v].at \cap Text
               PROVE <<x, run'[v].snap[x]>> \in docs'
    BY DEF StoredIsRegistered
  <1>0. RunType /\ run[v] \in Run /\ items \in [Entry -> Hash]
    BY DEF Types, TypeOK, RunType
  <1>1. run' = run /\ docs' = docs => <<x, run'[v].snap[x]>> \in docs'
    BY DEF StoredIsRegistered
  <1>2. CASE Outside
    BY <1>1, <1>2, OutsideEffect
  <1>3. ASSUME NEW w \in Worker, Step(w) \/ Stop(w) \/ FetchFails(w), w # v
        PROVE <<x, run'[v].snap[x]>> \in docs'
    <2>1. run'[v] = run[v] /\ docs \subseteq docs'
      BY <1>3, WorkerEffect DEF Effect
    <2> QED
      BY <2>1 DEF StoredIsRegistered
  <1>4. ASSUME Step(v) \/ Stop(v) \/ FetchFails(v) PROVE <<x, run'[v].snap[x]>> \in docs'
    <2>1. PICK e \in Entry : RegisterItem(v, e) \/ ListItem(v, e)
      BY <1>4, WorkerEffect DEF Effect
    <2>2. PICK n, l : run' = [run EXCEPT ![v] = [run[v] EXCEPT !.new = n, !.pc = "upsert", !.at = {e}, !.links = l]]
      <3>1. CASE RegisterItem(v, e)
        <4>1. Leaves(v, [run[v] EXCEPT !.new = New(v, <<e, run[v].snap[e]>>), !.pc = "upsert", !.at = {e}])
          BY <1>0, <3>1, Steps
        <4>2. [run[v] EXCEPT !.new = New(v, <<e, run[v].snap[e]>>), !.pc = "upsert", !.at = {e}]
                = [run[v] EXCEPT !.new = New(v, <<e, run[v].snap[e]>>), !.pc = "upsert", !.at = {e}, !.links = run[v].links]
          BY <1>0 DEF Run
        <4> QED
          BY <4>1, <4>2 DEF Leaves
      <3>2. CASE ListItem(v, e)
        <4> DEFINE l == IF Changed(v, e) THEN run[v].links \cup {e} ELSE run[v].links
        <4>1. Leaves(v, [run[v] EXCEPT !.pc = "upsert", !.at = {e}, !.links = l])
          BY <1>0, <3>2, Steps
        <4>2. [run[v] EXCEPT !.pc = "upsert", !.at = {e}, !.links = l]
                = [run[v] EXCEPT !.new = run[v].new, !.pc = "upsert", !.at = {e}, !.links = l]
          BY <1>0 DEF Run
        <4> HIDE DEF l
        <4> QED
          BY <4>1, <4>2 DEF Leaves
      <3> QED
        BY <2>1, <3>1, <3>2
    <2>3. run'[v].at = {e} /\ run'[v].snap = run[v].snap
      BY <1>0, <2>2 DEF RunType, Run
    <2>4. x = e /\ e \in Text
      BY <2>3
    <2>5. CASE RegisterItem(v, e)
      BY <2>3, <2>4, <2>5 DEF RegisterItem
    <2>6. CASE ListItem(v, e)
      <3>1. ~Changed(v, e) /\ docs' = docs
        BY <2>4, <2>6, EntryAssumption DEF ListItem
      <3>2. items[e] = ItemHash(v, e) /\ items[e] # NoHash /\ items[e].rev = run[v].snap[e]
        BY <3>1 DEF Changed, ItemHash, NoHash
      <3> QED
        BY <2>3, <2>4, <3>1, <3>2 DEF NothingIsLost
    <2> QED
      BY <2>1, <2>5, <2>6
  <1> QED
    BY <1>2, <1>3, <1>4, StepKinds

LEMMA CooldownStep ==
  Types /\ OneSync /\ CooldownIsSeen /\ [Next]_vars => CooldownIsSeen'
  <1> SUFFICES ASSUME Types, OneSync, CooldownIsSeen, [Next]_vars,
                      ~overlap', NEW v \in Worker, run'[v].pc = "begun", src'.cooling
               PROVE run'[v].row.cooling
    BY DEF CooldownIsSeen
  <1>0. RunType /\ run[v] \in Run
    BY DEF Types, RunType
  <1>1. CASE Outside
    BY <1>1, OutsideEffect DEF CooldownIsSeen
  <1>2. ASSUME NEW w \in Worker, Step(w) \/ Stop(w) \/ FetchFails(w), w # v
        PROVE run'[v].row.cooling
    <2>1. run'[v] = run[v] /\ ~overlap /\ (src.cooling \/ FetchFails(w))
      BY <1>2, WorkerEffect DEF Effect
    <2>2. ~FetchFails(w)
      <3>1. FetchFails(w) => Syncing(w)
        BY DEF FetchFails, Types, RunsFit, Fits, Syncing, SyncPC
      <3>2. Syncing(v)
        BY <2>1 DEF Types, RunsFit, Fits, Syncing, SyncPC
      <3> QED
        BY <1>2, <2>1, <3>1, <3>2 DEF OneSync
    <2> QED
      BY <2>1, <2>2 DEF CooldownIsSeen
  <1>3. ASSUME Step(v) \/ Stop(v) \/ FetchFails(v) PROVE run'[v].row.cooling
    <2>1. Begin(v)
      BY <1>3, WorkerEffect DEF Effect
    <2>2. run'[v].row = src /\ src' = src
      BY <1>0, <2>1, Steps DEF Begin, Leaves, RunType, Run
    <2> QED
      BY <2>2
  <1> QED
    BY <1>1, <1>2, <1>3, StepKinds

LEMMA AheadStep ==
  Types /\ OneSync /\ KnownIsPublished /\ SyncIsAhead /\ [Next]_vars => SyncIsAhead'
  <1> SUFFICES ASSUME Types, OneSync, KnownIsPublished, SyncIsAhead, [Next]_vars,
                      ~overlap', NEW v \in Worker, run'[v].pc \in {"items", "upsert"}, NEW e \in Text
               PROVE /\ src'.hash[e] <= run'[v].snap[e]
                     /\ src'.present /\ e \notin run'[v].todo => items'[e].rev >= run'[v].snap[e]
    BY DEF SyncIsAhead
  <1> DEFINE Goal == /\ src'.hash[e] <= run'[v].snap[e]
                     /\ src'.present /\ e \notin run'[v].todo => items'[e].rev >= run'[v].snap[e]
  <1>0. /\ RunType /\ run[v] \in Run /\ Fits(run[v]) /\ run'[v] \in Run /\ Fits(run'[v])
        /\ e \in Entry /\ items \in [Entry -> Hash]
    BY TypesStep DEF Types, TypeOK, RunType, RunsFit, Entry
  <1>1. run'[v].snap[e] \in Nat /\ Nothing[e] = 0
    <2>1. run'[v].snap \in Snapshot
      BY <1>0 DEF Fits
    <2> QED
      BY <1>0, <2>1 DEF Snapshot, Rev, Nothing
  <1>2. ~overlap /\ run[v].pc \in {"items", "upsert"} =>
          /\ src.hash[e] <= run[v].snap[e]
          /\ src.present /\ e \notin run[v].todo => items[e].rev >= run[v].snap[e]
    BY DEF SyncIsAhead
  <1>3. CASE Outside
    <2>1. /\ run' = run /\ ~overlap /\ (src'.hash = src.hash \/ src'.hash = Nothing)
          /\ Delete \/ (src'.present = src.present /\ items' = items)
      BY <1>3, OutsideEffect
    <2>2. Delete => ~src'.present
      BY DEF Delete, NewRow
    <2> QED
      BY <1>1, <1>2, <2>1, <2>2
  <1>4. ASSUME NEW w \in Worker, Step(w) \/ Stop(w) \/ FetchFails(w), w # v PROVE Goal
    <2>1. /\ run'[v] = run[v] /\ ~overlap /\ src'.present = src.present
          /\ src'.hash = src.hash \/ Parent(w)
          /\ (\A x \in Text : items'[x] = items[x]) \/ \E x \in Entry : StoreItem(w, x)
      BY <1>4, WorkerEffect DEF Effect
    <2>2. ~Syncing(w)
      <3>1. Syncing(v)
        BY <1>0, <2>1 DEF Fits, Syncing, SyncPC
      <3> QED
        BY <1>4, <2>1, <3>1 DEF OneSync
    <2>3. (Parent(w) \/ \E x \in Entry : StoreItem(w, x)) => Syncing(w)
      BY DEF Parent, StoreItem, Types, RunsFit, Fits, Syncing, SyncPC
    <2> QED
      BY <1>2, <2>1, <2>2, <2>3
  <1>5. ASSUME Step(v) \/ Stop(v) \/ FetchFails(v) PROVE Goal
    <2>1. /\ ~overlap
          /\ \/ NewContent(v) \/ \E x \in Entry : StoreItem(v, x)
             \/ \E x \in Entry : RegisterItem(v, x) \/ ListItem(v, x)
      BY <1>5, WorkerEffect DEF Effect
    <2>2. CASE NewContent(v)
      <3>1. run'[v].snap = web /\ run'[v].todo = Entry /\ src' = src
        BY <1>0, <2>2, Steps DEF NewContent, Leaves, RunType, Run
      <3> QED
        BY <1>0, <3>1 DEF KnownIsPublished
    <2>3. ASSUME NEW x \in Entry, StoreItem(v, x) PROVE Goal
      <3>1. /\ run'[v].snap = run[v].snap /\ run'[v].todo = run[v].todo \ {x} /\ src' = src
            /\ run[v].pc = "upsert" /\ items' = [items EXCEPT ![x] = ItemHash(v, x)]
        <4>1. Leaves(v, [run[v] EXCEPT !.pc = "items", !.todo = @ \ {x}, !.at = {}])
          BY <1>0, <2>3, Steps
        <4> QED
          BY <1>0, <2>3, <4>1 DEF StoreItem, Upsert, Leaves, RunType, Run
      <3>2. CASE x = e
        <4>1. items'[e].rev = run'[v].snap[e]
          BY <1>0, <3>1, <3>2 DEF ItemHash
        <4> QED
          BY <1>1, <1>2, <2>1, <3>1, <4>1
      <3>3. CASE x # e
        BY <1>0, <1>2, <2>1, <3>1, <3>3
      <3> QED
        BY <3>2, <3>3
    <2>4. ASSUME NEW x \in Entry, RegisterItem(v, x) \/ ListItem(v, x) PROVE Goal
      <3>1. run'[v].snap = run[v].snap /\ run'[v].todo = run[v].todo
        <4>1. CASE RegisterItem(v, x)
          <5>1. PICK n : Leaves(v, [run[v] EXCEPT !.new = n, !.pc = "upsert", !.at = {x}])
            BY <1>0, <4>1, Steps
          <5> QED
            BY <1>0, <5>1 DEF Leaves, RunType, Run
        <4>2. CASE ListItem(v, x)
          <5>1. PICK n : Leaves(v, [run[v] EXCEPT !.pc = "upsert", !.at = {x}, !.links = n])
            BY <1>0, <4>2, Steps
          <5> QED
            BY <1>0, <5>1 DEF Leaves, RunType, Run
        <4> QED
          BY <2>4, <4>1, <4>2
      <3>2. run[v].pc = "items" /\ src' = src /\ items' = items
        BY <2>4 DEF RegisterItem, ListItem
      <3> QED
        BY <1>2, <2>1, <3>1, <3>2
    <2> QED
      BY <2>1, <2>2, <2>3, <2>4
  <1> QED
    BY <1>3, <1>4, <1>5, StepKinds

\* The three promises of NothingIsLost, one by one.
HashIsReached == ~overlap => \A e \in Text : items[e].rev >= src.hash[e]
SeenIsRegistered == \A e \in Text : items[e] # NoHash => <<e, items[e].rev>> \in docs
JobsFollow == faults = 0 => \A d \in docs \ ingest : \E w \in Worker : d \in run[w].new

LEMMA HashStep ==
  Types /\ HashIsReached /\ SyncIsAhead /\ [Next]_vars => HashIsReached'
  <1> SUFFICES ASSUME Types, HashIsReached, SyncIsAhead, [Next]_vars, ~overlap', NEW e \in Text
               PROVE items'[e].rev >= src'.hash[e]
    BY DEF HashIsReached
  <1>0. e \in Entry /\ items \in [Entry -> Hash] /\ src \in Row
    BY DEF Types, TypeOK, Entry
  <1>1. Nothing[e] = 0 /\ items[e].rev \in Nat
    BY <1>0, BoundAssumption DEF Nothing, Hash, NoHash, Rev
  <1>2. ~overlap => items[e].rev >= src.hash[e]
    BY DEF HashIsReached
  <1>3. CASE Delete
    <2>1. items'[e].rev = 0 /\ src'.hash = Nothing
      BY <1>0, <1>3 DEF Delete, NewRow, NoHash
    <2> QED
      BY <1>1, <2>1
  <1>4. CASE Outside /\ ~Delete
    BY <1>1, <1>2, <1>4, OutsideEffect
  <1>5. ASSUME NEW w \in Worker, Step(w) \/ Stop(w) \/ FetchFails(w)
        PROVE items'[e].rev >= src'.hash[e]
    <2>1. /\ ~overlap /\ (src'.hash = src.hash \/ Parent(w))
          /\ items'[e] = items[e] \/ \E x \in Entry : StoreItem(w, x)
      BY <1>5, WorkerEffect DEF Effect
    <2>2. CASE Parent(w)
      <3>1. items' = items /\ run[w].pc = "items" /\ run[w].todo = {}
        BY <2>2 DEF Parent
      <3>2. CASE src.present
        <4>1. src'.hash = run[w].snap
          BY <1>0, <2>2, <3>2 DEF Parent, UpdateResult, Row
        <4>2. items[e].rev >= run[w].snap[e]
          BY <2>1, <3>1, <3>2 DEF SyncIsAhead
        <4> QED
          BY <3>1, <4>1, <4>2
      <3>3. CASE ~src.present
        BY <1>2, <2>1, <2>2, <3>1, <3>3 DEF Parent, UpdateResult
      <3> QED
        BY <3>2, <3>3
    <2>3. ASSUME NEW x \in Entry, StoreItem(w, x) PROVE items'[e].rev >= src'.hash[e]
      <3>1. items' = [items EXCEPT ![x] = ItemHash(w, x)] /\ src' = src /\ run[w].pc = "upsert"
        BY <2>3 DEF StoreItem, Upsert
      <3>2. CASE x = e
        <4>1. items'[e].rev = run[w].snap[e]
          BY <1>0, <3>1, <3>2 DEF ItemHash
        <4>2. src.hash[e] <= run[w].snap[e] /\ run[w].snap \in Snapshot
          BY <2>1, <3>1 DEF SyncIsAhead, Types, RunsFit, Fits
        <4>3. run[w].snap[e] \in Nat /\ src.hash[e] \in Nat
          BY <1>0, <1>1, <4>2 DEF Snapshot, Row, Rev
        <4> QED
          BY <3>1, <4>1, <4>2, <4>3
      <3>3. CASE x # e
        BY <1>0, <1>2, <2>1, <3>1, <3>3
      <3> QED
        BY <3>2, <3>3
    <2> QED
      BY <1>2, <2>1, <2>2, <2>3
  <1> QED
    BY <1>3, <1>4, <1>5, StepKinds

LEMMA SeenStep ==
  Types /\ SeenIsRegistered /\ StoredIsRegistered /\ [Next]_vars => SeenIsRegistered'
  <1> SUFFICES ASSUME Types, SeenIsRegistered, StoredIsRegistered, [Next]_vars,
                      NEW e \in Text, items'[e] # NoHash
               PROVE <<e, items'[e].rev>> \in docs'
    BY DEF SeenIsRegistered
  <1>0. e \in Entry /\ items \in [Entry -> Hash]
    BY DEF Types, TypeOK, Entry
  <1>1. items'[e] = items[e] /\ docs \subseteq docs' => <<e, items'[e].rev>> \in docs'
    BY DEF SeenIsRegistered
  <1>2. ~Delete
    BY <1>0 DEF Delete
  <1>3. CASE Outside
    BY <1>1, <1>2, <1>3, OutsideEffect
  <1>4. ASSUME NEW w \in Worker, Step(w) \/ Stop(w) \/ FetchFails(w)
        PROVE <<e, items'[e].rev>> \in docs'
    <2>1. docs \subseteq docs' /\ (items'[e] = items[e] \/ \E x \in Entry : StoreItem(w, x))
      BY <1>4, WorkerEffect DEF Effect
    <2>2. ASSUME NEW x \in Entry, StoreItem(w, x) PROVE <<e, items'[e].rev>> \in docs'
      <3>1. /\ items' = [items EXCEPT ![x] = ItemHash(w, x)]
            /\ run[w].pc = "upsert" /\ x \in run[w].at
        BY <2>2 DEF StoreItem, Upsert
      <3>2. CASE x = e
        <4>1. items'[e].rev = run[w].snap[e]
          BY <1>0, <3>1, <3>2 DEF ItemHash
        <4> QED
          BY <2>1, <3>1, <3>2, <4>1 DEF StoredIsRegistered
      <3>3. CASE x # e
        BY <1>0, <1>1, <2>1, <3>1, <3>3
      <3> QED
        BY <3>2, <3>3
    <2> QED
      BY <1>1, <2>1, <2>2
  <1> QED
    BY <1>3, <1>4, StepKinds

LEMMA JobsStep == Types /\ RowFits /\ JobsFollow /\ [Next]_vars => JobsFollow'
  <1> SUFFICES ASSUME Types, RowFits, JobsFollow, [Next]_vars, faults' = 0
               PROVE \A d \in docs' \ ingest' : \E w \in Worker : d \in run'[w].new
    BY DEF JobsFollow
  <1> DEFINE Goal == \A d \in docs' \ ingest' : \E w \in Worker : d \in run'[w].new
  <1>0. /\ RunType /\ \A w \in Worker : run[w] \in Run /\ Fits(run[w])
        /\ faults \in Nat
    BY BoundAssumption DEF Types, TypeOK, RunType, RunsFit
  \* What was to be queued still is, when only w acts and drops nothing.
  <1>20. ASSUME NEW w \in Worker, \A v \in Worker \ {w} : run'[v] = run[v],
               docs' = docs, ingest' = ingest, faults' = faults, run[w].new \subseteq run'[w].new
        PROVE Goal
    BY <1>20 DEF JobsFollow
  <1>1. ASSUME NEW w \in Worker, NEW k \in Sync \cup Link, Claim(w, k) PROVE Goal
    <2>1. Leaves(w, [Free EXCEPT !.pc = IF k \in Sync THEN "begin" ELSE "page", !.key = k])
      BY <1>1, <1>0, Steps
    <2>2. \A v \in Worker \ {w} : run'[v] = run[v]
      BY <1>0, <2>1 DEF Leaves, RunType
    <2>3. docs' = docs /\ ingest' = ingest /\ faults' = faults /\ run[w].new = {}
      BY <1>1, <1>0 DEF Claim, Fits
    <2> QED
      BY <1>20, <2>2, <2>3
  <1>2. ASSUME NEW w \in Worker, Gone(w) \/ Stop(w) \/ Complete(w) PROVE Goal
    <2>1. Leaves(w, Free)
      BY <1>2, <1>0, Steps
    <2>2. \A v \in Worker \ {w} : run'[v] = run[v]
      BY <1>0, <2>1 DEF Leaves, RunType
    <2>3. ~Stop(w)
      BY <1>0 DEF Stop
    <2>4. ~Gone(w)
      BY <1>0 DEF Gone, RowFits
    <2>5. docs' = docs /\ ingest' = ingest /\ faults' = faults /\ run[w].new = {}
      BY <1>2, <2>3, <2>4 DEF Complete
    <2> QED
      BY <1>20, <2>2, <2>5
  <1>3. ASSUME NEW w \in Worker, Begin(w) PROVE Goal
    <2>1. Leaves(w, [run[w] EXCEPT !.pc = "begun", !.row = src])
      BY <1>3, <1>0, Steps
    <2>2. run'[w].new = run[w].new /\ \A v \in Worker \ {w} : run'[v] = run[v]
      BY <1>0, <2>1 DEF Leaves, RunType, Run
    <2>3. docs' = docs /\ ingest' = ingest /\ faults' = faults
      BY <1>3 DEF Begin
    <2> QED
      BY <1>20, <2>2, <2>3
  <1>4. ASSUME NEW w \in Worker, Disabled(w) \/ Cooldown(w) PROVE Goal
    <2>1. Leaves(w, [run[w] EXCEPT !.pc = "finish"])
      BY <1>4, <1>0, Steps
    <2>2. run'[w].new = run[w].new /\ \A v \in Worker \ {w} : run'[v] = run[v]
      BY <1>0, <2>1 DEF Leaves, RunType, Run
    <2>3. docs' = docs /\ ingest' = ingest /\ faults' = faults
      BY <1>4 DEF Disabled, Cooldown
    <2> QED
      BY <1>20, <2>2, <2>3
  <1>5. ASSUME NEW w \in Worker, Check(w) PROVE Goal
    <2>1. Leaves(w, [run[w] EXCEPT !.pc = "fetch"])
      BY <1>5, <1>0, Steps
    <2>2. run'[w].new = run[w].new /\ \A v \in Worker \ {w} : run'[v] = run[v]
      BY <1>0, <2>1 DEF Leaves, RunType, Run
    <2>3. docs' = docs /\ ingest' = ingest /\ faults' = faults
      BY <1>5 DEF Check
    <2> QED
      BY <1>20, <2>2, <2>3
  <1>6. ASSUME NEW w \in Worker, SameContent(w) \/ FetchFails(w) PROVE Goal
    <2>1. Leaves(w, [run[w] EXCEPT !.pc = "finish", !.row = NewRow])
      BY <1>6, <1>0, Steps
    <2>2. run'[w].new = run[w].new /\ \A v \in Worker \ {w} : run'[v] = run[v]
      BY <1>0, <2>1 DEF Leaves, RunType, Run
    <2>3. ~FetchFails(w)
      BY <1>0 DEF FetchFails
    <2>4. docs' = docs /\ ingest' = ingest /\ faults' = faults
      BY <1>6, <2>3 DEF SameContent
    <2> QED
      BY <1>20, <2>2, <2>4
  <1>7. ASSUME NEW w \in Worker, NewContent(w) PROVE Goal
    <2>1. Leaves(w, [run[w] EXCEPT !.pc = "items", !.row = NewRow, !.snap = web, !.todo = Entry])
      BY <1>7, <1>0, Steps
    <2>2. run'[w].new = run[w].new /\ \A v \in Worker \ {w} : run'[v] = run[v]
      BY <1>0, <2>1 DEF Leaves, RunType, Run
    <2>3. docs' = docs /\ ingest' = ingest /\ faults' = faults
      BY <1>7 DEF NewContent
    <2> QED
      BY <1>20, <2>2, <2>3
  <1>8. ASSUME NEW w \in Worker, NEW e \in Entry, RegisterItem(w, e) PROVE Goal
    <2>1. Leaves(w, [run[w] EXCEPT !.new = New(w, <<e, run[w].snap[e]>>), !.pc = "upsert", !.at = {e}])
      BY <1>8, <1>0, Steps
    <2>2. PICK n : n = New(w, <<e, run[w].snap[e]>>)
      OBVIOUS
    <2>3. run'[w].new = n /\ \A v \in Worker \ {w} : run'[v] = run[v]
      BY <1>0, <2>1, <2>2 DEF Leaves, RunType, Run
    <2>4. docs' = docs \cup {<<e, run[w].snap[e]>>} /\ ingest' = ingest /\ faults' = faults
      BY <1>8 DEF RegisterItem
    <2> QED
      BY <2>2, <2>3, <2>4 DEF New, JobsFollow
  <1>9. ASSUME NEW w \in Worker, NEW e \in Entry, ListItem(w, e) PROVE Goal
    <2>1. Leaves(w, [run[w] EXCEPT !.pc = "upsert", !.at = {e}, !.links = IF Changed(w, e) THEN @ \cup {e} ELSE @])
      BY <1>9, <1>0, Steps
    <2>2. run'[w].new = run[w].new /\ \A v \in Worker \ {w} : run'[v] = run[v]
      BY <1>0, <2>1 DEF Leaves, RunType, Run
    <2>3. docs' = docs /\ ingest' = ingest /\ faults' = faults
      BY <1>9 DEF ListItem
    <2> QED
      BY <1>20, <2>2, <2>3
  <1>10. ASSUME NEW w \in Worker, NEW e \in Entry, StoreItem(w, e) PROVE Goal
    <2>1. Leaves(w, [run[w] EXCEPT !.pc = "items", !.todo = @ \ {e}, !.at = {}])
      BY <1>10, <1>0, Steps
    <2>2. run'[w].new = run[w].new /\ \A v \in Worker \ {w} : run'[v] = run[v]
      BY <1>0, <2>1 DEF Leaves, RunType, Run
    <2>3. docs' = docs /\ ingest' = ingest /\ faults' = faults
      BY <1>10 DEF StoreItem
    <2> QED
      BY <1>20, <2>2, <2>3
  <1>11. ASSUME NEW w \in Worker, Parent(w) PROVE Goal
    <2>1. Leaves(w, [run[w] EXCEPT !.pc = "finish", !.snap = Nothing])
      BY <1>11, <1>0, Steps
    <2>2. run'[w].new = run[w].new /\ \A v \in Worker \ {w} : run'[v] = run[v]
      BY <1>0, <2>1 DEF Leaves, RunType, Run
    <2>3. docs' = docs /\ ingest' = ingest /\ faults' = faults
      BY <1>11 DEF Parent
    <2> QED
      BY <1>20, <2>2, <2>3
  <1>12. ASSUME NEW w \in Worker, FinishSyncRun(w) \/ PageUnchanged(w) PROVE Goal
    <2>1. Leaves(w, [run[w] EXCEPT !.pc = "queue"])
      BY <1>12, <1>0, Steps
    <2>2. run'[w].new = run[w].new /\ \A v \in Worker \ {w} : run'[v] = run[v]
      BY <1>0, <2>1 DEF Leaves, RunType, Run
    <2>3. docs' = docs /\ ingest' = ingest /\ faults' = faults
      BY <1>12 DEF FinishSyncRun, PageUnchanged
    <2> QED
      BY <1>20, <2>2, <2>3
  <1>13. ASSUME NEW w \in Worker, QueueJob(w) PROVE Goal
    <2>1. PICK d \in run[w].new : ingest' = ingest \cup {d} /\ Leaves(w, [run[w] EXCEPT !.new = @ \ {d}])
      BY <1>13, <1>0, Steps
    <2>2. run'[w].new = run[w].new \ {d} /\ \A v \in Worker \ {w} : run'[v] = run[v]
      BY <1>0, <2>1 DEF Leaves, RunType, Run
    <2>3. docs' = docs /\ faults' = faults
      BY <1>13 DEF QueueJob
    <2> QED
      BY <2>1, <2>2, <2>3 DEF JobsFollow
  <1>14. ASSUME NEW w \in Worker, QueueLink(w) PROVE Goal
    <2>1. PICK e \in run[w].links : task' = Enqueued(e) /\ Leaves(w, [run[w] EXCEPT !.links = @ \ {e}])
      BY <1>14, <1>0, Steps
    <2>2. run'[w].new = run[w].new /\ \A v \in Worker \ {w} : run'[v] = run[v]
      BY <1>0, <2>1 DEF Leaves, RunType, Run
    <2>3. docs' = docs /\ ingest' = ingest /\ faults' = faults
      BY <1>14 DEF QueueLink
    <2> QED
      BY <1>20, <2>2, <2>3
  <1>15. ASSUME NEW w \in Worker, RegisterPage(w) PROVE Goal
    <2>1. Leaves(w, [run[w] EXCEPT !.new = New(w, <<run[w].key, web[run[w].key]>>), !.pc = "save", !.snap = web])
      BY <1>15, <1>0, Steps
    <2>2. PICK n : n = New(w, <<run[w].key, web[run[w].key]>>)
      OBVIOUS
    <2>3. run'[w].new = n /\ \A v \in Worker \ {w} : run'[v] = run[v]
      BY <1>0, <2>1, <2>2 DEF Leaves, RunType, Run
    <2>4. docs' = docs \cup {<<run[w].key, web[run[w].key]>>} /\ ingest' = ingest /\ faults' = faults
      BY <1>15 DEF RegisterPage
    <2> QED
      BY <2>2, <2>3, <2>4 DEF New, JobsFollow
  <1>16. ASSUME NEW w \in Worker, SavePage(w) PROVE Goal
    <2>1. Leaves(w, [run[w] EXCEPT !.pc = "queue", !.snap = Nothing])
      BY <1>16, <1>0, Steps
    <2>2. run'[w].new = run[w].new /\ \A v \in Worker \ {w} : run'[v] = run[v]
      BY <1>0, <2>1 DEF Leaves, RunType, Run
    <2>3. docs' = docs /\ ingest' = ingest /\ faults' = faults
      BY <1>16 DEF SavePage
    <2> QED
      BY <1>20, <2>2, <2>3
  <1>17. CASE Outside
    BY <1>0, <1>17, OutsideEffect DEF JobsFollow
  <1> HIDE DEF Goal
  <1>18. ASSUME NEW w \in Worker, Step(w) \/ Stop(w) \/ FetchFails(w) PROVE Goal
    BY <1>1, <1>2, <1>3, <1>4, <1>5, <1>6, <1>7, <1>8, <1>9, <1>10, <1>11, <1>12, <1>13, <1>14,
       <1>15, <1>16, <1>18, Zenon DEF Step
  <1> QED
    BY <1>17, <1>18, StepKinds DEF Goal

-----------------------------------------------------------------------------
(* The theorems. *)

LEMMA InitInv == Init => IInv
  <1> SUFFICES ASSUME Init PROVE IInv
    OBVIOUS
  <1>1. Types
    BY SyncInitTypes
  <1>2. /\ \A w \in Worker : run[w] = Free
        /\ \A e \in Entry : web[e] = 1 /\ items[e] = NoHash
        /\ src = NewRow /\ docs = {} /\ faults = 0
    BY DEF Init
  <1>3. Free.pc = "idle" /\ Free.snap = Nothing /\ NewRow.hash = Nothing /\ NewRow.present
    BY DEF Free, NewRow
  <1>4. \A e \in Entry : Nothing[e] = 0 /\ NoHash.rev = 0
    BY DEF Nothing, NoHash
  <1>5. RowFits /\ OneSync /\ SyncIsAhead /\ StoredIsRegistered /\ CooldownIsSeen
    BY <1>2, <1>3 DEF RowFits, OneSync, Syncing, SyncIsAhead, StoredIsRegistered, CooldownIsSeen
  <1>6. KnownIsPublished
    BY <1>2, <1>3, <1>4 DEF KnownIsPublished
  <1>7. NothingIsLost
    BY <1>1, <1>2, <1>3, <1>4 DEF NothingIsLost, Types, Entry
  <1> QED
    BY <1>1, <1>5, <1>6, <1>7 DEF IInv, Types

LEMMA StepInv == IInv /\ [Next]_vars => IInv'
  <1> SUFFICES ASSUME IInv, [Next]_vars PROVE IInv'
    OBVIOUS
  <1>1. Types /\ HashIsReached /\ SeenIsRegistered /\ JobsFollow
    BY DEF IInv, Types, NothingIsLost, HashIsReached, SeenIsRegistered, JobsFollow
  <1>2. Types' /\ RowFits' /\ KnownIsPublished' /\ OneSync' /\ StoredIsRegistered' /\ CooldownIsSeen'
    BY <1>1, TypesStep, RowFitsStep, KnownStep, OneSyncStep, StoredStep, CooldownStep DEF IInv
  <1>3. SyncIsAhead'
    BY <1>1, AheadStep DEF IInv
  <1>4. HashIsReached' /\ SeenIsRegistered' /\ JobsFollow'
    BY <1>1, HashStep, SeenStep, JobsStep DEF IInv
  <1>5. NothingIsLost'
    BY <1>2, <1>4 DEF NothingIsLost, Types, HashIsReached, SeenIsRegistered, JobsFollow
  <1> QED
    BY <1>2, <1>3, <1>5 DEF IInv, Types

LEMMA Invariance == Spec => []IInv
  BY InitInv, StepInv, PTL DEF Spec

\* A sync that is stopped, repeated or disturbed loses nothing the source
\* offers: while syncs do not overlap, the hash of the connector, which the next
\* sync compares before it looks at any entry, speaks for no revision that the
\* entries have not reached; a text is stored as seen only when its document is
\* registered, and without faults every registered version gets its job.
THEOREM NothingIsLostTheorem == Spec => []NothingIsLost
  <1>1. IInv => NothingIsLost
    BY DEF IInv
  <1> QED
    BY <1>1, Invariance, PTL

\* No sync that could see a cooldown fetches in it: between the moment the row is
\* read and the check, only another sync could set one.
THEOREM CooldownTheorem == Spec => CooldownHolds
  <1> DEFINE Holds == \A w \in Worker :
                        (run[w].pc = "begun" /\ run'[w].pc = "fetch") => ~src.cooling \/ overlap
  <1>1. IInv /\ [Next]_vars => [Holds]_vars
    <2> SUFFICES ASSUME IInv, [Next]_vars, NEW v \in Worker,
                        run[v].pc = "begun", run'[v].pc = "fetch"
                 PROVE ~src.cooling \/ overlap
      OBVIOUS
    <2>1. Types /\ CooldownIsSeen
      BY DEF IInv, Types, NothingIsLost
    <2>2. Check(v) => ~src.cooling \/ overlap
      BY <2>1 DEF Check, CooldownIsSeen
    <2>3. CASE Outside
      BY <2>1, <2>3, OutsideEffect
    <2>4. ASSUME NEW w \in Worker, Step(w) \/ Stop(w) \/ FetchFails(w) PROVE Check(v)
      <3>1. w = v
        BY <2>1, <2>4, WorkerEffect DEF Effect
      <3>2. RunType
        BY <2>1 DEF Types
      <3>3. ~\E k \in Sync \cup Link : Claim(v, k)
        BY DEF Claim
      <3>4. ~(Gone(v) \/ Stop(v) \/ Complete(v)) /\ ~Begin(v) /\ ~Disabled(v) /\ ~Cooldown(v)
        <4>1. ~Leaves(v, Free)
          BY <3>2 DEF Leaves, Free, RunType
        <4>2. ~Leaves(v, [run[v] EXCEPT !.pc = "finish"])
          BY <3>2 DEF Leaves, RunType, Run
        <4>3. ~Begin(v)
          BY DEF Begin
        <4> QED
          BY <3>2, <4>1, <4>2, <4>3, Steps
      <3>5. /\ ~SameContent(v) /\ ~FetchFails(v) /\ ~NewContent(v) /\ ~Parent(v) /\ ~FinishSyncRun(v)
            /\ ~QueueJob(v) /\ ~QueueLink(v) /\ ~PageUnchanged(v) /\ ~RegisterPage(v) /\ ~SavePage(v)
            /\ \A e \in Entry : ~RegisterItem(v, e) /\ ~ListItem(v, e) /\ ~StoreItem(v, e)
        BY DEF SameContent, FetchFails, NewContent, Parent, FinishSyncRun, QueueJob, QueueLink,
               PageUnchanged, RegisterPage, SavePage, RegisterItem, ListItem, StoreItem
      <3> QED
        BY <2>4, <3>1, <3>3, <3>4, <3>5, Zenon DEF Step
    <2> QED
      BY <2>2, <2>3, <2>4, StepKinds
  <1> QED
    BY <1>1, Invariance, PTL DEF Spec, CooldownHolds

-----------------------------------------------------------------------------
(* KnowledgeGraph: the inductive invariant. *)

Version == [doc : Doc, product : Product, price : Price, month : Month]
Event == [entity : Product, evidence : SUBSET DOMAIN vers]
Relation == [src : Product, from : VersionNo, to : 0 .. MaxVersions, status : Status,
             eligible : BOOLEAN, statement : {"derived", "corrected"}, manual : BOOLEAN,
             evidence : SUBSET DOMAIN vers]
ThreadRow == [pc : {"idle", "event", "list", "clear", "next", "upsert", "close", "evidence"},
              v : 0 .. MaxVersions, stored : [src : Product \cup {NoProduct}, from : 0 .. MaxVersions],
              todo : SUBSET (VersionNo \X VersionNo), rebuild : BOOLEAN, alone : BOOLEAN]
Audit == [source : Product, target : Product, before : [Product -> Product \cup {NoProduct}]]

VersionsType == vers \in Seq(Version) /\ Len(vers) <= MaxVersions
EventsType == events \in [DOMAIN events -> Event] /\ DOMAIN events \subseteq DOMAIN vers
RelType == rel \in [DOMAIN rel -> Relation] /\ DOMAIN rel \subseteq Key
EntitiesType ==
  /\ merged \in [Product -> Product \cup {NoProduct}]
  /\ alias \in [Product -> Product \cup {NoProduct}]
  /\ audits \in Seq(Audit)
CountersType ==
  /\ reviews \in 0 .. MaxReviews /\ rebuilds \in 0 .. MaxRebuilds /\ crashes \in 0 .. MaxCrashes
  /\ disturbed \subseteq {"documents", "rebuild", "review"}

\* A thread works on a version that is there, and replays evidence of events; only
\* a rebuild lists, clears and goes on to the next, and it makes no event.
ThreadFits(w) ==
  /\ sync[w].pc \in {"event", "upsert", "close", "evidence"} => sync[w].v \in DOMAIN vers
  /\ sync[w].v <= Len(vers)
  /\ sync[w].pc = "close" => sync[w].stored \in [src : Product, from : VersionNo]
  /\ sync[w].pc \in {"list", "clear", "next"} => sync[w].rebuild
  /\ sync[w].pc = "event" => ~sync[w].rebuild
  /\ sync[w].todo \subseteq (DOMAIN events) \X (DOMAIN vers)

ThreadsType == sync \in [Thread -> ThreadRow] /\ \A w \in Thread : ThreadFits(w)

GraphTypes ==
  VersionsType /\ EventsType /\ RelType /\ EntitiesType /\ CountersType /\ ThreadsType

\* The flags of the history say who runs beside whom.
At(w) == sync[w].pc # "idle"
Flags ==
  /\ \A u, w \in Thread : At(u) /\ At(w) /\ sync[w].alone => u = w
  /\ disturbed \cap {"documents", "rebuild"} = {} =>
       \A u, w \in Thread : At(u) /\ At(w) => u = w
  /\ \A w \in Thread : At(w) /\ sync[w].rebuild /\ ~sync[w].alone => "rebuild" \in disturbed

\* Evidence that has reached its relation, and evidence on its way there.
Covered(v) == KeyOf(v) \in DOMAIN rel /\ v \in rel[KeyOf(v)].evidence
Handled(w, v) == sync[w].pc \in {"upsert", "close", "evidence"} /\ sync[w].v = v

\* While no rebuild is at work or has gone wrong, all evidence is in one of the two.
EvidenceArrives ==
  "rebuild" \notin disturbed /\ (\A w \in Thread : At(w) => ~sync[w].rebuild) =>
    \A e \in DOMAIN events : \A v \in events[e].evidence : Covered(v) \/ \E w \in Thread : Handled(w, v)

\* A rebuild that is alone has listed all of it before it deletes relations, and
\* what it has still to replay makes up for what is not there yet.
Replaying(w) == sync[w].rebuild /\ sync[w].alone /\ sync[w].pc \in {"next", "upsert", "close", "evidence"}
ReplayCovers ==
  \A w \in Thread : \A e \in DOMAIN events : \A v \in events[e].evidence :
    /\ sync[w].rebuild /\ sync[w].alone /\ sync[w].pc = "clear" => <<e, v>> \in sync[w].todo
    /\ Replaying(w) => Covered(v) \/ Handled(w, v) \/ <<e, v>> \in sync[w].todo

\* Without merges an entity is the product it is named for.
EntityIsProduct ==
  audits = <<>> =>
    /\ \A k \in DOMAIN rel : rel[k].src = k.product
    /\ \A w \in Thread : sync[w].pc = "close" => sync[w].stored.src = vers[sync[w].v].product

\* The derived relations that say what document d asks for product p now.
Open(d, p) ==
  {k \in DOMAIN rel : /\ rel[k].src = p /\ rel[k].to = 0 /\ ~rel[k].manual
                      /\ \E v \in rel[k].evidence : vers[v].doc = d}

\* When threads work one after the other, or a rebuild that is alone has deleted
\* the derived relations, there is one; and before a thread adds its evidence,
\* that one is its own.
InOrder ==
  /\ audits = <<>> /\ "review" \notin disturbed
  /\ disturbed \cap {"documents", "rebuild"} = {} \/ \E w \in Thread : Replaying(w)
OnlyOpen(v) == Open(vers[v].doc, vers[v].product) \subseteq {KeyOf(v)}
OpenIsOne ==
  InOrder =>
    /\ \A d \in Doc, p \in Product : \A j, k \in Open(d, p) : j = k
    /\ \A w \in Thread : sync[w].pc = "evidence" => OnlyOpen(sync[w].v)

GraphIInv ==
  GraphTypes /\ Flags /\ EvidenceArrives /\ ReplayCovers /\ EntityIsProduct /\ OpenIsOne

-----------------------------------------------------------------------------
(* Types. *)

LEMMA VersionIs ==
  ASSUME VersionsType, NEW v \in DOMAIN vers
  PROVE  /\ vers[v] \in Version /\ KeyOf(v) \in Key
         /\ v \in Nat /\ v >= 1 /\ v <= Len(vers) /\ v \in VersionNo
  <1>1. /\ DOMAIN vers = 1 .. Len(vers) /\ Len(vers) \in Nat /\ vers[v] \in Version
    BY DEF VersionsType
  <1>2. KeyOf(v) \in Key
    BY <1>1 DEF Version, KeyOf, Key
  <1>3. v \in Nat /\ v >= 1 /\ v <= Len(vers) /\ v \in VersionNo
    BY <1>1, CountAssumption DEF VersionsType, VersionNo, CountAssumption
  <1> QED
    BY <1>1, <1>2, <1>3

\* A thread that starts takes its row; the others lose only the flag.
LEMMA StartIs ==
  ASSUME sync \in [Thread -> ThreadRow], NEW w \in Thread, NEW s \in ThreadRow, Start(w, s)
  PROVE  /\ sync' \in [Thread -> ThreadRow]
         /\ sync'[w] = [s EXCEPT !.alone = (Active = {})]
         /\ \A u \in Thread \ {w} : sync'[u] = [sync[u] EXCEPT !.alone = FALSE]
  <1>1. \A u \in Thread : sync[u] \in ThreadRow
    OBVIOUS
  <1>2. /\ [s EXCEPT !.alone = (Active = {})] \in ThreadRow
        /\ \A u \in Thread : [sync[u] EXCEPT !.alone = FALSE] \in ThreadRow
    BY <1>1 DEF ThreadRow
  <1> QED
    BY <1>2 DEF Start

\* What a step of a thread makes of its own row.
LEMMA RowIs ==
  ASSUME sync \in [Thread -> ThreadRow], NEW w \in Thread, NEW r \in ThreadRow,
         sync' = [sync EXCEPT ![w] = r]
  PROVE  /\ sync' \in [Thread -> ThreadRow] /\ sync'[w] = r
         /\ \A u \in Thread \ {w} : sync'[u] = sync[u]
  OBVIOUS

LEMMA IdleIs ==
  /\ Idle \in ThreadRow /\ Idle.pc = "idle" /\ Idle.v = 0 /\ Idle.todo = {} /\ ~Idle.rebuild
  BY CountAssumption DEF Idle, ThreadRow, NotStored, CountAssumption

LEMMA EventRowIs ==
  ASSUME NEW v \in 0 .. MaxVersions
  PROVE  LET s == [Idle EXCEPT !.pc = "event", !.v = v] IN
         s \in ThreadRow /\ s.pc = "event" /\ s.v = v /\ ~s.rebuild /\ s.todo = {}
  BY IdleIs DEF ThreadRow

LEMMA InitTypes == GraphInit => GraphTypes
  <1> SUFFICES ASSUME GraphInit PROVE GraphTypes
    OBVIOUS
  <1>1. vers \in Seq(Version) /\ Len(vers) = 0 /\ audits \in Seq(Audit)
    BY DEF GraphInit
  <1>2. DOMAIN events = {} /\ DOMAIN rel = {}
    BY DEF GraphInit
  <1>3. events \in [DOMAIN events -> Event] /\ rel \in [DOMAIN rel -> Relation]
    BY <1>2 DEF GraphInit
  <1>4. ThreadsType
    BY <1>1, IdleIs DEF GraphInit, ThreadsType, ThreadFits
  <1> QED
    BY <1>1, <1>2, <1>3, <1>4, CountAssumption
    DEF GraphInit, GraphTypes, VersionsType, EventsType, RelType, EntitiesType, CountersType, CountAssumption

LEMMA AppendIs ==
  ASSUME VersionsType, NEW d \in Doc, NEW p \in Product, NEW c \in Price, NEW m \in Month,
         Len(vers) < MaxVersions,
         vers' = Append(vers, [doc |-> d, product |-> p, price |-> c, month |-> m])
  PROVE  /\ VersionsType' /\ Len(vers') = Len(vers) + 1 /\ Len(vers) \in Nat
         /\ DOMAIN vers \subseteq DOMAIN vers' /\ Len(vers) + 1 \in DOMAIN vers'
         /\ \A v \in DOMAIN vers : vers'[v] = vers[v] /\ KeyOf(v)' = KeyOf(v)
  <1> DEFINE x == [doc |-> d, product |-> p, price |-> c, month |-> m]
  <1>1. x \in Version /\ vers \in Seq(Version) /\ vers' = Append(vers, x)
    BY DEF Version, VersionsType
  <1> HIDE DEF x
  <1>2. /\ vers' \in Seq(Version) /\ Len(vers') = Len(vers) + 1 /\ Len(vers) \in Nat
        /\ DOMAIN vers = 1 .. Len(vers) /\ DOMAIN vers' = 1 .. Len(vers')
        /\ \A v \in 1 .. Len(vers) : vers'[v] = vers[v]
    BY <1>1
  <1>3. Len(vers') <= MaxVersions
    BY <1>2, CountAssumption DEF CountAssumption
  <1>4. \A v \in DOMAIN vers : KeyOf(v)' = KeyOf(v)
    BY <1>2 DEF KeyOf
  <1> QED
    BY <1>2, <1>3, <1>4 DEF VersionsType

\* A version more changes nothing of the tables that refer to the others.
LEMMA MoreVersions ==
  ASSUME EventsType, RelType, DOMAIN vers \subseteq DOMAIN vers', UNCHANGED <<events, rel>>
  PROVE  EventsType' /\ RelType'
  <1>1. \A e \in DOMAIN events : events[e] \in Event
    BY DEF EventsType
  <1>2. \A k \in DOMAIN rel : rel[k] \in Relation
    BY DEF RelType
  <1>3. Event \subseteq Event' /\ Relation \subseteq Relation'
    BY DEF Event, Relation
  <1>4. events \in [DOMAIN events -> Event'] /\ rel \in [DOMAIN rel -> Relation']
    BY <1>1, <1>2, <1>3 DEF EventsType, RelType
  <1> QED
    BY <1>4 DEF EventsType, RelType

LEMMA IndexTypes ==
  ASSUME GraphTypes, NEW w \in Thread, NEW d \in Doc, NEW p \in Product, NEW c \in Price,
         NEW m \in Month, Index(w, d, p, c, m)
  PROVE  GraphTypes'
  <1> DEFINE s == [Idle EXCEPT !.pc = "event", !.v = Len(vers) + 1]
  <1>1. /\ VersionsType' /\ Len(vers') = Len(vers) + 1 /\ Len(vers) \in Nat
        /\ DOMAIN vers \subseteq DOMAIN vers' /\ Len(vers) + 1 \in DOMAIN vers'
    BY AppendIs DEF Index, GraphTypes
  <1>2. EventsType' /\ RelType'
    BY <1>1, MoreVersions DEF Index, GraphTypes
  <1>3. EntitiesType' /\ CountersType'
    BY DEF Index, GraphTypes, EntitiesType, CountersType, Start, counters
  <1>4. s \in ThreadRow /\ s.pc = "event" /\ s.v = Len(vers) + 1 /\ ~s.rebuild /\ s.todo = {}
    <2>1. Len(vers) + 1 \in 0 .. MaxVersions
      BY <1>1, CountAssumption DEF VersionsType, CountAssumption
    <2> QED
      BY <2>1, EventRowIs
  <1>5. Start(w, s) /\ sync \in [Thread -> ThreadRow] /\ \A u \in Thread : ThreadFits(u)
    BY DEF Index, GraphTypes, ThreadsType
  <1> HIDE DEF s
  <1>6. /\ sync' \in [Thread -> ThreadRow]
        /\ sync'[w] = [s EXCEPT !.alone = (Active = {})]
        /\ \A u \in Thread \ {w} : sync'[u] = [sync[u] EXCEPT !.alone = FALSE]
    BY <1>4, <1>5, StartIs
  <1>7. /\ sync'[w].pc = "event" /\ sync'[w].v = Len(vers) + 1 /\ ~sync'[w].rebuild /\ sync'[w].todo = {}
    BY <1>4, <1>6 DEF ThreadRow
  <1>8. \A u \in Thread \ {w} : /\ sync'[u].pc = sync[u].pc /\ sync'[u].v = sync[u].v
                                /\ sync'[u].stored = sync[u].stored /\ sync'[u].todo = sync[u].todo
                                /\ sync'[u].rebuild = sync[u].rebuild /\ sync[u].v \in Nat
    BY <1>5, <1>6 DEF ThreadRow
  <1>9. ThreadFits(w)'
    BY <1>1, <1>7 DEF ThreadFits
  <1>10. ASSUME NEW u \in Thread \ {w} PROVE ThreadFits(u)'
    BY <1>1, <1>5, <1>8 DEF ThreadFits, Index
  <1> QED
    BY <1>1, <1>2, <1>3, <1>6, <1>9, <1>10 DEF GraphTypes, ThreadsType

\* The threads after one has started on versions that are there.
LEMMA StartTypes ==
  ASSUME GraphTypes, NEW w \in Thread, NEW s \in ThreadRow, Start(w, s),
         UNCHANGED <<vers, events>>,
         s.pc \in {"event", "list"}, s.pc = "event" => s.v \in DOMAIN vers /\ ~s.rebuild,
         s.pc = "list" => s.rebuild, s.v \in 0 .. Len(vers), s.todo = {}
  PROVE  ThreadsType'
  <1>1. sync \in [Thread -> ThreadRow] /\ \A u \in Thread : ThreadFits(u)
    BY DEF GraphTypes, ThreadsType
  <1>2. /\ sync' \in [Thread -> ThreadRow]
        /\ sync'[w] = [s EXCEPT !.alone = (Active = {})]
        /\ \A u \in Thread \ {w} : sync'[u] = [sync[u] EXCEPT !.alone = FALSE]
    BY <1>1, StartIs
  <1>3. /\ sync'[w].pc = s.pc /\ sync'[w].v = s.v /\ sync'[w].rebuild = s.rebuild /\ sync'[w].todo = {}
    BY <1>2 DEF ThreadRow
  <1>4. \A u \in Thread \ {w} : /\ sync'[u].pc = sync[u].pc /\ sync'[u].v = sync[u].v
                                /\ sync'[u].stored = sync[u].stored /\ sync'[u].todo = sync[u].todo
                                /\ sync'[u].rebuild = sync[u].rebuild
    BY <1>1, <1>2 DEF ThreadRow
  <1>5. ThreadFits(w)'
    BY <1>3 DEF ThreadFits, GraphTypes, VersionsType
  <1>6. ASSUME NEW u \in Thread \ {w} PROVE ThreadFits(u)'
    BY <1>1, <1>4 DEF ThreadFits
  <1> QED
    BY <1>2, <1>5, <1>6 DEF ThreadsType

LEMMA IndexAgainTypes ==
  ASSUME GraphTypes, NEW w \in Thread, NEW v \in DOMAIN vers, IndexAgain(w, v)
  PROVE  GraphTypes'
  <1> DEFINE s == [Idle EXCEPT !.pc = "event", !.v = v]
  <1>1. v \in 0 .. MaxVersions /\ v \in 0 .. Len(vers)
    BY VersionIs DEF GraphTypes, VersionsType, VersionNo
  <1>2. s \in ThreadRow /\ s.pc = "event" /\ s.v = v /\ ~s.rebuild /\ s.todo = {}
    BY <1>1, EventRowIs
  <1>3. Start(w, s) /\ UNCHANGED <<vers, events, rel, merged, alias, audits, rebuilds, crashes>>
        /\ reviews < MaxReviews /\ reviews' = reviews + 1
    BY DEF IndexAgain
  <1> HIDE DEF s
  <1>4. ThreadsType'
    BY <1>1, <1>2, <1>3, StartTypes
  <1>5. VersionsType' /\ EventsType' /\ RelType' /\ EntitiesType'
    BY <1>3 DEF GraphTypes, VersionsType, EventsType, RelType, EntitiesType, Event, Relation
  <1>6. CountersType'
    BY <1>3, CountAssumption DEF GraphTypes, CountersType, Start, CountAssumption
  <1> QED
    BY <1>4, <1>5, <1>6 DEF GraphTypes

LEMMA RebuildTypes ==
  ASSUME GraphTypes, NEW w \in Thread, Rebuild(w)
  PROVE  GraphTypes'
  <1> DEFINE s == [Idle EXCEPT !.pc = "list", !.rebuild = TRUE]
  <1>1. s \in ThreadRow /\ s.pc = "list" /\ s.v = 0 /\ s.rebuild /\ s.todo = {}
    BY IdleIs DEF ThreadRow
  <1>2. Start(w, s) /\ UNCHANGED <<vers, events, rel, merged, alias, audits, reviews, crashes>>
        /\ rebuilds < MaxRebuilds /\ rebuilds' = rebuilds + 1
    BY DEF Rebuild
  <1> HIDE DEF s
  <1>3. 0 \in 0 .. Len(vers)
    BY DEF GraphTypes, VersionsType
  <1>4. ThreadsType'
    BY <1>1, <1>2, <1>3, StartTypes
  <1>5. VersionsType' /\ EventsType' /\ RelType' /\ EntitiesType'
    BY <1>2 DEF GraphTypes, VersionsType, EventsType, RelType, EntitiesType, Event, Relation
  <1>6. CountersType'
    BY <1>2, CountAssumption DEF GraphTypes, CountersType, Start, CountAssumption
  <1> QED
    BY <1>4, <1>5, <1>6 DEF GraphTypes

\* A thread's row that fits, while versions stay and no event goes.
LEMMA StepTypes ==
  ASSUME GraphTypes, NEW w \in Thread, NEW r \in ThreadRow, sync' = [sync EXCEPT ![w] = r],
         UNCHANGED vers, DOMAIN events \subseteq DOMAIN events',
         r.pc \in {"event", "upsert", "close", "evidence"} => r.v \in DOMAIN vers,
         r.v <= Len(vers),
         r.pc = "close" => r.stored \in [src : Product, from : VersionNo],
         r.pc \in {"list", "clear", "next"} => r.rebuild,
         r.pc = "event" => ~r.rebuild,
         r.todo \subseteq (DOMAIN events) \X (DOMAIN vers)
  PROVE  ThreadsType'
  <1>1. sync \in [Thread -> ThreadRow] /\ \A u \in Thread : ThreadFits(u)
    BY DEF GraphTypes, ThreadsType
  <1>2. /\ sync' \in [Thread -> ThreadRow] /\ sync'[w] = r
        /\ \A u \in Thread \ {w} : sync'[u] = sync[u]
    BY <1>1, RowIs
  <1>3. ThreadFits(w)'
    BY <1>2 DEF ThreadFits
  <1>4. ASSUME NEW u \in Thread \ {w} PROVE ThreadFits(u)'
    BY <1>1, <1>2 DEF ThreadFits
  <1> QED
    BY <1>2, <1>3, <1>4 DEF ThreadsType

-----------------------------------------------------------------------------
(* What the actions make of the tables. *)

LEMMA RelationIs ==
  ASSUME RelType, NEW k \in DOMAIN rel
  PROVE  rel[k] \in Relation
  BY DEF RelType

LEMMA AtWork ==
  ASSUME GraphTypes, NEW w \in Thread, sync[w].pc \in {"event", "upsert", "close", "evidence"}
  PROVE  /\ sync[w] \in ThreadRow /\ sync[w].v \in DOMAIN vers /\ vers[sync[w].v] \in Version
         /\ KeyOf(sync[w].v) \in Key /\ sync[w].v \in VersionNo
  <1>1. sync[w] \in ThreadRow /\ sync[w].v \in DOMAIN vers
    BY DEF GraphTypes, ThreadsType, ThreadFits
  <1> QED
    BY <1>1, VersionIs DEF GraphTypes

\* upsert_relation: a new row, or one whose statement and eligibility change
\* unless a reviewer decided on it.
LEMMA UpsertIs ==
  ASSUME GraphTypes, NEW w \in Thread, UpsertRelation(w)
  PROVE  LET v == sync[w].v  k == KeyOf(sync[w].v) IN
         /\ RelType' /\ DOMAIN rel' = DOMAIN rel \cup {k}
         /\ \A x \in DOMAIN rel :
              /\ rel'[x].src = rel[x].src /\ rel'[x].to = rel[x].to
              /\ rel'[x].manual = rel[x].manual /\ rel'[x].evidence = rel[x].evidence
              /\ rel[x].manual => rel'[x] = rel[x]
         /\ k \notin DOMAIN rel => /\ rel'[k].src = vers[v].product /\ rel'[k].to = 0
                                   /\ ~rel'[k].manual /\ rel'[k].evidence = {}
  <1> DEFINE v == sync[w].v
             k == KeyOf(v)
             r(x) == IF x # k THEN rel[x]
                     ELSE IF k \notin DOMAIN rel THEN NewRelation(v)
                     ELSE IF rel[k].manual THEN rel[k]
                     ELSE [rel[k] EXCEPT !.eligible = TRUE, !.statement = "derived"]
  <1>1. /\ v \in DOMAIN vers /\ v \in VersionNo /\ k \in Key /\ vers[v] \in Version
    BY AtWork DEF UpsertRelation
  <1>2. rel' = [x \in DOMAIN rel \cup {k} |-> r(x)] /\ UNCHANGED vers
    BY DEF UpsertRelation
  <1>3. \A x \in DOMAIN rel : rel[x] \in Relation
    BY RelationIs DEF GraphTypes
  <1>4. NewRelation(v) \in Relation
    BY <1>1, CountAssumption DEF NewRelation, Relation, Version, Status, CountAssumption
  <1>5. \A x \in DOMAIN rel : rel[x].manual => r(x) = rel[x]
    OBVIOUS
  <1>6. \A x \in DOMAIN rel :
          LET u == [rel[x] EXCEPT !.eligible = TRUE, !.statement = "derived"] IN
          /\ u \in Relation /\ u.src = rel[x].src /\ u.to = rel[x].to /\ u.manual = rel[x].manual
          /\ u.evidence = rel[x].evidence
    BY <1>3 DEF Relation
  <1>7. \A x \in DOMAIN rel \cup {k} : r(x) \in Relation
    BY <1>3, <1>4, <1>6
  <1>8. \A x \in DOMAIN rel : /\ r(x).src = rel[x].src /\ r(x).to = rel[x].to
                              /\ r(x).manual = rel[x].manual /\ r(x).evidence = rel[x].evidence
    BY <1>6
  <1>9. k \notin DOMAIN rel => r(k) = NewRelation(v)
    OBVIOUS
  <1>10. /\ NewRelation(v).src = vers[v].product /\ NewRelation(v).to = 0
         /\ ~NewRelation(v).manual /\ NewRelation(v).evidence = {}
    BY DEF NewRelation
  <1> HIDE DEF r, v, k
  <1>11. /\ DOMAIN rel' = DOMAIN rel \cup {k} /\ \A x \in DOMAIN rel \cup {k} : rel'[x] = r(x)
         /\ rel' \in [DOMAIN rel \cup {k} -> Relation] /\ k \in DOMAIN rel \cup {k}
    BY <1>2, <1>7
  <1>12. RelType'
    BY <1>1, <1>2, <1>11 DEF RelType, Relation, GraphTypes
  <1> QED
    BY <1>5, <1>8, <1>9, <1>10, <1>11, <1>12 DEF v, k

LEMMA CloseIs ==
  ASSUME GraphTypes, NEW w \in Thread, CloseOthers(w)
  PROVE  LET v == sync[w].v  k == KeyOf(sync[w].v) IN
         /\ RelType' /\ DOMAIN rel' = DOMAIN rel
         /\ \A x \in DOMAIN rel :
              /\ rel'[x].src = rel[x].src /\ rel'[x].manual = rel[x].manual
              /\ rel'[x].evidence = rel[x].evidence
              /\ rel'[x].statement = rel[x].statement /\ rel'[x].eligible = rel[x].eligible
              /\ rel'[x].to = 0 =>
                   /\ rel[x].to = 0
                   /\ ~(/\ \E u \in rel[x].evidence : vers[u].doc = vers[v].doc
                        /\ rel[x].src = sync[w].stored.src /\ ~rel[x].manual /\ x # k)
  <1> DEFINE v == sync[w].v
             k == KeyOf(v)
             s == sync[w].stored
             Over(x) == /\ \E u \in rel[x].evidence : vers[u].doc = vers[v].doc
                        /\ rel[x].src = s.src /\ rel[x].to = 0 /\ ~rel[x].manual /\ x # k
             r(x) == IF Over(x) THEN [rel[x] EXCEPT !.to = s.from] ELSE rel[x]
  <1>1. s.from \in VersionNo /\ s.from # 0 /\ s.from \in 0 .. MaxVersions
    BY CountAssumption DEF CloseOthers, GraphTypes, ThreadsType, ThreadFits, VersionNo, CountAssumption
  <1>2. rel' = [x \in DOMAIN rel |-> r(x)] /\ UNCHANGED vers
    BY Zenon DEF CloseOthers, Closed
  <1>3. \A x \in DOMAIN rel : rel[x] \in Relation
    BY RelationIs DEF GraphTypes
  <1> HIDE DEF Over, s, v, k
  <1>4. ASSUME NEW x \in DOMAIN rel
        PROVE  /\ r(x) \in Relation
               /\ r(x).src = rel[x].src /\ r(x).manual = rel[x].manual /\ r(x).evidence = rel[x].evidence
               /\ r(x).statement = rel[x].statement /\ r(x).eligible = rel[x].eligible
               /\ r(x).to = 0 => rel[x].to = 0 /\ ~Over(x)
    <2>1. CASE Over(x)
      <3>1. r(x) = [rel[x] EXCEPT !.to = s.from]
        BY <2>1
      <3> QED
        BY <1>1, <1>3, <3>1 DEF Relation
    <2>2. CASE ~Over(x)
      BY <1>3, <2>2
    <2> QED
      BY <2>1, <2>2
  <1> HIDE DEF r
  <1>5. DOMAIN rel' = DOMAIN rel /\ rel' \in [DOMAIN rel -> Relation] /\ \A x \in DOMAIN rel : rel'[x] = r(x)
    BY <1>2, <1>4
  <1>6. RelType'
    BY <1>2, <1>5 DEF RelType, Relation, GraphTypes
  <1>7. \A x \in DOMAIN rel : rel'[x].to = 0 => rel[x].to = 0 /\ ~Over(x)
    BY <1>4, <1>5
  <1> QED
    BY <1>4, <1>5, <1>6, <1>7 DEF Over, v, k, s

\* add_relation_evidence of a relation that is there.
LEMMA AddIs ==
  ASSUME GraphTypes, NEW w \in Thread, AddEvidence(w), KeyOf(sync[w].v) \in DOMAIN rel
  PROVE  LET v == sync[w].v  k == KeyOf(sync[w].v) IN
         /\ RelType' /\ DOMAIN rel' = DOMAIN rel
         /\ \A x \in DOMAIN rel :
              /\ rel'[x].src = rel[x].src /\ rel'[x].manual = rel[x].manual /\ rel'[x].to = rel[x].to
              /\ rel'[x].statement = rel[x].statement /\ rel'[x].eligible = rel[x].eligible
              /\ rel'[x].evidence = IF x = k THEN rel[x].evidence \cup {v} ELSE rel[x].evidence
  <1> DEFINE v == sync[w].v
             k == KeyOf(v)
             ev == rel[k].evidence \cup {v}
             c == Computed(ev)
             n == [rel[k] EXCEPT !.evidence = ev, !.status = c]
  <1>1. v \in DOMAIN vers /\ k \in DOMAIN rel
    BY AtWork DEF AddEvidence
  <1>2. rel' = [rel EXCEPT ![k].evidence = ev, ![k].status = c] /\ UNCHANGED vers
    BY <1>1 DEF AddEvidence
  <1>3. \A x \in DOMAIN rel : rel[x] \in Relation
    BY RelationIs DEF GraphTypes
  <1>4. c \in Status
    BY DEF Computed, Status
  <1>5. ev \in SUBSET DOMAIN vers
    BY <1>1, <1>3 DEF Relation
  <1> HIDE DEF ev, c, v, k
  <1>6. /\ n \in Relation /\ n.src = rel[k].src /\ n.manual = rel[k].manual /\ n.to = rel[k].to
        /\ n.statement = rel[k].statement /\ n.eligible = rel[k].eligible /\ n.evidence = ev
    BY <1>1, <1>3, <1>4, <1>5 DEF Relation
  <1>7. rel' = [rel EXCEPT ![k] = n]
    BY <1>1, <1>2, <1>3, RelType DEF GraphTypes, RelType, Relation
  <1> HIDE DEF n
  <1>8. /\ DOMAIN rel' = DOMAIN rel /\ rel' \in [DOMAIN rel -> Relation] /\ rel'[k] = n
        /\ \A x \in DOMAIN rel : x # k => rel'[x] = rel[x]
    BY <1>1, <1>3, <1>6, <1>7 DEF GraphTypes, RelType
  <1>9. RelType'
    BY <1>2, <1>8 DEF RelType, Relation, GraphTypes
  <1> QED
    BY <1>6, <1>8, <1>9 DEF ev, v, k

LEMMA ClearIs ==
  ASSUME GraphTypes, NEW w \in Thread, Clear(w)
  PROVE  /\ RelType' /\ DOMAIN rel' = Remaining
         /\ \A x \in Remaining : x \in DOMAIN rel /\ rel'[x] = rel[x] /\ rel[x].manual
  <1>1. rel' = [x \in Remaining |-> rel[x]] /\ UNCHANGED vers
    BY DEF Clear
  <1>2. \A x \in Remaining : x \in DOMAIN rel /\ rel[x].manual /\ rel[x] \in Relation
    BY RelationIs DEF GraphTypes, Remaining
  <1>3. DOMAIN rel' = Remaining /\ \A x \in Remaining : rel'[x] = rel[x]
    BY <1>1
  <1>4. rel' \in [Remaining -> Relation']
    BY <1>1, <1>2 DEF Relation
  <1> QED
    BY <1>2, <1>3, <1>4 DEF RelType, GraphTypes

\* review_relation: whatever is decided, but for "restore" it stays decided.
LEMMA ReviewIs ==
  ASSUME GraphTypes, NEW k \in DOMAIN rel, NEW action \in {"approve", "reject", "override", "restore"},
         ReviewRelation(k, action)
  PROVE  /\ RelType' /\ DOMAIN rel' = DOMAIN rel
         /\ \A x \in DOMAIN rel :
              /\ rel'[x].src = rel[x].src /\ rel'[x].to = rel[x].to
              /\ rel'[x].evidence = rel[x].evidence
              /\ action # "restore" /\ rel[x].manual => rel'[x].manual
  <1> DEFINE n == Reviewed(rel[k], action)
  <1>1. \A x \in DOMAIN rel : rel[x] \in Relation
    BY RelationIs DEF GraphTypes
  <1>2. rel' = [rel EXCEPT ![k] = n] /\ UNCHANGED vers
    BY DEF ReviewRelation
  <1>3. /\ n \in Relation /\ n.src = rel[k].src /\ n.to = rel[k].to /\ n.evidence = rel[k].evidence
        /\ action # "restore" => n.manual
    BY <1>1 DEF Reviewed, Relation, Status
  <1> HIDE DEF n
  <1>4. /\ DOMAIN rel' = DOMAIN rel /\ rel' \in [DOMAIN rel -> Relation] /\ rel'[k] = n
        /\ \A x \in DOMAIN rel : x # k => rel'[x] = rel[x]
    BY <1>1, <1>2, <1>3 DEF GraphTypes, RelType
  <1>5. RelType'
    BY <1>2, <1>4 DEF RelType, Relation, GraphTypes
  <1> QED
    BY <1>3, <1>4, <1>5

\* The events of one entity moved to another.
LEMMA MovedIs ==
  ASSUME GraphTypes, NEW s \in Product, NEW t \in Product, events' = Moved(s, t), UNCHANGED vers
  PROVE  /\ EventsType' /\ DOMAIN events' = DOMAIN events
         /\ \A e \in DOMAIN events : /\ events'[e].evidence = events[e].evidence
                                     /\ events'[e].entity = IF events[e].entity = s THEN t ELSE events[e].entity
  <1> DEFINE n(e) == [events[e] EXCEPT !.entity = IF @ = s THEN t ELSE @]
  <1>1. \A e \in DOMAIN events : events[e] \in Event
    BY DEF GraphTypes, EventsType
  <1>2. \A e \in DOMAIN events : /\ n(e) \in Event /\ n(e).evidence = events[e].evidence
                                 /\ n(e).entity = IF events[e].entity = s THEN t ELSE events[e].entity
    BY <1>1 DEF Event
  <1>3. events' = [e \in DOMAIN events |-> n(e)]
    BY DEF Moved
  <1> HIDE DEF n
  <1>4. /\ DOMAIN events' = DOMAIN events /\ events' \in [DOMAIN events -> Event]
        /\ \A e \in DOMAIN events : events'[e] = n(e)
    BY <1>2, <1>3
  <1>5. EventsType'
    BY <1>4 DEF EventsType, Event, GraphTypes
  <1> QED
    BY <1>2, <1>4, <1>5

\* merge_entities: the relations of the source are the target's.
LEMMA MergeIs ==
  ASSUME GraphTypes, NEW s \in Product, NEW t \in Product, MergeEntities(s, t)
  PROVE  /\ RelType' /\ DOMAIN rel' = DOMAIN rel
         /\ \A x \in DOMAIN rel :
              /\ rel'[x].src = IF rel[x].src = s THEN t ELSE rel[x].src
              /\ rel'[x].manual = rel[x].manual /\ rel'[x].evidence = rel[x].evidence
              /\ rel'[x].statement = rel[x].statement /\ rel'[x].eligible = rel[x].eligible
  <1> DEFINE n(x) == [rel[x] EXCEPT !.src = IF @ = s THEN t ELSE @]
  <1>1. \A x \in DOMAIN rel : rel[x] \in Relation
    BY RelationIs DEF GraphTypes
  <1>2. \A x \in DOMAIN rel :
          /\ n(x) \in Relation /\ n(x).src = IF rel[x].src = s THEN t ELSE rel[x].src
          /\ n(x).manual = rel[x].manual /\ n(x).evidence = rel[x].evidence
          /\ n(x).statement = rel[x].statement /\ n(x).eligible = rel[x].eligible
    BY <1>1 DEF Relation
  <1>3. rel' = [x \in DOMAIN rel |-> n(x)] /\ UNCHANGED vers
    BY DEF MergeEntities
  <1> HIDE DEF n
  <1>4. /\ DOMAIN rel' = DOMAIN rel /\ rel' \in [DOMAIN rel -> Relation]
        /\ \A x \in DOMAIN rel : rel'[x] = n(x)
    BY <1>2, <1>3
  <1>5. RelType'
    BY <1>3, <1>4 DEF RelType, Relation, GraphTypes
  <1> QED
    BY <1>2, <1>4, <1>5

\* upsert_event: no event has any evidence but what it had and the thread's version.
LEMMA UpsertEventIs ==
  ASSUME GraphTypes, NEW w \in Thread, UpsertEvent(w)
  PROVE  /\ EventsType' /\ DOMAIN events \subseteq DOMAIN events'
         /\ \A e \in DOMAIN events' : \A v \in events'[e].evidence :
              v = sync[w].v \/ (e \in DOMAIN events /\ v \in events[e].evidence)
  <1> DEFINE v == sync[w].v
  <1>1. v \in DOMAIN vers /\ vers[v] \in Version /\ UNCHANGED vers
    BY AtWork DEF UpsertEvent
  <1>2. \A e \in DOMAIN events : events[e] \in Event
    BY DEF GraphTypes, EventsType
  <1>3. \/ \E e \in Candidates(vers[v].product) : events' = WithEvidence(e, v)
        \/ events' = NewEvent(v)
    BY DEF UpsertEvent
  <1> HIDE DEF v
  <1>4. ASSUME NEW e \in DOMAIN events, events' = WithEvidence(e, v)
        PROVE  /\ events' \in [DOMAIN events -> Event] /\ DOMAIN events' = DOMAIN events
               /\ \A x \in DOMAIN events : events'[x].evidence \subseteq events[x].evidence \cup {v}
    <2> DEFINE n == [events[e] EXCEPT !.evidence = @ \cup {v}]
    <2>1. n \in Event /\ n.evidence = events[e].evidence \cup {v}
      BY <1>1, <1>2 DEF Event
    <2>2. events' = [events EXCEPT ![e] = n]
      BY <1>4 DEF WithEvidence
    <2> HIDE DEF n
    <2> QED
      BY <1>2, <2>1, <2>2 DEF GraphTypes, EventsType
  <1>5. ASSUME events' = NewEvent(v)
        PROVE  /\ events' \in [DOMAIN events \cup {v} -> Event] /\ DOMAIN events' = DOMAIN events \cup {v}
               /\ events'[v].evidence = {v}
               /\ \A x \in DOMAIN events : x # v => events'[x] = events[x]
    <2> DEFINE n == [entity |-> vers[v].product, evidence |-> {v}]
    <2>1. n \in Event /\ n.evidence = {v}
      BY <1>1 DEF Event, Version
    <2>2. events' = [x \in DOMAIN events \cup {v} |-> IF x = v THEN n ELSE events[x]]
      BY <1>5 DEF NewEvent
    <2> HIDE DEF n
    <2> QED
      BY <1>2, <2>1, <2>2
  <1>6. CASE \E e \in DOMAIN events : events' = WithEvidence(e, v)
    <2>1. /\ events' \in [DOMAIN events -> Event] /\ DOMAIN events' = DOMAIN events
          /\ \A x \in DOMAIN events : events'[x].evidence \subseteq events[x].evidence \cup {v}
      BY <1>4, <1>6
    <2>2. EventsType'
      BY <1>1, <2>1 DEF EventsType, Event, GraphTypes
    <2> QED
      BY <2>1, <2>2 DEF v
  <1>7. CASE events' = NewEvent(v)
    <2>1. EventsType'
      BY <1>1, <1>5, <1>7 DEF EventsType, Event, GraphTypes
    <2> QED
      BY <1>5, <1>7, <2>1 DEF v
  <1> QED
    BY <1>3, <1>6, <1>7 DEF Candidates

-----------------------------------------------------------------------------
(* What they make of the thread. *)

Moves(w, r) == sync' = [sync EXCEPT ![w] = r]

LEMMA UpsertMoves ==
  ASSUME GraphTypes, NEW w \in Thread, UpsertRelation(w)
  PROVE  LET k == KeyOf(sync[w].v)
             r == [sync[w] EXCEPT !.pc = "close", !.stored = [src |-> rel'[k].src, from |-> rel'[k].from]] IN
         /\ Moves(w, r) /\ r \in ThreadRow /\ r.pc = "close" /\ r.stored \in [src : Product, from : VersionNo]
         /\ r.stored.src = rel'[k].src
         /\ r.v = sync[w].v /\ r.todo = sync[w].todo /\ r.rebuild = sync[w].rebuild /\ r.alone = sync[w].alone
  <1> DEFINE k == KeyOf(sync[w].v)
             s == [src |-> rel'[k].src, from |-> rel'[k].from]
             r == [sync[w] EXCEPT !.pc = "close", !.stored = s]
  <1>1. sync[w] \in ThreadRow /\ sync \in [Thread -> ThreadRow]
    BY DEF GraphTypes, ThreadsType
  <1>2. rel'[k] \in Relation'
    BY UpsertIs DEF RelType
  <1>3. s \in [src : Product, from : VersionNo] /\ s.src = rel'[k].src
    BY <1>2 DEF Relation
  <1>4. Moves(w, r)
    BY <1>1 DEF UpsertRelation, Moves, ThreadRow
  <1> HIDE DEF s, k
  <1>5. s \in [src : Product \cup {NoProduct}, from : 0 .. MaxVersions]
    BY <1>3, CountAssumption DEF VersionNo, CountAssumption
  <1>6. /\ r \in ThreadRow /\ r.pc = "close" /\ r.stored = s
        /\ r.v = sync[w].v /\ r.todo = sync[w].todo /\ r.rebuild = sync[w].rebuild /\ r.alone = sync[w].alone
    BY <1>1, <1>5 DEF ThreadRow
  <1> QED
    BY <1>3, <1>4, <1>6 DEF s, k

\* The other steps of indexing and of a rebuild.
LEMMA GotoMoves ==
  ASSUME GraphTypes, NEW w \in Thread, NEW pc \in {"next", "upsert", "evidence"}
  PROVE  LET r == [sync[w] EXCEPT !.pc = pc] IN
         /\ Goto(w, pc) => Moves(w, r)
         /\ r \in ThreadRow /\ r.pc = pc /\ r.v = sync[w].v /\ r.todo = sync[w].todo
         /\ r.rebuild = sync[w].rebuild /\ r.alone = sync[w].alone /\ r.stored = sync[w].stored
  <1>1. sync[w] \in ThreadRow /\ sync \in [Thread -> ThreadRow]
    BY DEF GraphTypes, ThreadsType
  <1>2. Goto(w, pc) => Moves(w, [sync[w] EXCEPT !.pc = pc])
    BY <1>1 DEF Goto, Moves
  <1> QED
    BY <1>1, <1>2 DEF ThreadRow

LEMMA GotoIs ==
  ASSUME GraphTypes, NEW w \in Thread, NEW pc \in {"next", "upsert", "evidence"}, Goto(w, pc)
  PROVE  /\ sync'[w].pc = pc /\ sync'[w].v = sync[w].v /\ sync'[w].todo = sync[w].todo
         /\ sync'[w].rebuild = sync[w].rebuild /\ sync'[w].alone = sync[w].alone
         /\ sync'[w].stored = sync[w].stored
  <1> DEFINE r == [sync[w] EXCEPT !.pc = pc]
  <1>1. /\ Moves(w, r)
        /\ r \in ThreadRow /\ r.pc = pc /\ r.v = sync[w].v /\ r.todo = sync[w].todo
        /\ r.rebuild = sync[w].rebuild /\ r.alone = sync[w].alone /\ r.stored = sync[w].stored
    BY GotoMoves
  <1> HIDE DEF r
  <1>2. sync'[w] = r
    BY <1>1, RowIs DEF Moves, GraphTypes, ThreadsType
  <1> QED
    BY <1>1, <1>2

LEMMA ListMoves ==
  ASSUME GraphTypes, NEW w \in Thread, ListEvents(w)
  PROVE  LET r == [sync[w] EXCEPT !.pc = "clear", !.todo = Evidence] IN
         /\ Moves(w, r)
         /\ r \in ThreadRow /\ r.pc = "clear" /\ r.v = sync[w].v /\ r.todo = Evidence
         /\ r.rebuild = sync[w].rebuild /\ r.alone = sync[w].alone
         /\ Evidence \subseteq (DOMAIN events) \X (DOMAIN vers)
  <1>1. sync[w] \in ThreadRow /\ sync \in [Thread -> ThreadRow]
    BY DEF GraphTypes, ThreadsType
  <1>2. Moves(w, [sync[w] EXCEPT !.pc = "clear", !.todo = Evidence])
    BY <1>1 DEF ListEvents, Moves
  <1>3. DOMAIN events \subseteq VersionNo /\ DOMAIN vers \subseteq VersionNo
    BY VersionIs DEF GraphTypes, EventsType
  <1>4. Evidence \subseteq (DOMAIN events) \X (DOMAIN vers) /\ Evidence \subseteq VersionNo \X VersionNo
    BY <1>3 DEF Evidence
  <1> QED
    BY <1>1, <1>2, <1>4 DEF ThreadRow

LEMMA NextMoves ==
  ASSUME GraphTypes, NEW w \in Thread, NextEvidence(w)
  PROVE  \/ \E p \in sync[w].todo :
              LET r == [sync[w] EXCEPT !.pc = "upsert", !.v = p[2], !.todo = @ \ {p}] IN
              /\ Moves(w, r) /\ disturbed' = disturbed
              /\ r \in ThreadRow /\ r.pc = "upsert" /\ r.v = p[2] /\ r.todo = sync[w].todo \ {p}
              /\ r.rebuild = sync[w].rebuild /\ r.alone = sync[w].alone
              /\ p \in (DOMAIN events) \X (DOMAIN vers)
         \/ /\ sync[w].todo = {} /\ Moves(w, Idle)
            /\ disturbed' = IF sync[w].alone THEN disturbed \cap {"review"} ELSE disturbed
  <1>1. sync[w] \in ThreadRow /\ ThreadFits(w)
    BY DEF GraphTypes, ThreadsType
  <1>2. CASE sync[w].todo = {} /\ sync' = [sync EXCEPT ![w] = Idle]
             /\ disturbed' = IF sync[w].alone THEN disturbed \cap {"review"} ELSE disturbed
    BY <1>2 DEF Moves
  <1>3. ASSUME NEW p \in sync[w].todo,
               sync' = [sync EXCEPT ![w] = [sync[w] EXCEPT !.pc = "upsert", !.v = p[2], !.todo = @ \ {p}]],
               UNCHANGED disturbed
        PROVE  LET r == [sync[w] EXCEPT !.pc = "upsert", !.v = p[2], !.todo = @ \ {p}] IN
               /\ Moves(w, r) /\ disturbed' = disturbed
               /\ r \in ThreadRow /\ r.pc = "upsert" /\ r.v = p[2] /\ r.todo = sync[w].todo \ {p}
               /\ r.rebuild = sync[w].rebuild /\ r.alone = sync[w].alone
               /\ p \in (DOMAIN events) \X (DOMAIN vers)
    <2>1. p \in (DOMAIN events) \X (DOMAIN vers) /\ p[2] \in DOMAIN vers
      BY <1>1, <1>3 DEF ThreadFits
    <2>2. p[2] \in 0 .. MaxVersions
      BY <2>1, VersionIs, CountAssumption DEF GraphTypes, VersionNo, CountAssumption
    <2>3. sync[w].todo \ {p} \in SUBSET (VersionNo \X VersionNo)
      BY <1>1 DEF ThreadRow
    <2> QED
      BY <1>1, <1>3, <2>1, <2>2, <2>3 DEF Moves, ThreadRow
  <1> QED
    BY <1>2, <1>3 DEF NextEvidence

-----------------------------------------------------------------------------
(* Type correctness. *)

\* A row that fits the versions and events of now fits those of later.
LEMMA MoveTypes ==
  ASSUME GraphTypes, NEW w \in Thread, NEW r \in ThreadRow, Moves(w, r),
         UNCHANGED vers, DOMAIN events \subseteq DOMAIN events',
         r.pc \in {"upsert", "close", "evidence"} => r.v \in DOMAIN vers,
         r.v <= Len(vers), r.pc # "event",
         r.pc = "close" => r.stored \in [src : Product, from : VersionNo],
         r.pc \in {"list", "clear", "next"} => r.rebuild,
         r.todo \subseteq (DOMAIN events) \X (DOMAIN vers)
  PROVE  ThreadsType'
  BY StepTypes DEF Moves

LEMMA SameTables ==
  ASSUME GraphTypes, UNCHANGED vers
  PROVE  /\ UNCHANGED events => EventsType'
         /\ UNCHANGED rel => RelType'
         /\ UNCHANGED <<merged, alias, audits>> => EntitiesType'
         /\ VersionsType'
  BY DEF GraphTypes, EventsType, RelType, EntitiesType, VersionsType, Event, Relation

LEMMA SyncTypes ==
  ASSUME GraphTypes, NEW w \in Thread, SyncStep(w)
  PROVE  GraphTypes'
  <1>0. /\ sync[w] \in ThreadRow /\ ThreadFits(w)
        /\ UNCHANGED vers /\ VersionsType'
    BY SameTables DEF GraphTypes, ThreadsType, SyncStep, UpsertEvent, UpsertRelation, CloseOthers, AddEvidence,
                      ListEvents, Clear, NextEvidence
  <1>1. CASE UpsertEvent(w)
    <2>1. EventsType' /\ DOMAIN events \subseteq DOMAIN events'
      BY <1>1, UpsertEventIs
    <2>2. ThreadsType'
      <3>1. Goto(w, "upsert") /\ sync[w].v \in DOMAIN vers
        BY <1>0, <1>1 DEF UpsertEvent, ThreadFits
      <3> QED
        BY <1>0, <2>1, <3>1, GotoMoves, MoveTypes DEF ThreadFits
    <2>3. RelType'
      BY <1>1, SameTables DEF UpsertEvent
    <2>4. EntitiesType'
      <3>1. vers[sync[w].v] \in Version
        BY <1>1, AtWork DEF UpsertEvent
      <3> QED
        BY <1>1, <3>1 DEF UpsertEvent, GraphTypes, EntitiesType, Version
    <2>5. CountersType'
      BY <1>1 DEF UpsertEvent, GraphTypes, CountersType, counters
    <2> QED
      BY <1>0, <2>1, <2>2, <2>3, <2>4, <2>5 DEF GraphTypes
  <1>2. CASE UpsertRelation(w)
    <2>1. RelType'
      BY <1>2, UpsertIs
    <2>2. ThreadsType'
      <3>1. sync[w].v \in DOMAIN vers /\ UNCHANGED events
        BY <1>0, <1>2 DEF UpsertRelation, ThreadFits
      <3>2. \E r \in ThreadRow : /\ Moves(w, r) /\ r.pc = "close" /\ r.stored \in [src : Product, from : VersionNo]
                                 /\ r.v = sync[w].v /\ r.todo = sync[w].todo
        BY <1>2, UpsertMoves
      <3> QED
        BY <1>0, <3>1, <3>2, MoveTypes DEF ThreadFits
    <2>3. EventsType'
      BY <1>2, SameTables DEF UpsertRelation
    <2>4. EntitiesType'
      <3>1. KeyOf(sync[w].v).product \in Product
        BY <1>2, AtWork DEF UpsertRelation, Key
      <3> QED
        BY <1>2, <3>1 DEF UpsertRelation, GraphTypes, EntitiesType
    <2>5. CountersType'
      BY <1>2 DEF UpsertRelation, GraphTypes, CountersType, counters
    <2> QED
      BY <1>0, <2>1, <2>2, <2>3, <2>4, <2>5 DEF GraphTypes
  <1>3. CASE CloseOthers(w)
    <2>1. RelType'
      BY <1>3, CloseIs
    <2>2. ThreadsType'
      <3>1. Goto(w, "evidence") /\ sync[w].v \in DOMAIN vers /\ UNCHANGED events
        BY <1>0, <1>3 DEF CloseOthers, ThreadFits
      <3> QED
        BY <1>0, <3>1, GotoMoves, MoveTypes DEF ThreadFits
    <2>3. EventsType' /\ EntitiesType'
      BY <1>3, SameTables DEF CloseOthers
    <2>4. CountersType'
      BY <1>3 DEF CloseOthers, GraphTypes, CountersType, counters
    <2> QED
      BY <1>0, <2>1, <2>2, <2>3, <2>4 DEF GraphTypes
  <1>4. CASE AddEvidence(w)
    <2>1. RelType'
      <3>1. CASE KeyOf(sync[w].v) \in DOMAIN rel
        BY <1>4, <3>1, AddIs
      <3>2. CASE KeyOf(sync[w].v) \notin DOMAIN rel
        BY <1>4, <3>2, SameTables DEF AddEvidence
      <3> QED
        BY <3>1, <3>2
    <2>2. ThreadsType'
      <3>1. sync[w].v \in DOMAIN vers /\ UNCHANGED events /\ Len(vers) \in Nat
        BY <1>0, <1>4 DEF AddEvidence, ThreadFits, GraphTypes, VersionsType
      <3>2. CASE Moves(w, Idle)
        BY <3>1, <3>2, <1>0, IdleIs, MoveTypes
      <3>3. CASE Goto(w, "next") /\ sync[w].rebuild
        <4>1. \E r \in ThreadRow : /\ Moves(w, r) /\ r.pc = "next" /\ r.v = sync[w].v
                                   /\ r.todo = sync[w].todo /\ r.rebuild = sync[w].rebuild
          BY <3>3, GotoMoves
        <4> QED
          BY <1>0, <3>1, <3>3, <4>1, MoveTypes DEF ThreadFits
      <3> QED
        BY <1>4, <3>2, <3>3 DEF AddEvidence, Moves
    <2>3. EventsType' /\ EntitiesType'
      BY <1>4, SameTables DEF AddEvidence
    <2>4. CountersType'
      BY <1>4 DEF AddEvidence, GraphTypes, CountersType, counters
    <2> QED
      BY <1>0, <2>1, <2>2, <2>3, <2>4 DEF GraphTypes
  <1>5. CASE ListEvents(w)
    <2>1. UNCHANGED <<events, rel, merged, alias, audits>>
      BY <1>5 DEF ListEvents
    <2>2. ThreadsType'
      <3>1. sync[w].rebuild
        BY <1>0, <1>5 DEF ListEvents, ThreadFits
      <3>2. \E r \in ThreadRow : /\ Moves(w, r) /\ r.pc = "clear" /\ r.v = sync[w].v /\ r.rebuild = sync[w].rebuild
                                 /\ r.todo \subseteq (DOMAIN events) \X (DOMAIN vers)
        BY <1>5, ListMoves
      <3> QED
        BY <1>0, <2>1, <3>1, <3>2, MoveTypes DEF ThreadFits
    <2>3. CountersType'
      BY <1>5 DEF ListEvents, GraphTypes, CountersType, counters
    <2> QED
      BY <1>0, <2>1, <2>2, <2>3, SameTables DEF GraphTypes
  <1>6. CASE Clear(w)
    <2>1. RelType'
      BY <1>6, ClearIs
    <2>2. UNCHANGED <<events, merged, alias, audits>>
      BY <1>6 DEF Clear
    <2>3. ThreadsType'
      <3>1. Goto(w, "next") /\ sync[w].rebuild
        BY <1>0, <1>6 DEF Clear, ThreadFits
      <3>2. \E r \in ThreadRow : /\ Moves(w, r) /\ r.pc = "next" /\ r.v = sync[w].v
                                 /\ r.todo = sync[w].todo /\ r.rebuild = sync[w].rebuild
        BY <3>1, GotoMoves
      <3> QED
        BY <1>0, <2>2, <3>1, <3>2, MoveTypes DEF ThreadFits
    <2>4. CountersType'
      BY <1>6 DEF Clear, GraphTypes, CountersType, counters
    <2> QED
      BY <1>0, <2>1, <2>2, <2>3, <2>4, SameTables DEF GraphTypes
  <1>7. CASE NextEvidence(w)
    <2>1. UNCHANGED <<events, rel, merged, alias, audits>>
      BY <1>7 DEF NextEvidence
    <2>2. ThreadsType'
      <3>0. Len(vers) \in Nat /\ DOMAIN vers = 1 .. Len(vers)
        BY DEF GraphTypes, VersionsType
      <3>1. CASE Moves(w, Idle)
        BY <1>0, <2>1, <3>0, <3>1, IdleIs, MoveTypes
      <3>2. CASE \E p \in sync[w].todo : \E r \in ThreadRow :
                   /\ Moves(w, r) /\ r.pc = "upsert" /\ r.v = p[2] /\ r.todo = sync[w].todo \ {p}
                   /\ p \in (DOMAIN events) \X (DOMAIN vers)
        <4>1. PICK p \in sync[w].todo, r \in ThreadRow :
                   /\ Moves(w, r) /\ r.pc = "upsert" /\ r.v = p[2] /\ r.todo = sync[w].todo \ {p}
                   /\ p \in (DOMAIN events) \X (DOMAIN vers)
          BY <3>2
        <4>2. r.v \in DOMAIN vers /\ r.v <= Len(vers)
          BY <3>0, <4>1
        <4> QED
          BY <1>0, <2>1, <4>1, <4>2, MoveTypes DEF ThreadFits
      <3> QED
        BY <1>7, <3>1, <3>2, NextMoves
    <2>3. CountersType'
      BY <1>7 DEF NextEvidence, GraphTypes, CountersType, counters
    <2> QED
      BY <1>0, <2>1, <2>2, <2>3, SameTables DEF GraphTypes
  <1> QED
    BY <1>1, <1>2, <1>3, <1>4, <1>5, <1>6, <1>7 DEF SyncStep

LEMMA CrashTypes ==
  ASSUME GraphTypes, NEW w \in Thread, Crash(w)
  PROVE  GraphTypes'
  <1>1. UNCHANGED <<vers, events, rel, merged, alias, audits>> /\ Moves(w, Idle)
    BY DEF Crash, Moves
  <1>2. ThreadsType'
    BY <1>1, IdleIs, MoveTypes DEF GraphTypes, VersionsType
  <1>3. CountersType'
    BY CountAssumption DEF Crash, GraphTypes, CountersType, CountAssumption
  <1> QED
    BY <1>1, <1>2, <1>3, SameTables DEF GraphTypes

\* What reviewers and editors change is not what the threads hold on to.
LEMMA SameThreads ==
  ASSUME GraphTypes, UNCHANGED <<vers, sync>>, DOMAIN events' = DOMAIN events
  PROVE  ThreadsType'
  BY DEF GraphTypes, ThreadsType, ThreadFits

LEMMA OutsideTypes ==
  ASSUME GraphTypes
  PROVE  /\ \A k \in DOMAIN rel, action \in {"approve", "reject", "override", "restore"} :
              ReviewRelation(k, action) => GraphTypes'
         /\ \A s, t \in Product : MergeEntities(s, t) => GraphTypes'
         /\ \A i \in DOMAIN audits : RestoreMerge(i) => GraphTypes'
  <1>1. ASSUME NEW k \in DOMAIN rel, NEW action \in {"approve", "reject", "override", "restore"},
               ReviewRelation(k, action)
        PROVE  GraphTypes'
    <2>1. RelType'
      BY <1>1, ReviewIs
    <2>2. UNCHANGED <<vers, events, merged, alias, audits, sync>>
      BY <1>1 DEF ReviewRelation
    <2>3. CountersType'
      BY <1>1, CountAssumption DEF ReviewRelation, GraphTypes, CountersType, CountAssumption
    <2> QED
      BY <2>1, <2>2, <2>3, SameTables, SameThreads DEF GraphTypes
  <1>2. ASSUME NEW s \in Product, NEW t \in Product, MergeEntities(s, t)
        PROVE  GraphTypes'
    <2>1. RelType'
      BY <1>2, MergeIs
    <2>2. UNCHANGED <<vers, sync, counters, disturbed>> /\ events' = Moved(s, t)
      BY <1>2 DEF MergeEntities
    <2>3. EventsType' /\ DOMAIN events' = DOMAIN events
      BY <2>2, MovedIs
    <2>4. EntitiesType'
      <3>1. audits \in Seq(Audit) /\ merged \in [Product -> Product \cup {NoProduct}]
            /\ alias \in [Product -> Product \cup {NoProduct}]
        BY DEF GraphTypes, EntitiesType
      <3>2. audits' \in Seq(Audit)
        <4>1. [source |-> s, target |-> t, before |-> merged] \in Audit
          BY <3>1 DEF Audit
        <4> QED
          BY <1>2, <3>1, <4>1 DEF MergeEntities
      <3> QED
        BY <1>2, <3>1, <3>2 DEF MergeEntities, EntitiesType
    <2>5. CountersType'
      BY <2>2 DEF GraphTypes, CountersType, counters
    <2> QED
      BY <2>1, <2>2, <2>3, <2>4, <2>5, SameTables, SameThreads DEF GraphTypes
  <1>3. ASSUME NEW i \in DOMAIN audits, RestoreMerge(i)
        PROVE  GraphTypes'
    <2>1. audits[i] \in Audit
      BY DEF GraphTypes, EntitiesType
    <2>2. /\ audits[i].source \in Product /\ audits[i].target \in Product
          /\ audits[i].before \in [Product -> Product \cup {NoProduct}]
      BY <2>1 DEF Audit
    <2>3. /\ UNCHANGED <<vers, rel, alias, audits, sync, counters, disturbed>>
          /\ events' = Moved(audits[i].target, audits[i].source)
      BY <1>3 DEF RestoreMerge
    <2>4. EventsType' /\ DOMAIN events' = DOMAIN events
      BY <2>2, <2>3, MovedIs
    <2>5. EntitiesType'
      BY <1>3, <2>2 DEF RestoreMerge, GraphTypes, EntitiesType
    <2>6. CountersType'
      BY <2>3 DEF GraphTypes, CountersType, counters
    <2> QED
      BY <2>3, <2>4, <2>5, <2>6, SameTables, SameThreads DEF GraphTypes
  <1> QED
    BY <1>1, <1>2, <1>3

LEMMA GraphTypesStep == GraphTypes /\ [GraphNext]_graphVars => GraphTypes'
  <1> SUFFICES ASSUME GraphTypes, [GraphNext]_graphVars PROVE GraphTypes'
    OBVIOUS
  <1>1. CASE UNCHANGED graphVars
    BY <1>1 DEF graphVars, counters, GraphTypes, VersionsType, EventsType, RelType, EntitiesType, CountersType,
                ThreadsType, ThreadFits, Event, Relation
  <1> QED
    BY <1>1, IndexTypes, IndexAgainTypes, RebuildTypes, SyncTypes, CrashTypes, OutsideTypes DEF GraphNext

\* Which actions there are, for the proofs that follow.
LEMMA GraphKinds ==
  ASSUME GraphNext
  PROVE  \/ \E w \in Thread : \/ \E d \in Doc, p \in Product, c \in Price, m \in Month : Index(w, d, p, c, m)
                              \/ \E v \in DOMAIN vers : IndexAgain(w, v)
                              \/ Rebuild(w) \/ UpsertEvent(w) \/ UpsertRelation(w) \/ CloseOthers(w)
                              \/ AddEvidence(w) \/ ListEvents(w) \/ Clear(w) \/ NextEvidence(w) \/ Crash(w)
         \/ \E k \in DOMAIN rel, action \in {"approve", "reject", "override", "restore"} :
              ReviewRelation(k, action)
         \/ \E s, t \in Product : MergeEntities(s, t)
         \/ \E i \in DOMAIN audits : RestoreMerge(i)
  BY DEF GraphNext, SyncStep

\* The relations stay, but for four steps of threads, reviews and merges.
LEMMA SameRel ==
  /\ \A w \in Thread :
       /\ \A d \in Doc, p \in Product, c \in Price, m \in Month : Index(w, d, p, c, m) => UNCHANGED rel
       /\ \A v \in DOMAIN vers : IndexAgain(w, v) => UNCHANGED rel
       /\ Rebuild(w) \/ UpsertEvent(w) \/ ListEvents(w) \/ NextEvidence(w) \/ Crash(w) => UNCHANGED rel
       /\ AddEvidence(w) => KeyOf(sync[w].v) \in DOMAIN rel \/ UNCHANGED rel
  /\ \A i \in DOMAIN audits : RestoreMerge(i) => UNCHANGED rel
  BY DEF Index, IndexAgain, Rebuild, UpsertEvent, ListEvents, NextEvidence, Crash, AddEvidence, RestoreMerge

DecisionStays ==
  \A k \in DOMAIN rel : rel[k].manual /\ reviews' = reviews =>
    /\ k \in DOMAIN rel' /\ rel'[k].manual
    /\ rel'[k].statement = rel[k].statement /\ rel'[k].eligible = rel[k].eligible

LEMMA DecisionStep == GraphTypes /\ [GraphNext]_graphVars => DecisionStays
  <1> SUFFICES ASSUME GraphTypes, [GraphNext]_graphVars PROVE DecisionStays
    OBVIOUS
  <1>1. UNCHANGED rel => DecisionStays
    BY DEF DecisionStays
  <1>2. CASE UNCHANGED graphVars
    BY <1>1, <1>2 DEF graphVars
  <1>3. ASSUME NEW w \in Thread, UpsertRelation(w) PROVE DecisionStays
    BY <1>3, UpsertIs DEF DecisionStays
  <1>4. ASSUME NEW w \in Thread, CloseOthers(w) PROVE DecisionStays
    BY <1>4, CloseIs DEF DecisionStays
  <1>5. ASSUME NEW w \in Thread, AddEvidence(w), KeyOf(sync[w].v) \in DOMAIN rel PROVE DecisionStays
    BY <1>5, AddIs DEF DecisionStays
  <1>6. ASSUME NEW w \in Thread, Clear(w) PROVE DecisionStays
    BY <1>6, ClearIs DEF DecisionStays, Remaining
  <1>7. ASSUME NEW k \in DOMAIN rel, NEW action \in {"approve", "reject", "override", "restore"},
               ReviewRelation(k, action)
        PROVE  DecisionStays
    <2>1. reviews' # reviews
      BY <1>7, CountAssumption DEF ReviewRelation, GraphTypes, CountersType, CountAssumption
    <2> QED
      BY <2>1 DEF DecisionStays
  <1>8. ASSUME NEW s \in Product, NEW t \in Product, MergeEntities(s, t) PROVE DecisionStays
    BY <1>8, MergeIs DEF DecisionStays
  <1> QED
    BY <1>1, <1>2, <1>3, <1>4, <1>5, <1>6, <1>7, <1>8, SameRel, GraphKinds

MergedAwayIsEmpty ==
  \A s \in Product : merged'[s] # merged[s] /\ Len(audits') > Len(audits) =>
    /\ \A e \in DOMAIN events' : events'[e].entity # s
    /\ \A k \in DOMAIN rel' : rel'[k].src # s

LEMMA MergeStep == GraphTypes /\ [GraphNext]_graphVars => MergedAwayIsEmpty
  <1> SUFFICES ASSUME GraphTypes, [GraphNext]_graphVars, NEW s \in Product,
                      merged'[s] # merged[s], Len(audits') > Len(audits)
               PROVE  /\ \A e \in DOMAIN events' : events'[e].entity # s
                      /\ \A k \in DOMAIN rel' : rel'[k].src # s
    BY DEF MergedAwayIsEmpty
  <1>1. merged' # merged /\ audits' # audits
    BY DEF GraphTypes, EntitiesType
  <1>2. PICK x \in Product, t \in Product : MergeEntities(x, t)
    BY <1>1, GraphKinds DEF graphVars, Index, IndexAgain, Rebuild, UpsertEvent, UpsertRelation, CloseOthers,
                            AddEvidence, ListEvents, Clear, NextEvidence, Crash, ReviewRelation, RestoreMerge
  <1>3. x = s /\ s # t
    BY <1>1, <1>2 DEF MergeEntities, GraphTypes, EntitiesType
  <1>4. events' = Moved(s, t) /\ UNCHANGED vers
    BY <1>2, <1>3 DEF MergeEntities
  <1> QED
    BY <1>2, <1>3, <1>4, MovedIs, MergeIs

-----------------------------------------------------------------------------
(* Who runs beside whom. *)

\* A thread has started: an old version or a new one, or a rebuild.
Started(w) ==
  /\ UNCHANGED <<events, rel, audits>>
  /\ \A v \in DOMAIN vers : v \in DOMAIN vers' /\ vers'[v] = vers[v] /\ KeyOf(v)' = KeyOf(v)
  /\ ~At(w) /\ sync'[w].pc \in {"event", "list"}
  /\ sync'[w].alone <=> \A u \in Thread : ~At(u)
  /\ \A u \in Thread \ {w} :
       /\ sync'[u].pc = sync[u].pc /\ sync'[u].v = sync[u].v /\ sync'[u].stored = sync[u].stored
       /\ sync'[u].todo = sync[u].todo /\ sync'[u].rebuild = sync[u].rebuild /\ ~sync'[u].alone
  /\ disturbed \subseteq disturbed' /\ ("review" \in disturbed' => "review" \in disturbed)
  /\ (\E u \in Thread : At(u)) => disturbed' \cap {"documents", "rebuild"} # {}
  /\ \A u \in Thread : At(u) /\ (sync'[w].rebuild \/ sync[u].rebuild) => "rebuild" \in disturbed'

LEMMA StartEffect ==
  ASSUME GraphTypes, NEW w \in Thread, NEW s \in ThreadRow, Start(w, s), s.pc \in {"event", "list"},
         UNCHANGED <<events, rel, audits>>,
         \A v \in DOMAIN vers : v \in DOMAIN vers' /\ vers'[v] = vers[v] /\ KeyOf(v)' = KeyOf(v)
  PROVE  Started(w)
  <1>1. sync \in [Thread -> ThreadRow]
    BY DEF GraphTypes, ThreadsType
  <1>2. /\ sync'[w] = [s EXCEPT !.alone = (Active = {})]
        /\ \A u \in Thread \ {w} : sync'[u] = [sync[u] EXCEPT !.alone = FALSE]
    BY <1>1, StartIs
  <1>3. /\ sync'[w].pc = s.pc /\ sync'[w].rebuild = s.rebuild
        /\ sync'[w].alone <=> Active = {}
    BY <1>2 DEF ThreadRow
  <1>7. ASSUME NEW u \in Thread \ {w}
        PROVE  /\ sync'[u].pc = sync[u].pc /\ sync'[u].v = sync[u].v /\ sync'[u].stored = sync[u].stored
               /\ sync'[u].todo = sync[u].todo /\ sync'[u].rebuild = sync[u].rebuild /\ ~sync'[u].alone
    <2>1. sync[u] \in ThreadRow
      BY <1>1
    <2>2. sync'[u] = [sync[u] EXCEPT !.alone = FALSE]
      BY <1>2
    <2> QED
      BY <2>1, <2>2 DEF ThreadRow
  <1>4. Active = {} <=> \A u \in Thread : ~At(u)
    BY DEF Active, At
  <1>5. /\ disturbed \subseteq disturbed' /\ ("review" \in disturbed' => "review" \in disturbed)
        /\ (\E u \in Thread : At(u)) => disturbed' \cap {"documents", "rebuild"} # {}
        /\ \A u \in Thread : At(u) /\ (s.rebuild \/ sync[u].rebuild) => "rebuild" \in disturbed'
    BY <1>4 DEF Start, Active, At
  <1>6. ~At(w)
    BY DEF Start, At
  <1> QED
    BY <1>3, <1>7, <1>4, <1>5, <1>6 DEF Started

LEMMA StartsAre ==
  ASSUME GraphTypes, NEW w \in Thread
  PROVE  /\ \A d \in Doc, p \in Product, c \in Price, m \in Month : Index(w, d, p, c, m) => Started(w)
         /\ \A v \in DOMAIN vers : IndexAgain(w, v) => Started(w)
         /\ Rebuild(w) => Started(w)
  <1>1. ASSUME NEW d \in Doc, NEW p \in Product, NEW c \in Price, NEW m \in Month, Index(w, d, p, c, m)
        PROVE  Started(w)
    <2> DEFINE s == [Idle EXCEPT !.pc = "event", !.v = Len(vers) + 1]
    <2>1. /\ VersionsType' /\ Len(vers') = Len(vers) + 1 /\ Len(vers) \in Nat
          /\ \A v \in DOMAIN vers : v \in DOMAIN vers' /\ vers'[v] = vers[v] /\ KeyOf(v)' = KeyOf(v)
      BY <1>1, AppendIs DEF Index, GraphTypes
    <2>2. Len(vers) + 1 \in 0 .. MaxVersions
      BY <2>1, CountAssumption DEF VersionsType, CountAssumption
    <2>3. s \in ThreadRow /\ s.pc = "event"
      BY <2>2, EventRowIs
    <2>4. Start(w, s) /\ UNCHANGED <<events, rel, audits>>
      BY <1>1 DEF Index
    <2> HIDE DEF s
    <2> QED
      BY <2>1, <2>3, <2>4, StartEffect
  <1>2. ASSUME NEW v \in DOMAIN vers, IndexAgain(w, v) PROVE Started(w)
    <2> DEFINE s == [Idle EXCEPT !.pc = "event", !.v = v]
    <2>1. v \in 0 .. MaxVersions
      BY VersionIs DEF GraphTypes, VersionNo
    <2>2. s \in ThreadRow /\ s.pc = "event"
      BY <2>1, EventRowIs
    <2>3. Start(w, s) /\ UNCHANGED <<vers, events, rel, audits>>
      BY <1>2 DEF IndexAgain
    <2> HIDE DEF s
    <2>4. \A u \in DOMAIN vers : u \in DOMAIN vers' /\ vers'[u] = vers[u] /\ KeyOf(u)' = KeyOf(u)
      BY <2>3 DEF KeyOf
    <2> QED
      BY <2>2, <2>3, <2>4, StartEffect
  <1>3. ASSUME Rebuild(w) PROVE Started(w)
    <2> DEFINE s == [Idle EXCEPT !.pc = "list", !.rebuild = TRUE]
    <2>1. s \in ThreadRow /\ s.pc = "list"
      BY IdleIs DEF ThreadRow
    <2>2. Start(w, s) /\ UNCHANGED <<vers, events, rel, audits>>
      BY <1>3 DEF Rebuild
    <2> HIDE DEF s
    <2>3. \A u \in DOMAIN vers : u \in DOMAIN vers' /\ vers'[u] = vers[u] /\ KeyOf(u)' = KeyOf(u)
      BY <2>2 DEF KeyOf
    <2> QED
      BY <2>1, <2>2, <2>3, StartEffect
  <1> QED
    BY <1>1, <1>2, <1>3

\* A thread at work goes on, or ends; its flags are its own until then, and only
\* a rebuild that was alone takes the disturbance away.
Stepped(w) ==
  /\ At(w) /\ \A u \in Thread \ {w} : sync'[u] = sync[u]
  /\ UNCHANGED <<vers, audits>>
  /\ sync'[w].pc # "idle" => sync'[w].rebuild = sync[w].rebuild /\ sync'[w].alone = sync[w].alone
  /\ sync'[w].pc = "idle" => ~sync'[w].rebuild
  /\ \/ disturbed \cap {"documents", "rebuild"} \subseteq disturbed'
     \/ sync'[w].pc = "idle" /\ sync[w].alone /\ sync[w].rebuild

LEMMA StepsAre ==
  ASSUME GraphTypes, NEW w \in Thread, SyncStep(w) \/ Crash(w)
  PROVE  Stepped(w)
  <1>0. sync[w] \in ThreadRow /\ sync \in [Thread -> ThreadRow]
    BY DEF GraphTypes, ThreadsType
  <1>1. UNCHANGED <<vers, audits>> /\ At(w)
    BY DEF SyncStep, UpsertEvent, UpsertRelation, CloseOthers, AddEvidence, ListEvents, Clear, NextEvidence, Crash, At
  <1>2. ASSUME NEW r \in ThreadRow, Moves(w, r)
        PROVE  sync'[w] = r /\ \A u \in Thread \ {w} : sync'[u] = sync[u]
    BY <1>0, <1>2, RowIs DEF Moves
  <1>3. ASSUME NEW r \in ThreadRow, Moves(w, r), r.pc # "idle", r.rebuild = sync[w].rebuild,
               r.alone = sync[w].alone, disturbed \cap {"documents", "rebuild"} \subseteq disturbed'
        PROVE  Stepped(w)
    BY <1>1, <1>2, <1>3 DEF Stepped
  <1>4. ASSUME Moves(w, Idle),
               disturbed \cap {"documents", "rebuild"} \subseteq disturbed' \/ (sync[w].alone /\ sync[w].rebuild)
        PROVE  Stepped(w)
    <2>1. sync'[w] = Idle /\ \A u \in Thread \ {w} : sync'[u] = sync[u]
      BY <1>2, <1>4, IdleIs
    <2> QED
      BY <1>1, <1>4, <2>1, IdleIs DEF Stepped
  <1>5. CASE UpsertEvent(w)
    BY <1>3, <1>5, GotoMoves DEF UpsertEvent
  <1>6. CASE UpsertRelation(w)
    <2>1. disturbed' = disturbed
      BY <1>6 DEF UpsertRelation
    <2> QED
      BY <1>3, <1>6, <2>1, UpsertMoves
  <1>7. CASE CloseOthers(w)
    BY <1>3, <1>7, GotoMoves DEF CloseOthers
  <1>8. CASE AddEvidence(w)
    <2>1. disturbed \subseteq disturbed' /\ (Goto(w, "next") \/ Moves(w, Idle))
      BY <1>8 DEF AddEvidence, Moves
    <2> QED
      BY <1>3, <1>4, <2>1, GotoMoves
  <1>9. CASE ListEvents(w)
    <2>1. disturbed' = disturbed
      BY <1>9 DEF ListEvents
    <2> QED
      BY <1>3, <1>9, <2>1, ListMoves
  <1>10. CASE Clear(w)
    <2>1. disturbed \cap {"documents", "rebuild"} \subseteq disturbed' /\ Goto(w, "next")
      BY <1>10 DEF Clear
    <2> QED
      BY <1>3, <2>1, GotoMoves
  <1>11. CASE NextEvidence(w)
    <2>1. sync[w].rebuild
      BY <1>11 DEF NextEvidence, GraphTypes, ThreadsType, ThreadFits
    <2> QED
      BY <1>3, <1>4, <1>11, <2>1, NextMoves
  <1>12. CASE Crash(w)
    BY <1>4, <1>12 DEF Crash, Moves
  <1> QED
    BY <1>5, <1>6, <1>7, <1>8, <1>9, <1>10, <1>11, <1>12 DEF SyncStep

\* Reviewers and editors leave the threads alone.
Edited ==
  /\ UNCHANGED <<vers, sync>> /\ disturbed \subseteq disturbed'
  /\ "rebuild" \in disturbed' => "rebuild" \in disturbed

LEMMA EditsAre ==
  /\ \A k \in DOMAIN rel, action \in {"approve", "reject", "override", "restore"} :
       ReviewRelation(k, action) => Edited
  /\ \A s, t \in Product : MergeEntities(s, t) => Edited
  /\ \A i \in DOMAIN audits : RestoreMerge(i) => Edited
  BY DEF ReviewRelation, MergeEntities, RestoreMerge, Edited

LEMMA StepShapes ==
  ASSUME GraphTypes, [GraphNext]_graphVars
  PROVE  \/ UNCHANGED graphVars \/ Edited
         \/ \E w \in Thread : Started(w) \/ Stepped(w)
  BY StartsAre, StepsAre, EditsAre DEF GraphNext

LEMMA FlagsStep == GraphTypes /\ Flags /\ [GraphNext]_graphVars => Flags'
  <1> SUFFICES ASSUME GraphTypes, Flags, [GraphNext]_graphVars PROVE Flags'
    OBVIOUS
  <1>1. ASSUME NEW w \in Thread, Started(w) PROVE Flags'
    <2>1. \A u \in Thread \ {w} : At(u)' <=> At(u)
      BY <1>1 DEF Started, At
    <2>2. \A u, x \in Thread : At(u)' /\ At(x)' /\ sync'[x].alone => u = x
      BY <1>1, <2>1 DEF Started
    <2>3. disturbed' \cap {"documents", "rebuild"} = {} => \A u \in Thread \ {w} : ~At(u)'
      BY <1>1, <2>1 DEF Started
    <2>4. \A x \in Thread : At(x)' /\ sync'[x].rebuild /\ ~sync'[x].alone => "rebuild" \in disturbed'
      BY <1>1, <2>1 DEF Started
    <2> QED
      BY <2>2, <2>3, <2>4 DEF Flags
  <1>2. ASSUME NEW w \in Thread, Stepped(w) PROVE Flags'
    <2>1. \A u \in Thread : At(u)' => At(u) /\ sync'[u].rebuild = sync[u].rebuild /\ sync'[u].alone = sync[u].alone
      BY <1>2 DEF Stepped, At
    <2>2. CASE disturbed \cap {"documents", "rebuild"} \subseteq disturbed'
      BY <2>1, <2>2 DEF Flags
    <2>3. CASE sync'[w].pc = "idle" /\ sync[w].alone
      <3>1. \A u \in Thread : ~At(u)'
        BY <1>2, <2>1, <2>3 DEF Flags, Stepped, At
      <3> QED
        BY <3>1 DEF Flags
    <2> QED
      BY <1>2, <2>2, <2>3 DEF Stepped
  <1>3. CASE Edited
    BY <1>3 DEF Edited, Flags, At
  <1>4. CASE UNCHANGED graphVars
    BY <1>4 DEF graphVars, Flags, At
  <1> QED
    BY <1>1, <1>2, <1>3, <1>4, StepShapes

-----------------------------------------------------------------------------
(* Evidence on its way. *)

\* The events stay, but for one step of threads and for merges.
LEMMA SameEvents ==
  /\ \A w \in Thread :
       /\ \A d \in Doc, p \in Product, c \in Price, m \in Month : Index(w, d, p, c, m) => UNCHANGED events
       /\ \A v \in DOMAIN vers : IndexAgain(w, v) => UNCHANGED events
       /\ Rebuild(w) \/ UpsertRelation(w) \/ CloseOthers(w) \/ AddEvidence(w) \/ ListEvents(w) \/ Clear(w)
          \/ NextEvidence(w) \/ Crash(w) => UNCHANGED events
  /\ \A k \in DOMAIN rel, action \in {"approve", "reject", "override", "restore"} :
       ReviewRelation(k, action) => UNCHANGED events
  BY DEF Index, IndexAgain, Rebuild, UpsertRelation, CloseOthers, AddEvidence, ListEvents, Clear, NextEvidence,
         Crash, ReviewRelation

\* No event has evidence it did not have.
NothingNew == \A e \in DOMAIN events' : \A v \in events'[e].evidence : e \in DOMAIN events /\ v \in events[e].evidence

LEMMA NewEvidence ==
  ASSUME GraphTypes, [GraphNext]_graphVars
  PROVE  NothingNew \/ \E w \in Thread : UpsertEvent(w)
  <1>1. UNCHANGED events => NothingNew
    BY DEF NothingNew
  <1>2. UNCHANGED graphVars => UNCHANGED events
    BY DEF graphVars
  <1>3. ASSUME NEW s \in Product, NEW t \in Product, MergeEntities(s, t) PROVE NothingNew
    <2>1. events' = Moved(s, t) /\ UNCHANGED vers
      BY <1>3 DEF MergeEntities
    <2> QED
      BY <2>1, MovedIs DEF NothingNew
  <1>4. ASSUME NEW i \in DOMAIN audits, RestoreMerge(i) PROVE NothingNew
    <2>1. events' = Moved(audits[i].target, audits[i].source) /\ UNCHANGED vers
      BY <1>4 DEF RestoreMerge
    <2>2. audits[i] \in Audit
      BY DEF GraphTypes, EntitiesType
    <2>3. audits[i].target \in Product /\ audits[i].source \in Product
      BY <2>2 DEF Audit
    <2> QED
      BY <2>1, <2>3, MovedIs DEF NothingNew
  <1> QED
    BY <1>1, <1>2, <1>3, <1>4, SameEvents, GraphKinds

\* Only deleting relations takes evidence from them.
Keeps == \A v \in DOMAIN vers : Covered(v) => Covered(v)'

LEMMA KeepsStep ==
  ASSUME GraphTypes, [GraphNext]_graphVars
  PROVE  Keeps \/ \E w \in Thread : Clear(w)
  <1>1. ASSUME \A v \in DOMAIN vers : KeyOf(v)' = KeyOf(v), UNCHANGED rel PROVE Keeps
    BY <1>1 DEF Keeps, Covered
  <1>2. UNCHANGED vers => \A v \in DOMAIN vers : KeyOf(v)' = KeyOf(v)
    BY DEF KeyOf
  <1>3. ASSUME UNCHANGED vers, \A k \in DOMAIN rel : k \in DOMAIN rel' /\ rel[k].evidence \subseteq rel'[k].evidence
        PROVE  Keeps
    BY <1>2, <1>3 DEF Keeps, Covered
  <1>4. CASE UNCHANGED graphVars
    BY <1>1, <1>2, <1>4 DEF graphVars
  <1>5. ASSUME NEW w \in Thread, Started(w) PROVE Keeps
    BY <1>1, <1>5 DEF Started
  <1>6. ASSUME NEW w \in Thread, UpsertEvent(w) \/ ListEvents(w) \/ NextEvidence(w) \/ Crash(w) PROVE Keeps
    BY <1>1, <1>2, <1>6 DEF UpsertEvent, ListEvents, NextEvidence, Crash
  <1>7. ASSUME NEW w \in Thread, UpsertRelation(w) PROVE Keeps
    <2>1. UNCHANGED vers
      BY <1>7 DEF UpsertRelation
    <2> QED
      BY <1>3, <1>7, <2>1, UpsertIs
  <1>8. ASSUME NEW w \in Thread, CloseOthers(w) PROVE Keeps
    <2>1. UNCHANGED vers
      BY <1>8 DEF CloseOthers
    <2> QED
      BY <1>3, <1>8, <2>1, CloseIs
  <1>9. ASSUME NEW w \in Thread, AddEvidence(w) PROVE Keeps
    <2>1. UNCHANGED vers /\ (KeyOf(sync[w].v) \in DOMAIN rel \/ UNCHANGED rel)
      BY <1>9 DEF AddEvidence
    <2> QED
      BY <1>1, <1>2, <1>3, <1>9, <2>1, AddIs
  <1>10. ASSUME NEW k \in DOMAIN rel, NEW action \in {"approve", "reject", "override", "restore"},
                ReviewRelation(k, action)
         PROVE  Keeps
    <2>1. UNCHANGED vers
      BY <1>10 DEF ReviewRelation
    <2> QED
      BY <1>3, <1>10, <2>1, ReviewIs
  <1>11. ASSUME NEW s \in Product, NEW t \in Product, MergeEntities(s, t) PROVE Keeps
    <2>1. UNCHANGED vers
      BY <1>11 DEF MergeEntities
    <2> QED
      BY <1>3, <1>11, <2>1, MergeIs
  <1>12. ASSUME NEW i \in DOMAIN audits, RestoreMerge(i) PROVE Keeps
    BY <1>1, <1>2, <1>12 DEF RestoreMerge
  <1> QED
    BY <1>4, <1>5, <1>6, <1>7, <1>8, <1>9, <1>10, <1>11, <1>12, StartsAre, GraphKinds

\* Evidence a thread holds goes on with it until its relation has it; else a
\* rebuild has gone wrong.
LEMMA HandledGoes ==
  ASSUME GraphTypes, NEW w \in Thread, SyncStep(w) \/ Crash(w), NEW v, Handled(w, v)
  PROVE  Handled(w, v)' \/ Covered(v)' \/ (sync'[w].pc = "idle" /\ "rebuild" \in disturbed')
  <1>0. sync[w] \in ThreadRow /\ sync \in [Thread -> ThreadRow]
    BY DEF GraphTypes, ThreadsType
  <1>1. ASSUME NEW r \in ThreadRow, Moves(w, r) PROVE sync'[w] = r
    BY <1>0, <1>1, RowIs DEF Moves
  <1>2. v = sync[w].v /\ sync[w].pc \in {"upsert", "close", "evidence"}
    BY DEF Handled
  <1>3. CASE UpsertRelation(w)
    <2>1. sync'[w].pc = "close" /\ sync'[w].v = v
      BY <1>1, <1>2, <1>3, UpsertMoves
    <2> QED
      BY <2>1 DEF Handled
  <1>4. CASE CloseOthers(w)
    <2>1. sync'[w].pc = "evidence" /\ sync'[w].v = v
      BY <1>2, <1>4, GotoIs DEF CloseOthers
    <2> QED
      BY <2>1 DEF Handled
  <1>5. CASE AddEvidence(w)
    <2>1. CASE KeyOf(v) \in DOMAIN rel
      <3>1. KeyOf(v)' = KeyOf(v)
        BY <1>5 DEF AddEvidence, KeyOf
      <3>2. KeyOf(v) \in DOMAIN rel' /\ v \in rel'[KeyOf(v)].evidence
        BY <1>2, <1>5, <2>1, AddIs
      <3> QED
        BY <3>1, <3>2 DEF Covered
    <2>2. CASE KeyOf(v) \notin DOMAIN rel
      <3>1. Moves(w, Idle) /\ "rebuild" \in disturbed'
        BY <1>2, <1>5, <2>2 DEF AddEvidence, Moves
      <3> QED
        BY <1>1, <3>1, IdleIs
    <2> QED
      BY <2>1, <2>2
  <1>6. CASE Crash(w)
    <2>1. Moves(w, Idle) /\ "rebuild" \in disturbed'
      BY <1>6 DEF Crash, Moves
    <2> QED
      BY <1>1, <2>1, IdleIs
  <1> QED
    BY <1>2, <1>3, <1>4, <1>5, <1>6 DEF SyncStep, UpsertEvent, ListEvents, Clear, NextEvidence

\* A rebuild ends with nothing left to replay, or has gone wrong.
LEMMA RebuildEnds ==
  ASSUME GraphTypes, NEW w \in Thread, SyncStep(w) \/ Crash(w), sync[w].rebuild, sync'[w].pc = "idle"
  PROVE  \/ "rebuild" \in disturbed'
         \/ /\ sync[w].pc = "next" /\ sync[w].todo = {} /\ UNCHANGED <<events, rel, vers>>
            /\ disturbed' = IF sync[w].alone THEN disturbed \cap {"review"} ELSE disturbed
  <1>0. sync[w] \in ThreadRow /\ sync \in [Thread -> ThreadRow]
    BY DEF GraphTypes, ThreadsType
  <1>1. ASSUME NEW r \in ThreadRow, Moves(w, r) PROVE sync'[w] = r
    BY <1>0, <1>1, RowIs DEF Moves
  <1>2. CASE UpsertEvent(w) \/ CloseOthers(w) \/ Clear(w)
    BY <1>2, GotoIs DEF UpsertEvent, CloseOthers, Clear
  <1>3. CASE UpsertRelation(w)
    BY <1>1, <1>3, UpsertMoves
  <1>4. CASE ListEvents(w)
    BY <1>1, <1>4, ListMoves
  <1>5. CASE AddEvidence(w)
    <2>1. Goto(w, "next") \/ "rebuild" \in disturbed'
      BY <1>5 DEF AddEvidence
    <2> QED
      BY <2>1, GotoIs
  <1>6. CASE NextEvidence(w)
    <2>1. sync[w].pc = "next" /\ UNCHANGED <<events, rel, vers>>
      BY <1>6 DEF NextEvidence
    <2> QED
      BY <1>1, <1>6, <2>1, NextMoves
  <1>7. CASE Crash(w)
    BY <1>7 DEF Crash
  <1> QED
    BY <1>2, <1>3, <1>4, <1>5, <1>6, <1>7 DEF SyncStep

\* The steps that no edit is.
LEMMA WorkShows ==
  ASSUME GraphTypes, NEW w \in Thread
  PROVE  /\ UpsertEvent(w) => sync[w].pc = "event" /\ sync'[w].pc = "upsert" /\ sync'[w].v = sync[w].v
         /\ Clear(w) => sync[w].pc = "clear" /\ sync'[w].pc = "next" /\ sync'[w].rebuild
  <1>2. CASE UpsertEvent(w)
    <2>1. sync[w].pc = "event" /\ Goto(w, "upsert")
      BY <1>2 DEF UpsertEvent
    <2>2. sync'[w].pc = "upsert" /\ sync'[w].v = sync[w].v
      BY <2>1, GotoIs
    <2> QED
      BY <2>1, <2>2 DEF Clear
  <1>3. CASE Clear(w)
    <2>1. sync[w].pc = "clear" /\ Goto(w, "next") /\ sync[w].rebuild
      BY <1>3 DEF Clear, GraphTypes, ThreadsType, ThreadFits
    <2>2. sync'[w].pc = "next" /\ sync'[w].rebuild
      BY <2>1, GotoIs
    <2> QED
      BY <2>1, <2>2 DEF UpsertEvent
  <1> QED
    BY <1>2, <1>3

\* The next evidence of a rebuild is in the thread's hands.
LEMMA NextIs ==
  ASSUME GraphTypes, NEW w \in Thread, NextEvidence(w), sync'[w].pc # "idle"
  PROVE  /\ sync'[w].pc = "upsert" /\ UNCHANGED <<vers, events, rel>>
         /\ \A e, v : <<e, v>> \in sync[w].todo => sync'[w].v = v \/ <<e, v>> \in sync'[w].todo
  <1>0. sync \in [Thread -> ThreadRow]
    BY DEF GraphTypes, ThreadsType
  <1>1. UNCHANGED <<vers, events, rel>>
    BY DEF NextEvidence
  <1>2. ~Moves(w, Idle)
    BY <1>0, IdleIs, RowIs DEF Moves
  <1>3. PICK p \in sync[w].todo, r \in ThreadRow :
          Moves(w, r) /\ r.pc = "upsert" /\ r.v = p[2] /\ r.todo = sync[w].todo \ {p}
    BY <1>2, NextMoves
  <1>4. sync'[w] = r
    BY <1>0, <1>3, RowIs DEF Moves
  <1> QED
    BY <1>1, <1>3, <1>4

LEMMA ListIs ==
  ASSUME GraphTypes, NEW w \in Thread, ListEvents(w)
  PROVE  /\ sync'[w].pc = "clear" /\ UNCHANGED <<vers, events, rel>>
         /\ \A e \in DOMAIN events : \A v \in events[e].evidence : <<e, v>> \in sync'[w].todo
  <1>0. sync \in [Thread -> ThreadRow]
    BY DEF GraphTypes, ThreadsType
  <1>1. UNCHANGED <<vers, events, rel>>
    BY DEF ListEvents
  <1>2. PICK r \in ThreadRow : Moves(w, r) /\ r.pc = "clear" /\ r.todo = Evidence
    BY ListMoves
  <1>3. sync'[w] = r
    BY <1>0, <1>2, RowIs DEF Moves
  <1>4. \A e \in DOMAIN events : events[e].evidence \subseteq DOMAIN vers
    BY DEF GraphTypes, EventsType, Event
  <1>5. \A e \in DOMAIN events : \A v \in events[e].evidence : <<e, v>> \in Evidence
    BY <1>4 DEF Evidence
  <1> QED
    BY <1>1, <1>2, <1>3, <1>5

\* Work goes on with what is still to be replayed.
LEMMA WorkIs ==
  ASSUME GraphTypes, NEW w \in Thread, UpsertRelation(w) \/ CloseOthers(w) \/ AddEvidence(w) \/ Clear(w),
         sync'[w].pc # "idle"
  PROVE  sync'[w].todo = sync[w].todo /\ sync'[w].pc # "clear"
  <1>0. sync \in [Thread -> ThreadRow]
    BY DEF GraphTypes, ThreadsType
  <1>1. CASE UpsertRelation(w)
    <2>1. PICK r \in ThreadRow : Moves(w, r) /\ r.todo = sync[w].todo /\ r.pc = "close"
      BY <1>1, UpsertMoves
    <2>2. sync'[w] = r
      BY <1>0, <2>1, RowIs DEF Moves
    <2> QED
      BY <2>1, <2>2
  <1>2. CASE CloseOthers(w) \/ Clear(w)
    BY <1>2, GotoIs DEF CloseOthers, Clear
  <1>3. CASE AddEvidence(w)
    <2>1. ~Moves(w, Idle)
      BY <1>0, IdleIs, RowIs DEF Moves
    <2>2. Goto(w, "next")
      BY <1>3, <2>1 DEF AddEvidence, Moves
    <2> QED
      BY <2>2, GotoIs
  <1> QED
    BY <1>1, <1>2, <1>3

-----------------------------------------------------------------------------
(* All evidence arrives. *)

LEMMA EvidenceStep ==
  GraphTypes /\ Flags /\ EvidenceArrives /\ ReplayCovers /\ [GraphNext]_graphVars => EvidenceArrives'
  <1> SUFFICES ASSUME GraphTypes, Flags, EvidenceArrives, ReplayCovers, [GraphNext]_graphVars,
                      "rebuild" \notin disturbed', \A u \in Thread : At(u)' => ~sync'[u].rebuild,
                      NEW e \in DOMAIN events', NEW v \in events'[e].evidence
               PROVE  Covered(v)' \/ \E u \in Thread : Handled(u, v)'
    BY DEF EvidenceArrives
  <1>1. \A w \in Thread : ~Clear(w)
    BY WorkShows DEF At
  <1>2. Keeps
    BY <1>1, KeepsStep
  <1>3. ASSUME NEW w \in Thread, UpsertEvent(w), ~(e \in DOMAIN events /\ v \in events[e].evidence)
        PROVE  Handled(w, v)'
    <2>1. v = sync[w].v
      BY <1>3, UpsertEventIs
    <2>2. sync'[w].pc = "upsert" /\ sync'[w].v = v
      BY <1>3, <2>1, WorkShows
    <2> QED
      BY <2>2 DEF Handled
  <1>4. CASE ~(e \in DOMAIN events /\ v \in events[e].evidence)
    BY <1>3, <1>4, NewEvidence DEF NothingNew
  <1>5. CASE e \in DOMAIN events /\ v \in events[e].evidence
    <2>1. v \in DOMAIN vers
      BY <1>5 DEF GraphTypes, EventsType, Event
    <2>2. Covered(v) => Covered(v)'
      BY <1>2, <2>1 DEF Keeps
    <2>3. "rebuild" \notin disturbed /\ (\A u \in Thread : At(u) => ~sync[u].rebuild) =>
            Covered(v) \/ \E u \in Thread : Handled(u, v)
      BY <1>5 DEF EvidenceArrives
    <2>4. CASE Edited \/ UNCHANGED graphVars
      <3>1. UNCHANGED sync /\ "rebuild" \notin disturbed
        BY <2>4 DEF Edited, graphVars
      <3>2. \A u \in Thread : (At(u)' <=> At(u)) /\ (Handled(u, v)' <=> Handled(u, v))
        BY <3>1 DEF At, Handled
      <3> QED
        BY <2>2, <2>3, <3>1, <3>2
    <2>5. ASSUME NEW w \in Thread, Started(w) PROVE Covered(v)' \/ \E u \in Thread : Handled(u, v)'
      <3>1. "rebuild" \notin disturbed
        BY <2>5 DEF Started
      <3>2. \A u \in Thread : At(u) => At(u)' /\ ~sync[u].rebuild
        BY <2>5 DEF Started, At
      <3>3. \A u \in Thread : Handled(u, v) => Handled(u, v)'
        BY <2>5 DEF Started, At, Handled
      <3> QED
        BY <2>2, <2>3, <3>1, <3>2, <3>3
    <2>6. ASSUME NEW w \in Thread, SyncStep(w) \/ Crash(w)
          PROVE  Covered(v)' \/ \E u \in Thread : Handled(u, v)'
      <3>1. Stepped(w)
        BY <2>6, StepsAre
      <3>2. CASE sync[w].rebuild
        <4>1. sync'[w].pc = "idle"
          BY <3>1, <3>2 DEF Stepped, At
        <4>2. /\ sync[w].pc = "next" /\ sync[w].todo = {}
              /\ disturbed' = IF sync[w].alone THEN disturbed \cap {"review"} ELSE disturbed
          BY <2>6, <3>2, <4>1, RebuildEnds
        <4>3. sync[w].alone
          BY <3>2, <4>2 DEF Flags, At
        <4>4. Replaying(w)
          BY <3>2, <4>2, <4>3 DEF Replaying
        <4>5. Covered(v)
          BY <1>5, <4>2, <4>4 DEF ReplayCovers, Handled
        <4> QED
          BY <2>2, <4>5
      <3>3. CASE ~sync[w].rebuild
        <4>1. "rebuild" \notin disturbed
          BY <3>1, <3>3 DEF Stepped
        <4>2. \A u \in Thread : At(u) => ~sync[u].rebuild
          BY <3>1, <3>3 DEF Stepped, At
        <4>3. \A u \in Thread \ {w} : Handled(u, v) => Handled(u, v)'
          BY <3>1 DEF Stepped, Handled
        <4>4. Handled(w, v) => Handled(w, v)' \/ Covered(v)'
          BY <2>6, HandledGoes
        <4> QED
          BY <2>2, <2>3, <4>1, <4>2, <4>3, <4>4
      <3> QED
        BY <3>2, <3>3
    <2> QED
      BY <2>4, <2>5, <2>6, StartsAre, EditsAre DEF GraphNext
  <1> QED
    BY <1>4, <1>5

LEMMA ReplayStep == GraphTypes /\ Flags /\ ReplayCovers /\ [GraphNext]_graphVars => ReplayCovers'
  <1> SUFFICES ASSUME GraphTypes, Flags, ReplayCovers, [GraphNext]_graphVars, NEW x \in Thread,
                      NEW e \in DOMAIN events', NEW v \in events'[e].evidence,
                      At(x)', sync'[x].rebuild, sync'[x].alone
               PROVE  /\ sync'[x].pc = "clear" => <<e, v>> \in sync'[x].todo
                      /\ Replaying(x)' => Covered(v)' \/ Handled(x, v)' \/ <<e, v>> \in sync'[x].todo
    BY DEF ReplayCovers, At, Replaying
  <1>1. ASSUME NEW w \in Thread, Started(w) PROVE x = w /\ sync'[x].pc \in {"event", "list"}
    BY <1>1 DEF Started
  <1>2. CASE \E w \in Thread : Started(w)
    BY <1>1, <1>2 DEF Replaying
  <1>3. ASSUME NEW w \in Thread, Stepped(w)
        PROVE  w = x /\ sync[x].rebuild /\ sync[x].alone
    BY <1>3 DEF Stepped, Flags, At
  <1>4. CASE Edited \/ UNCHANGED graphVars
    <2>1. UNCHANGED sync
      BY <1>4 DEF Edited, graphVars
    <2>2. NothingNew /\ Keeps
      BY <2>1, NewEvidence, KeepsStep, WorkShows
    <2>3. e \in DOMAIN events /\ v \in events[e].evidence
      BY <2>2 DEF NothingNew
    <2>4. v \in DOMAIN vers
      BY <2>3 DEF GraphTypes, EventsType, Event
    <2>5. Covered(v) => Covered(v)'
      BY <2>2, <2>4 DEF Keeps
    <2>6. /\ sync[x].rebuild /\ sync[x].alone /\ sync[x].pc = "clear" => <<e, v>> \in sync[x].todo
          /\ Replaying(x) => Covered(v) \/ Handled(x, v) \/ <<e, v>> \in sync[x].todo
      BY <2>3 DEF ReplayCovers
    <2>7. (Replaying(x)' <=> Replaying(x)) /\ (Handled(x, v)' <=> Handled(x, v))
      BY <2>1 DEF Replaying, Handled
    <2> QED
      BY <2>1, <2>5, <2>6, <2>7
  <1>5. CASE SyncStep(x) /\ sync[x].rebuild /\ sync[x].alone
    <2>0. sync[x].pc # "event" /\ sync'[x].pc # "idle"
      BY <1>5 DEF GraphTypes, ThreadsType, ThreadFits, At
    <2>1. ~UpsertEvent(x)
      BY <2>0 DEF UpsertEvent
    <2>2. UNCHANGED events
      BY <1>5, <2>1, SameEvents DEF SyncStep
    <2>3. e \in DOMAIN events /\ v \in events[e].evidence
      BY <2>2
    <2>4. v \in DOMAIN vers
      BY <2>3 DEF GraphTypes, EventsType, Event
    <2>5. /\ sync[x].pc = "clear" => <<e, v>> \in sync[x].todo
          /\ Replaying(x) => Covered(v) \/ Handled(x, v) \/ <<e, v>> \in sync[x].todo
      BY <1>5, <2>3 DEF ReplayCovers
    <2>6. CASE ListEvents(x)
      BY <2>3, <2>6, ListIs DEF Replaying
    <2>7. CASE Clear(x)
      BY <2>5, <2>0, <2>7, WorkShows, WorkIs
    <2>8. CASE NextEvidence(x)
      <3>1. /\ sync[x].pc = "next" /\ sync'[x].pc = "upsert" /\ UNCHANGED <<vers, events, rel>>
            /\ <<e, v>> \in sync[x].todo => sync'[x].v = v \/ <<e, v>> \in sync'[x].todo
        BY <2>0, <2>8, NextIs DEF NextEvidence
      <3>2. Covered(v)' <=> Covered(v)
        BY <3>1 DEF Covered, KeyOf
      <3>3. Replaying(x) /\ ~Handled(x, v)
        BY <1>5, <3>1 DEF Replaying, Handled
      <3> QED
        BY <2>5, <3>1, <3>2, <3>3 DEF Handled
    <2>9. CASE UpsertRelation(x) \/ CloseOthers(x) \/ AddEvidence(x)
      <3>1. /\ sync[x].pc \in {"upsert", "close", "evidence"} /\ ~Clear(x)
            /\ \A w \in Thread : Clear(w) => w = x
        BY <1>3, <1>5, <2>9, StepsAre DEF UpsertRelation, CloseOthers, AddEvidence, Clear, SyncStep
      <3>2. Replaying(x)
        BY <1>5, <3>1 DEF Replaying
      <3>3. Covered(v) => Covered(v)'
        BY <2>4, <3>1, KeepsStep DEF Keeps
      <3>4. Handled(x, v) => Handled(x, v)' \/ Covered(v)'
        BY <1>5, <2>0, HandledGoes
      <3>5. sync'[x].todo = sync[x].todo
        BY <2>0, <2>9, WorkIs
      <3>6. sync'[x].pc # "clear"
        BY <2>0, <2>9, WorkIs
      <3> QED
        BY <2>5, <3>2, <3>3, <3>4, <3>5, <3>6
    <2> QED
      BY <1>5, <2>1, <2>6, <2>7, <2>8, <2>9 DEF SyncStep
  <1>6. ASSUME NEW w \in Thread, Crash(w) PROVE ~Stepped(w)
    <2>1. sync'[w].pc = "idle"
      BY <1>6, IdleIs DEF Crash, GraphTypes, ThreadsType
    <2> QED
      BY <1>3, <2>1 DEF At
  <1> QED
    BY <1>2, <1>3, <1>4, <1>5, <1>6, StartsAre, StepsAre, EditsAre DEF GraphNext

-----------------------------------------------------------------------------
(* Entities without merges. *)

\* Where a step leaves its thread.
LEMMA PcAfter ==
  ASSUME GraphTypes, NEW w \in Thread
  PROVE  /\ UpsertEvent(w) => sync'[w].pc = "upsert"
         /\ UpsertRelation(w) => sync'[w].pc = "close" /\ sync'[w].v = sync[w].v
                                 /\ sync'[w].stored.src = rel'[KeyOf(sync[w].v)].src
         /\ CloseOthers(w) => sync'[w].pc = "evidence" /\ sync'[w].v = sync[w].v
         /\ AddEvidence(w) => sync'[w].pc \in {"next", "idle"}
         /\ ListEvents(w) => sync'[w].pc = "clear"
         /\ Clear(w) => sync'[w].pc = "next"
         /\ NextEvidence(w) => sync'[w].pc \in {"upsert", "idle"}
         /\ Crash(w) => sync'[w].pc = "idle"
  <1>0. sync \in [Thread -> ThreadRow]
    BY DEF GraphTypes, ThreadsType
  <1>1. Moves(w, Idle) => sync'[w].pc = "idle"
    BY <1>0, IdleIs, RowIs DEF Moves
  <1>2. UpsertEvent(w) => sync'[w].pc = "upsert"
    BY WorkShows
  <1>3. ASSUME UpsertRelation(w)
        PROVE  sync'[w].pc = "close" /\ sync'[w].v = sync[w].v /\ sync'[w].stored.src = rel'[KeyOf(sync[w].v)].src
    <2>1. PICK r \in ThreadRow :
            Moves(w, r) /\ r.pc = "close" /\ r.v = sync[w].v /\ r.stored.src = rel'[KeyOf(sync[w].v)].src
      BY <1>3, UpsertMoves
    <2>2. sync'[w] = r
      BY <1>0, <2>1, RowIs DEF Moves
    <2> QED
      BY <2>1, <2>2
  <1>4. CloseOthers(w) => sync'[w].pc = "evidence" /\ sync'[w].v = sync[w].v
    BY GotoIs DEF CloseOthers
  <1>5. ASSUME AddEvidence(w) PROVE sync'[w].pc \in {"next", "idle"}
    <2>1. Goto(w, "next") \/ Moves(w, Idle)
      BY <1>5 DEF AddEvidence, Moves
    <2> QED
      BY <1>1, <2>1, GotoIs
  <1>6. ListEvents(w) => sync'[w].pc = "clear"
    BY ListIs
  <1>7. Clear(w) => sync'[w].pc = "next"
    BY WorkShows
  <1>8. NextEvidence(w) => sync'[w].pc \in {"upsert", "idle"}
    BY NextIs
  <1>9. Crash(w) => sync'[w].pc = "idle"
    BY <1>1 DEF Crash, Moves
  <1> QED
    BY <1>2, <1>3, <1>4, <1>5, <1>6, <1>7, <1>8, <1>9

\* The audits stay, but for merges; and a merge can only be undone when there is one.
LEMMA NoMerge ==
  ASSUME GraphTypes, [GraphNext]_graphVars, audits' = <<>>
  PROVE  /\ audits = <<>>
         /\ \A s, t \in Product : ~MergeEntities(s, t)
         /\ \A i \in DOMAIN audits : ~RestoreMerge(i)
  <1>1. ASSUME NEW s \in Product, NEW t \in Product, MergeEntities(s, t) PROVE FALSE
    <2>1. audits' = Append(audits, [source |-> s, target |-> t, before |-> merged])
      BY <1>1 DEF MergeEntities
    <2>2. [source |-> s, target |-> t, before |-> merged] \in Audit
      BY DEF Audit, GraphTypes, EntitiesType
    <2> QED
      BY <2>1, <2>2 DEF GraphTypes, EntitiesType
  <1>2. ASSUME NEW i \in DOMAIN audits, RestoreMerge(i) PROVE FALSE
    BY <1>2 DEF RestoreMerge
  <1>3. audits = <<>>
    <2>1. UNCHANGED graphVars \/ Edited => UNCHANGED audits \/ \E s, t \in Product : MergeEntities(s, t)
      BY GraphKinds DEF graphVars, Index, IndexAgain, Rebuild, UpsertEvent, UpsertRelation, CloseOthers, AddEvidence,
                        ListEvents, Clear, NextEvidence, Crash, ReviewRelation, RestoreMerge
    <2>2. ASSUME NEW w \in Thread, Started(w) \/ Stepped(w) PROVE UNCHANGED audits
      BY <2>2 DEF Started, Stepped
    <2> QED
      BY <1>1, <2>1, <2>2, StepShapes
  <1> QED
    BY <1>1, <1>2, <1>3

SourcesAreProducts == \A k \in DOMAIN rel : rel[k].src = k.product

LEMMA SourcesStep ==
  ASSUME GraphTypes, [GraphNext]_graphVars, audits' = <<>>, SourcesAreProducts
  PROVE  SourcesAreProducts'
  <1>1. UNCHANGED rel => SourcesAreProducts'
    BY DEF SourcesAreProducts
  <1>2. CASE UNCHANGED graphVars
    BY <1>1, <1>2 DEF graphVars
  <1>3. ASSUME NEW w \in Thread, UpsertRelation(w) PROVE SourcesAreProducts'
    <2> DEFINE k == KeyOf(sync[w].v)
    <2>1. k.product = vers[sync[w].v].product
      BY DEF KeyOf
    <2>2. DOMAIN rel' = DOMAIN rel \cup {k} /\ \A x \in DOMAIN rel : rel'[x].src = rel[x].src
      BY <1>3, UpsertIs
    <2>3. k \notin DOMAIN rel => rel'[k].src = vers[sync[w].v].product
      BY <1>3, UpsertIs
    <2> HIDE DEF k
    <2> QED
      BY <2>1, <2>2, <2>3 DEF SourcesAreProducts
  <1>4. ASSUME NEW w \in Thread, CloseOthers(w) PROVE SourcesAreProducts'
    BY <1>4, CloseIs DEF SourcesAreProducts
  <1>5. ASSUME NEW w \in Thread, AddEvidence(w), KeyOf(sync[w].v) \in DOMAIN rel PROVE SourcesAreProducts'
    BY <1>5, AddIs DEF SourcesAreProducts
  <1>6. ASSUME NEW w \in Thread, Clear(w) PROVE SourcesAreProducts'
    BY <1>6, ClearIs DEF SourcesAreProducts
  <1>7. ASSUME NEW k \in DOMAIN rel, NEW action \in {"approve", "reject", "override", "restore"},
               ReviewRelation(k, action)
        PROVE  SourcesAreProducts'
    BY <1>7, ReviewIs DEF SourcesAreProducts
  <1> QED
    BY <1>1, <1>2, <1>3, <1>4, <1>5, <1>6, <1>7, SameRel, GraphKinds, NoMerge

LEMMA EntityStep == GraphTypes /\ EntityIsProduct /\ [GraphNext]_graphVars => EntityIsProduct'
  <1> SUFFICES ASSUME GraphTypes, EntityIsProduct, [GraphNext]_graphVars, audits' = <<>>
               PROVE  /\ SourcesAreProducts'
                      /\ \A w \in Thread : sync'[w].pc = "close" => sync'[w].stored.src = vers'[sync'[w].v].product
    BY DEF EntityIsProduct, SourcesAreProducts
  <1>1. audits = <<>> /\ \A s, t \in Product : ~MergeEntities(s, t)
    BY NoMerge
  <1>2. /\ SourcesAreProducts
        /\ \A w \in Thread : sync[w].pc = "close" => sync[w].stored.src = vers[sync[w].v].product
    BY <1>1 DEF EntityIsProduct, SourcesAreProducts
  <1>3. SourcesAreProducts'
    BY <1>2, SourcesStep
  <1>4. SUFFICES ASSUME NEW u \in Thread, sync'[u].pc = "close"
                 PROVE  sync'[u].stored.src = vers'[sync'[u].v].product
    BY <1>3
  <1>5. sync[u].pc = "close" => sync[u].v \in DOMAIN vers
    BY DEF GraphTypes, ThreadsType, ThreadFits
  <1>6. CASE Edited \/ UNCHANGED graphVars
    BY <1>2, <1>4, <1>6 DEF Edited, graphVars
  <1>7. ASSUME NEW w \in Thread, Started(w) PROVE sync'[u].stored.src = vers'[sync'[u].v].product
    BY <1>2, <1>4, <1>5, <1>7 DEF Started
  <1>8. ASSUME NEW w \in Thread, SyncStep(w) \/ Crash(w) PROVE sync'[u].stored.src = vers'[sync'[u].v].product
    <2>1. UNCHANGED vers /\ (u # w => sync'[u] = sync[u])
      BY <1>8, StepsAre DEF Stepped
    <2>2. CASE u # w
      BY <1>2, <1>4, <2>1, <2>2
    <2>3. CASE u = w
      <3>1. UpsertRelation(w)
        BY <1>4, <1>8, <2>3, PcAfter DEF SyncStep
      <3>2. sync'[w].v = sync[w].v /\ sync'[w].stored.src = rel'[KeyOf(sync[w].v)].src
        BY <3>1, PcAfter
      <3>3. KeyOf(sync[w].v) \in DOMAIN rel'
        BY <3>1, UpsertIs
      <3>4. KeyOf(sync[w].v).product = vers[sync[w].v].product
        BY DEF KeyOf
      <3> QED
        BY <1>3, <2>1, <2>3, <3>2, <3>3, <3>4 DEF SourcesAreProducts
    <2> QED
      BY <2>2, <2>3
  <1> QED
    BY <1>6, <1>7, <1>8, StartsAre, EditsAre DEF GraphNext

-----------------------------------------------------------------------------
(* One open price. *)

\* A version keeps its document, and only a relation that was open with the same
\* evidence or more is open.
OpenIsOld ==
  /\ \A v \in DOMAIN vers : v \in DOMAIN vers' /\ vers'[v] = vers[v]
  /\ \A k \in DOMAIN rel' : rel'[k].to = 0 /\ ~rel'[k].manual /\ rel'[k].evidence # {} =>
       /\ k \in DOMAIN rel /\ rel[k].src = rel'[k].src /\ rel[k].to = 0 /\ ~rel[k].manual
       /\ rel'[k].evidence \subseteq rel[k].evidence

LEMMA OpenShrinks ==
  ASSUME GraphTypes, OpenIsOld, NEW d \in Doc, NEW p \in Product
  PROVE  Open(d, p)' \subseteq Open(d, p)
  <1> SUFFICES ASSUME NEW k \in Open(d, p)' PROVE k \in Open(d, p)
    OBVIOUS
  <1>1. k \in DOMAIN rel' /\ rel'[k].src = p /\ rel'[k].to = 0 /\ ~rel'[k].manual
    BY DEF Open
  <1>2. PICK v \in rel'[k].evidence : vers'[v].doc = d
    BY DEF Open
  <1>3. k \in DOMAIN rel /\ rel[k].src = p /\ rel[k].to = 0 /\ ~rel[k].manual /\ v \in rel[k].evidence
    BY <1>1, <1>2 DEF OpenIsOld
  <1>4. v \in DOMAIN vers
    BY <1>3, RelationIs DEF GraphTypes, Relation
  <1>5. vers[v].doc = d
    BY <1>2, <1>4 DEF OpenIsOld
  <1> QED
    BY <1>3, <1>5 DEF Open

\* Every step but that of adding evidence, while nothing is merged or given back.
LEMMA OpenIsOldStep ==
  ASSUME GraphTypes, [GraphNext]_graphVars, audits' = <<>>, "review" \notin disturbed'
  PROVE  OpenIsOld \/ \E w \in Thread : AddEvidence(w) /\ KeyOf(sync[w].v) \in DOMAIN rel
  <1>1. ASSUME UNCHANGED rel, \A v \in DOMAIN vers : v \in DOMAIN vers' /\ vers'[v] = vers[v] PROVE OpenIsOld
    BY <1>1 DEF OpenIsOld
  <1>2. UNCHANGED <<vers, rel>> => OpenIsOld
    BY DEF OpenIsOld
  <1>3. CASE UNCHANGED graphVars
    BY <1>2, <1>3 DEF graphVars
  <1>4. ASSUME NEW w \in Thread, Started(w) PROVE OpenIsOld
    BY <1>1, <1>4 DEF Started
  <1>5. ASSUME NEW w \in Thread, UpsertEvent(w) \/ ListEvents(w) \/ NextEvidence(w) \/ Crash(w)
        PROVE  OpenIsOld
    BY <1>2, <1>5 DEF UpsertEvent, ListEvents, NextEvidence, Crash
  <1>6. ASSUME NEW w \in Thread, UpsertRelation(w) PROVE OpenIsOld
    <2>1. UNCHANGED vers
      BY <1>6 DEF UpsertRelation
    <2> QED
      BY <1>6, <2>1, UpsertIs DEF OpenIsOld
  <1>7. ASSUME NEW w \in Thread, CloseOthers(w) PROVE OpenIsOld
    <2>1. UNCHANGED vers
      BY <1>7 DEF CloseOthers
    <2> QED
      BY <1>7, <2>1, CloseIs DEF OpenIsOld
  <1>8. ASSUME NEW w \in Thread, AddEvidence(w), KeyOf(sync[w].v) \notin DOMAIN rel PROVE OpenIsOld
    <2>1. UNCHANGED <<vers, rel>>
      BY <1>8 DEF AddEvidence
    <2> QED
      BY <1>2, <2>1
  <1>9. ASSUME NEW w \in Thread, Clear(w) PROVE OpenIsOld
    <2>1. UNCHANGED vers
      BY <1>9 DEF Clear
    <2> QED
      BY <1>9, <2>1, ClearIs DEF OpenIsOld
  <1>10. ASSUME NEW k \in DOMAIN rel, NEW action \in {"approve", "reject", "override", "restore"},
                ReviewRelation(k, action)
         PROVE  OpenIsOld
    <2>1. UNCHANGED vers /\ action # "restore"
      BY <1>10 DEF ReviewRelation
    <2> QED
      BY <1>10, <2>1, ReviewIs DEF OpenIsOld
  <1> QED
    BY <1>3, <1>4, <1>5, <1>6, <1>7, <1>8, <1>9, <1>10, StartsAre, GraphKinds, NoMerge

\* The relations were in order before the step, unless it deletes them.
LEMMA OrderBefore ==
  ASSUME GraphTypes, Flags, [GraphNext]_graphVars, InOrder', \A w \in Thread : ~Clear(w)
  PROVE  InOrder
  <1>1. /\ audits = <<>>
        /\ \A s, t \in Product : ~MergeEntities(s, t)
        /\ \A i \in DOMAIN audits : ~RestoreMerge(i)
    BY NoMerge DEF InOrder
  <1>2. ASSUME NEW x \in Thread, Replaying(x)' PROVE Replaying(x) \/ \E w \in Thread : Started(w) /\ w = x
    <2>1. CASE Edited \/ UNCHANGED graphVars
      BY <1>2, <2>1 DEF Edited, graphVars, Replaying
    <2>2. ASSUME NEW w \in Thread, Started(w) PROVE w = x
      BY <1>2, <2>2 DEF Started, Replaying
    <2>3. ASSUME NEW w \in Thread, SyncStep(w) \/ Crash(w) PROVE Replaying(x)
      <3>1. Stepped(w)
        BY <2>3, StepsAre
      <3>2. CASE x # w
        BY <1>2, <3>1, <3>2 DEF Stepped, Replaying
      <3>3. CASE x = w
        <4>1. sync'[x].pc \in {"next", "upsert", "close", "evidence"} /\ sync[x].rebuild /\ sync[x].alone
          BY <1>2, <3>1, <3>3 DEF Stepped, Replaying
        <4>2. ~UpsertEvent(w)
          BY <3>3, <4>1 DEF UpsertEvent, GraphTypes, ThreadsType, ThreadFits
        <4>3. ~ListEvents(w) /\ ~Crash(w)
          BY <3>3, <4>1, PcAfter
        <4>4. UpsertRelation(w) \/ CloseOthers(w) \/ AddEvidence(w) \/ NextEvidence(w)
          BY <2>3, <4>2, <4>3 DEF SyncStep
        <4>5. sync[w].pc \in {"next", "upsert", "close", "evidence"}
          BY <4>4 DEF UpsertRelation, CloseOthers, AddEvidence, NextEvidence
        <4> QED
          BY <3>3, <4>1, <4>5 DEF Replaying
      <3> QED
        BY <3>2, <3>3
    <2> QED
      BY <2>1, <2>2, <2>3, StartsAre, EditsAre DEF GraphNext
  <1>3. ASSUME NEW w \in Thread, Started(w) PROVE ~Replaying(w)' /\ disturbed \subseteq disturbed'
    BY <1>3 DEF Started, Replaying
  <1>4. \A x \in Thread : Replaying(x)' => Replaying(x)
    BY <1>2, <1>3
  <1>5. CASE Edited \/ UNCHANGED graphVars
    BY <1>1, <1>4, <1>5 DEF Edited, graphVars, InOrder
  <1>6. ASSUME NEW w \in Thread, Started(w) PROVE InOrder
    BY <1>1, <1>3, <1>4, <1>6 DEF InOrder
  <1>7. ASSUME NEW w \in Thread, SyncStep(w) \/ Crash(w) PROVE InOrder
    <2>1. "review" \notin disturbed
      <3>1. disturbed \subseteq disturbed' \/ (disturbed \cap {"review"}) \subseteq disturbed'
        BY <1>7 DEF SyncStep, UpsertEvent, UpsertRelation, CloseOthers, AddEvidence, ListEvents, NextEvidence, Crash
      <3> QED
        BY <3>1 DEF InOrder
    <2>2. Stepped(w)
      BY <1>7, StepsAre
    <2>3. CASE disturbed \cap {"documents", "rebuild"} \subseteq disturbed'
      BY <1>1, <1>4, <2>1, <2>3 DEF InOrder
    <2>4. CASE sync'[w].pc = "idle" /\ sync[w].alone /\ sync[w].rebuild
      <3>1. CASE \E x \in Thread : Replaying(x)'
        BY <1>1, <1>4, <2>1, <3>1 DEF InOrder
      <3>2. CASE disturbed' \cap {"documents", "rebuild"} = {}
        <4>1. sync[w].pc = "next"
          BY <1>7, <2>4, <3>2, RebuildEnds
        <4>2. Replaying(w)
          BY <2>4, <4>1 DEF Replaying
        <4> QED
          BY <1>1, <2>1, <4>2 DEF InOrder
      <3> QED
        BY <3>1, <3>2 DEF InOrder
    <2> QED
      BY <2>2, <2>3, <2>4 DEF Stepped
  <1> QED
    BY <1>5, <1>6, <1>7, StartsAre, EditsAre DEF GraphNext

\* Adding evidence opens no second relation: the thread's own is the only one.
LEMMA AddOpens ==
  ASSUME GraphTypes, EntityIsProduct, audits = <<>>, NEW w \in Thread, AddEvidence(w),
         KeyOf(sync[w].v) \in DOMAIN rel, NEW d \in Doc, NEW p \in Product
  PROVE  \/ Open(d, p)' \subseteq Open(d, p)
         \/ /\ d = vers[sync[w].v].doc /\ p = vers[sync[w].v].product
            /\ Open(d, p)' \subseteq Open(d, p) \cup {KeyOf(sync[w].v)}
  <1> DEFINE v == sync[w].v
             k == KeyOf(sync[w].v)
  <1>1. /\ DOMAIN rel' = DOMAIN rel
        /\ \A x \in DOMAIN rel :
             /\ rel'[x].src = rel[x].src /\ rel'[x].manual = rel[x].manual /\ rel'[x].to = rel[x].to
             /\ rel'[x].evidence = IF x = k THEN rel[x].evidence \cup {v} ELSE rel[x].evidence
    BY AddIs
  <1>2. UNCHANGED vers
    BY DEF AddEvidence
  <1>3. rel[k].src = vers[v].product
    BY DEF EntityIsProduct, KeyOf
  <1>4. ASSUME NEW x \in Open(d, p)', x \notin Open(d, p)
        PROVE  x = k /\ d = vers[v].doc /\ p = vers[v].product
    <2>1. x \in DOMAIN rel /\ rel[x].src = p /\ rel[x].to = 0 /\ ~rel[x].manual
      BY <1>1, <1>4 DEF Open
    <2>2. PICK u \in rel'[x].evidence : vers[u].doc = d
      BY <1>2, <1>4 DEF Open
    <2>3. u \notin rel[x].evidence
      BY <1>4, <2>1, <2>2 DEF Open
    <2>4. x = k /\ u = v
      BY <1>1, <2>1, <2>2, <2>3
    <2> QED
      BY <1>3, <2>1, <2>2, <2>4
  <1> QED
    BY <1>4

LEMMA OpenStep ==
  GraphTypes /\ Flags /\ EntityIsProduct /\ OpenIsOne /\ [GraphNext]_graphVars => OpenIsOne'
  <1> SUFFICES ASSUME GraphTypes, Flags, EntityIsProduct, OpenIsOne, [GraphNext]_graphVars, InOrder'
               PROVE  /\ \A d \in Doc, p \in Product : \A j, k \in Open(d, p)' : j = k
                      /\ \A u \in Thread : sync'[u].pc = "evidence" => OnlyOpen(sync[u].v)'
    BY DEF OpenIsOne
  <1>1. ASSUME NEW w \in Thread, Clear(w)
        PROVE  /\ \A d \in Doc, p \in Product : \A j, k \in Open(d, p)' : j = k
               /\ \A u \in Thread : sync'[u].pc = "evidence" => OnlyOpen(sync[u].v)'
    <2>1. \A k \in DOMAIN rel' : rel'[k].manual
      BY <1>1, ClearIs DEF Remaining
    <2> QED
      BY <2>1 DEF Open, OnlyOpen
  <1>2. CASE \A w \in Thread : ~Clear(w)
    <2>1. InOrder /\ audits = <<>> /\ audits' = <<>> /\ "review" \notin disturbed'
      BY <1>2, OrderBefore DEF InOrder
    <2>2. /\ \A d \in Doc, p \in Product : \A j, k \in Open(d, p) : j = k
          /\ \A u \in Thread : sync[u].pc = "evidence" => OnlyOpen(sync[u].v)
      BY <2>1 DEF OpenIsOne
    <2>3. ASSUME NEW u \in Thread, sync[u].pc \in {"close", "evidence"}
          PROVE  sync[u].v \in DOMAIN vers /\ vers[sync[u].v].doc \in Doc /\ vers[sync[u].v].product \in Product
      BY <2>3, AtWork DEF Version
    <2>4. CASE OpenIsOld
      <3>1. \A d \in Doc, p \in Product : Open(d, p)' \subseteq Open(d, p)
        BY <2>4, OpenShrinks
      <3>2. \A v \in DOMAIN vers : KeyOf(v)' = KeyOf(v) /\ vers'[v] = vers[v]
        BY <2>4 DEF OpenIsOld, KeyOf
      <3>3. ASSUME NEW u \in Thread, sync'[u].pc = "evidence", sync[u].pc = "evidence", sync'[u].v = sync[u].v
            PROVE  OnlyOpen(sync[u].v)'
        <4> DEFINE v == sync[u].v
        <4>1. /\ v \in DOMAIN vers /\ vers[v].doc \in Doc /\ vers[v].product \in Product
              /\ Open(vers[v].doc, vers[v].product) \subseteq {KeyOf(v)}
          BY <2>2, <2>3, <3>3 DEF OnlyOpen
        <4>2. Open(vers[v].doc, vers[v].product)' \subseteq {KeyOf(v)'}
          BY <3>1, <3>2, <3>3, <4>1
        <4> QED
          BY <4>2 DEF OnlyOpen
      <3>4. CASE Edited \/ UNCHANGED graphVars
        BY <2>2, <3>1, <3>3, <3>4 DEF Edited, graphVars
      <3>5. ASSUME NEW w \in Thread, Started(w)
            PROVE  \A u \in Thread : sync'[u].pc = "evidence" => OnlyOpen(sync[u].v)'
        BY <3>3, <3>5 DEF Started
      <3>6. ASSUME NEW w \in Thread, SyncStep(w) \/ Crash(w)
            PROVE  \A u \in Thread : sync'[u].pc = "evidence" => OnlyOpen(sync[u].v)'
        <4>1. \A u \in Thread \ {w} : sync'[u] = sync[u]
          BY <3>6, StepsAre DEF Stepped
        <4>2. ASSUME sync'[w].pc = "evidence" PROVE OnlyOpen(sync[w].v)'
          <5> DEFINE v == sync[w].v
          <5>1. CloseOthers(w)
            BY <3>6, <4>2, PcAfter DEF SyncStep
          <5>2. sync[w].pc = "close" /\ sync'[w].v = v
            BY <5>1, PcAfter DEF CloseOthers
          <5>3. v \in DOMAIN vers /\ vers[v].doc \in Doc /\ vers[v].product \in Product
            BY <2>3, <5>2
          <5>4. sync[w].stored.src = vers[v].product
            BY <2>1, <5>2 DEF EntityIsProduct
          <5>5. \A k \in Open(vers[v].doc, vers[v].product) :
                  k \in Open(vers[v].doc, vers[v].product)' => k = KeyOf(v)
            BY <5>1, <5>2, <5>3, <5>4, <3>2, CloseIs DEF Open
          <5>6. Open(vers[v].doc, vers[v].product)' \subseteq {KeyOf(v)'}
            BY <3>1, <3>2, <5>2, <5>3, <5>5
          <5> QED
            BY <5>6 DEF OnlyOpen
        <4> QED
          BY <3>3, <4>1, <4>2
      <3>7. \A u \in Thread : sync'[u].pc = "evidence" => OnlyOpen(sync[u].v)'
        BY <3>4, <3>5, <3>6, StartsAre, EditsAre DEF GraphNext
      <3> QED
        BY <2>2, <3>1, <3>7
    <2>5. ASSUME NEW w \in Thread, AddEvidence(w), KeyOf(sync[w].v) \in DOMAIN rel
          PROVE  /\ \A d \in Doc, p \in Product : \A j, k \in Open(d, p)' : j = k
                 /\ \A u \in Thread : sync'[u].pc = "evidence" => OnlyOpen(sync[u].v)'
      <3>1. Stepped(w) /\ sync[w].pc = "evidence" /\ sync'[w].pc # "evidence"
        BY <2>5, StepsAre, PcAfter DEF SyncStep, AddEvidence
      <3>2. Open(vers[sync[w].v].doc, vers[sync[w].v].product) \subseteq {KeyOf(sync[w].v)}
        BY <2>2, <3>1 DEF OnlyOpen
      <3>3. ASSUME NEW d \in Doc, NEW p \in Product, NEW j \in Open(d, p)', NEW k \in Open(d, p)' PROVE j = k
        BY <2>1, <2>2, <2>5, <3>2, <3>3, AddOpens
      <3>4. ASSUME NEW u \in Thread, At(u) PROVE u = w
        BY <2>1, <3>1, <3>4 DEF InOrder, Flags, Replaying, At
      <3>5. \A u \in Thread : sync'[u].pc # "evidence"
        BY <3>1, <3>4 DEF Stepped, At
      <3> QED
        BY <3>3, <3>5
    <2> QED
      BY <2>1, <2>4, <2>5, OpenIsOldStep
  <1> QED
    BY <1>1, <1>2

-----------------------------------------------------------------------------
(* The theorems. *)

LEMMA GraphInitInv == GraphInit => GraphIInv
  <1> SUFFICES ASSUME GraphInit PROVE GraphIInv
    OBVIOUS
  <1>1. GraphTypes
    BY InitTypes
  <1>2. /\ \A w \in Thread : sync[w] = Idle
        /\ DOMAIN rel = {} /\ DOMAIN events = {} /\ disturbed = {}
    BY DEF GraphInit
  <1>3. \A w \in Thread : ~At(w) /\ ~Replaying(w) /\ sync[w].pc = "idle"
    BY <1>2, IdleIs DEF At, Replaying
  <1>4. Flags /\ EvidenceArrives /\ ReplayCovers
    BY <1>2, <1>3 DEF Flags, EvidenceArrives, ReplayCovers
  <1>5. EntityIsProduct /\ OpenIsOne
    BY <1>2, <1>3 DEF EntityIsProduct, OpenIsOne, Open
  <1> QED
    BY <1>1, <1>4, <1>5 DEF GraphIInv

LEMMA GraphStepInv == GraphIInv /\ [GraphNext]_graphVars => GraphIInv'
  BY GraphTypesStep, FlagsStep, EvidenceStep, ReplayStep, EntityStep, OpenStep DEF GraphIInv

\* GraphIInv holds in every state of the graph.
THEOREM GraphInvariance == GraphSpec => []GraphIInv
  BY GraphInitInv, GraphStepInv, PTL DEF GraphSpec

LEMMA GraphTypesOK == GraphTypes => GraphTypeOK
  <1> SUFFICES ASSUME GraphTypes PROVE GraphTypeOK
    OBVIOUS
  <1>1. /\ vers \in Seq([doc : Doc, product : Product, price : Price, month : Month])
        /\ DOMAIN vers \subseteq VersionNo
    BY VersionIs DEF GraphTypes, VersionsType, Version
  <1>2. DOMAIN events \subseteq VersionNo /\ \A e \in DOMAIN events : events[e] \in Event
    BY <1>1 DEF GraphTypes, EventsType
  <1>3. DOMAIN rel \subseteq Key /\ \A k \in DOMAIN rel : rel[k] \in Relation
    BY DEF GraphTypes, RelType
  <1>4. /\ merged \in [Product -> Product \cup {NoProduct}]
        /\ alias \in [Product -> Product \cup {NoProduct}]
        /\ audits \in Seq([source : Product, target : Product,
                           before : [Product -> Product \cup {NoProduct}]])
    BY DEF GraphTypes, EntitiesType, Audit
  <1>5. ASSUME NEW w \in Thread
        PROVE  /\ sync[w].pc \in {"idle", "event", "list", "clear", "next", "upsert", "close", "evidence"}
               /\ sync[w].stored \in [src : Product \cup {NoProduct}, from : 0 .. MaxVersions]
               /\ sync[w].v \in 0 .. Len(vers) /\ sync[w].todo \subseteq (DOMAIN events) \X (DOMAIN vers)
               /\ sync[w].rebuild \in BOOLEAN /\ sync[w].alone \in BOOLEAN
    <2>1. sync[w] \in ThreadRow /\ ThreadFits(w) /\ Len(vers) \in Nat
      BY DEF GraphTypes, ThreadsType, VersionsType
    <2>2. sync[w].v \in 0 .. Len(vers)
      BY <2>1, CountAssumption DEF ThreadRow, ThreadFits, CountAssumption
    <2> QED
      BY <2>1, <2>2 DEF ThreadRow, ThreadFits
  <1>6. /\ reviews \in 0 .. MaxReviews /\ rebuilds \in 0 .. MaxRebuilds /\ crashes \in 0 .. MaxCrashes
        /\ disturbed \subseteq {"documents", "rebuild", "review"}
    BY DEF GraphTypes, CountersType
  <1> QED
    BY <1>1, <1>2, <1>3, <1>4, <1>5, <1>6 DEF GraphTypeOK, Event, Relation

\* Reviewed relations keep their statement and eligibility through every
\* re-index and rebuild (upsert_relation, clear_relations), and a merge leaves
\* nothing to the product merged away (merge_entities).
THEOREM DecisionTheorem == GraphSpec => DecisionsHold
  <1>1. GraphIInv => GraphTypes
    BY DEF GraphIInv
  <1>2. GraphTypes /\ [GraphNext]_graphVars =>
       [/\ \A k \in DOMAIN rel : rel[k].manual /\ reviews' = reviews =>
             /\ k \in DOMAIN rel'
             /\ rel'[k].manual
             /\ rel'[k].statement = rel[k].statement /\ rel'[k].eligible = rel[k].eligible
        /\ \A s \in Product : merged'[s] # merged[s] /\ Len(audits') > Len(audits) =>
             /\ \A e \in DOMAIN events' : events'[e].entity # s
             /\ \A k \in DOMAIN rel' : rel'[k].src # s]_graphVars
    BY DecisionStep, MergeStep DEF DecisionStays, MergedAwayIsEmpty
  <1> QED
    BY <1>1, <1>2, GraphInvariance, PTL DEF GraphSpec, DecisionsHold

\* When no thread is at work and no rebuild went wrong since the last one that
\* was alone, every evidence list_events would return is in the relation
\* add_relation_evidence gave it to.
THEOREM CompleteTheorem == GraphSpec => []GraphIsComplete
  <1>1. ASSUME GraphIInv PROVE GraphIsComplete
    <2>1. GraphTypeOK
      BY <1>1, GraphTypesOK DEF GraphIInv
    <2>2. ASSUME Active = {}, "rebuild" \notin disturbed, NEW e \in DOMAIN events, NEW v \in events[e].evidence
          PROVE  KeyOf(v) \in DOMAIN rel /\ v \in rel[KeyOf(v)].evidence
      <3>1. \A w \in Thread : ~At(w)
        BY <2>2 DEF Active, At
      <3> QED
        BY <1>1, <2>2, <3>1 DEF GraphIInv, EvidenceArrives, Covered, Handled, At
    <2> QED
      BY <2>1, <2>2 DEF GraphIsComplete
  <1> QED
    BY <1>1, GraphInvariance, PTL

\* A document has one derived price open for a product that was never merged,
\* after versions indexed one by one or a rebuild alone (close_competing_relations
\* and rebuild_graph).
THEOREM OneOpenTheorem == GraphSpec => []OneOpenPrice
  <1>1. ASSUME GraphIInv PROVE OneOpenPrice
    <2> SUFFICES ASSUME Active = {}, disturbed = {}, audits = <<>>, NEW d \in Doc, NEW p \in Product
                 PROVE  Cardinality({k \in CurrentGraph :
                                       /\ rel[k].src = p /\ ~rel[k].manual
                                       /\ \E v \in rel[k].evidence : vers[v].doc = d}) <= 1
      BY DEF OneOpenPrice
    <2> DEFINE S == {k \in CurrentGraph : /\ rel[k].src = p /\ ~rel[k].manual
                                          /\ \E v \in rel[k].evidence : vers[v].doc = d}
    <2>1. InOrder
      BY DEF InOrder
    <2>2. \A j, k \in Open(d, p) : j = k
      BY <1>1, <2>1 DEF GraphIInv, OpenIsOne
    <2>3. S \subseteq Open(d, p)
      BY DEF CurrentGraph, Open
    <2>4. S = {} \/ \E k : S = {k}
      BY <2>2, <2>3
    <2>5. Cardinality(S) = 0 \/ Cardinality(S) = 1
      BY <2>4, FS_EmptySet, FS_Singleton
    <2> QED
      BY <2>5
  <1> QED
    BY <1>1, GraphInvariance, PTL
=============================================================================
