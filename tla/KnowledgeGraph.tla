--------------------------- MODULE KnowledgeGraph ---------------------------
(***************************************************************************)
(* The relationship graph of a knowledge space (knowledge_service.py,      *)
(* knowledge_repo.py, knowledge_graph.py): every indexed version of an     *)
(* approved document adds an event with evidence and then, in transactions *)
(* of their own, a price relation; a newer price of the same document      *)
(* closes the older one.  A rebuild deletes the derived relations and      *)
(* replays the evidence of all events.  Reviewers overrule relations,      *)
(* editors merge duplicate products and undo merges.  Two versions of one  *)
(* month and price share a relation: the month is part of its cluster key. *)
(***************************************************************************)
EXTENDS Integers, Sequences, FiniteSets, SequencesExt

CONSTANTS
  Doc,          \* approved documents
  Product,      \* products, which are also the entities they are stored under
  NoProduct,    \* merged_into of an entity that is not merged
  Price, Month, \* Month: numbers
  Thread,       \* threads that index versions and rebuild the graph
  MaxVersions, MaxReviews, MaxMerges, MaxRebuilds, MaxCrashes  \* bounds

ASSUME ProductAssumption == NoProduct \notin Product
ASSUME MonthAssumption == Month \subseteq Nat
ASSUME CountAssumption ==
  MaxVersions \in Nat /\ MaxReviews \in Nat /\ MaxMerges \in Nat /\ MaxRebuilds \in Nat /\ MaxCrashes \in Nat

VARIABLES
  vers,      \* indexed versions, in the order of their dates
  events,    \* knowledge_events with evidence; an event is its first version
  rel,       \* knowledge_relations by cluster key
  merged,    \* merged_into
  alias,     \* knowledge_entity_aliases: the entity of a product's name
  audits,    \* knowledge_entity_merge_audits
  sync,      \* sync[w]: what thread w is doing
  reviews, rebuilds, crashes,
  disturbed  \* history: "documents" were indexed side by side, a "rebuild" was not alone
             \* or a thread ended early, until the next rebuild that is alone; a "review"
             \* gave a relation back, until the derived relations are deleted

graphVars == <<vers, events, rel, merged, alias, audits, sync, reviews, rebuilds, crashes, disturbed>>
counters == <<reviews, rebuilds, crashes>>

Key == [product : Product, price : Price, month : Month]
NotStored == [src |-> NoProduct, from |-> 0]
Idle == [pc |-> "idle", v |-> 0, stored |-> NotStored, todo |-> {}, rebuild |-> FALSE, alone |-> TRUE]
Status == {"observed", "corroborated", "rejected"}
VersionNo == 1 .. MaxVersions

GraphTypeOK ==
  /\ vers \in Seq([doc : Doc, product : Product, price : Price, month : Month])
  /\ DOMAIN events \subseteq VersionNo
  /\ \A e \in DOMAIN events : events[e] \in [entity : Product, evidence : SUBSET DOMAIN vers]
  /\ DOMAIN rel \subseteq Key
  /\ \A k \in DOMAIN rel :
       rel[k] \in [src : Product, from : VersionNo, to : 0 .. MaxVersions, status : Status,
                   eligible : BOOLEAN, statement : {"derived", "corrected"}, manual : BOOLEAN,
                   evidence : SUBSET DOMAIN vers]
  /\ merged \in [Product -> Product \cup {NoProduct}]
  /\ alias \in [Product -> Product \cup {NoProduct}]
  /\ audits \in Seq([source : Product, target : Product,
                     before : [Product -> Product \cup {NoProduct}]])
  /\ \A w \in Thread :
       /\ sync[w].pc \in {"idle", "event", "list", "clear", "next", "upsert", "close", "evidence"}
       /\ sync[w].stored \in [src : Product \cup {NoProduct}, from : 0 .. MaxVersions]
       /\ sync[w].v \in 0 .. Len(vers) /\ sync[w].todo \subseteq (DOMAIN events) \X (DOMAIN vers)
       /\ sync[w].rebuild \in BOOLEAN /\ sync[w].alone \in BOOLEAN
  /\ reviews \in 0 .. MaxReviews /\ rebuilds \in 0 .. MaxRebuilds /\ crashes \in 0 .. MaxCrashes
  /\ disturbed \subseteq {"documents", "rebuild", "review"}

GraphInit ==
  /\ vers = <<>> /\ events = <<>> /\ rel = <<>> /\ audits = <<>>
  /\ merged = [p \in Product |-> NoProduct]
  /\ alias = [p \in Product |-> NoProduct]
  /\ sync = [w \in Thread |-> Idle]
  /\ reviews = 0 /\ rebuilds = 0 /\ crashes = 0 /\ disturbed = {}

Active == {w \in Thread : sync[w].pc # "idle"}

\* A thread that starts beside another one disturbs both.
Start(w, s) ==
  /\ sync[w].pc = "idle"
  /\ sync' = [u \in Thread |-> IF u = w THEN [s EXCEPT !.alone = (Active = {})]
                               ELSE [sync[u] EXCEPT !.alone = FALSE]]
  /\ disturbed' = disturbed \cup
       (IF Active = {} THEN {}
        ELSE IF s.rebuild \/ \E u \in Active : sync[u].rebuild THEN {"rebuild"} ELSE {"documents"})

Goto(w, pc) == sync' = [sync EXCEPT ![w].pc = pc]

(***************************************************************************)
(* A version is indexed: _sync_version_event.                              *)
(***************************************************************************)
Index(w, d, p, c, m) ==
  /\ Len(vers) < MaxVersions
  /\ vers # <<>> => m >= Last(vers).month
  /\ vers' = Append(vers, [doc |-> d, product |-> p, price |-> c, month |-> m])
  /\ Start(w, [Idle EXCEPT !.pc = "event", !.v = Len(vers) + 1])
  /\ UNCHANGED <<events, rel, merged, alias, audits, counters>>

\* The same version once more: a reindex, an approval, a job after a restart.
IndexAgain(w, v) ==
  /\ reviews < MaxReviews /\ reviews' = reviews + 1
  /\ Start(w, [Idle EXCEPT !.pc = "event", !.v = v])
  /\ UNCHANGED <<vers, events, rel, merged, alias, audits, rebuilds, crashes>>

Candidates(p) == {e \in DOMAIN events : events[e].entity = p}
NewEvent(v) == [e \in DOMAIN events \cup {v} |->
                  IF e = v THEN [entity |-> vers[v].product, evidence |-> {v}] ELSE events[e]]
WithEvidence(e, v) == [events EXCEPT ![e].evidence = @ \cup {v}]

\* The entity is found by the product's name, merged away or not, and the
\* name becomes its alias again.  The version joins an event of the entity
\* that is similar enough, or starts one.
UpsertEvent(w) ==
  LET v == sync[w].v  p == vers[v].product IN
  /\ sync[w].pc = "event"
  /\ alias' = [alias EXCEPT ![p] = p]
  /\ \/ \E e \in Candidates(p) : events' = WithEvidence(e, v)
     \/ v \notin DOMAIN events /\ events' = NewEvent(v)
  /\ Goto(w, "upsert")
  /\ UNCHANGED <<vers, rel, merged, audits, counters, disturbed>>

(***************************************************************************)
(* One relation of a version: _sync_graph_relations.                       *)
(***************************************************************************)
KeyOf(v) == [product |-> vers[v].product, price |-> vers[v].price, month |-> vers[v].month]

NewRelation(v) ==
  [src |-> vers[v].product, from |-> v, to |-> 0, status |-> "observed", eligible |-> TRUE,
   statement |-> "derived", manual |-> FALSE, evidence |-> {}]

\* Mutant: the derived statement is written over a reviewer's correction.
UpsertRelationOver(w) ==
  LET k == KeyOf(sync[w].v) IN
  /\ sync[w].pc = "upsert"
  /\ rel' = [x \in DOMAIN rel \cup {k} |->
               IF x # k THEN rel[x]
               ELSE IF k \notin DOMAIN rel THEN NewRelation(sync[w].v)
               ELSE [rel[k] EXCEPT !.eligible = TRUE, !.statement = "derived"]]
  /\ alias' = [alias EXCEPT ![k.product] = k.product]
  /\ sync' = [sync EXCEPT ![w].pc = "close",
                          ![w].stored = [src |-> rel'[k].src, from |-> rel'[k].from]]
  /\ UNCHANGED <<vers, events, merged, audits, counters, disturbed>>

\* A relation known by its key keeps its validity; a manual override also
\* keeps statement and eligibility.
UpsertRelation(w) ==
  LET k == KeyOf(sync[w].v) IN
  /\ sync[w].pc = "upsert"
  /\ rel' = [x \in DOMAIN rel \cup {k} |->
               IF x # k THEN rel[x]
               ELSE IF k \notin DOMAIN rel THEN NewRelation(sync[w].v)
               ELSE IF rel[k].manual THEN rel[k]
               ELSE [rel[k] EXCEPT !.eligible = TRUE, !.statement = "derived"]]
  /\ alias' = [alias EXCEPT ![k.product] = k.product]
  /\ sync' = [sync EXCEPT ![w].pc = "close",
                          ![w].stored = [src |-> rel'[k].src, from |-> rel'[k].from]]
  /\ UNCHANGED <<vers, events, merged, audits, counters, disturbed>>

\* Mutant: only relations of the same price are closed.
ClosedSame(k, r, d) ==
  [x \in DOMAIN rel |->
     IF /\ \E v \in rel[x].evidence : vers[v].doc = d
        /\ rel[x].src = r.src /\ x.price = k.price
        /\ rel[x].to = 0 /\ ~rel[x].manual /\ x # k
     THEN [rel[x] EXCEPT !.to = r.from] ELSE rel[x]]

\* The other prices the document gave for the entity are over.
Closed(k, r, d) ==
  [x \in DOMAIN rel |->
     IF /\ \E v \in rel[x].evidence : vers[v].doc = d
        /\ rel[x].src = r.src
        /\ rel[x].to = 0 /\ ~rel[x].manual /\ x # k
     THEN [rel[x] EXCEPT !.to = r.from] ELSE rel[x]]

\* With the relation as upsert_relation returned it.
CloseOthers(w) ==
  LET v == sync[w].v IN
  /\ sync[w].pc = "close"
  /\ rel' = Closed(KeyOf(v), sync[w].stored, vers[v].doc)
  /\ Goto(w, "evidence")
  /\ UNCHANGED <<vers, events, merged, alias, audits, counters, disturbed>>

\* Two documents corroborate a relation.  The status of a relation a
\* reviewer rejected is computed like any other.
Computed(evidence) ==
  IF Cardinality({vers[v].doc : v \in evidence}) >= 2 THEN "corroborated" ELSE "observed"

\* Evidence of a relation that is gone violates its foreign key: the sync fails.
AddEvidence(w) ==
  LET v == sync[w].v  k == KeyOf(v) IN
  /\ sync[w].pc = "evidence"
  /\ IF k \in DOMAIN rel
     THEN LET evidence == rel[k].evidence \cup {v} IN
          /\ rel' = [rel EXCEPT ![k].evidence = evidence, ![k].status = Computed(evidence)]
          /\ IF sync[w].rebuild
             THEN Goto(w, "next") /\ UNCHANGED disturbed
             ELSE sync' = [sync EXCEPT ![w] = Idle] /\ UNCHANGED disturbed
     ELSE /\ sync' = [sync EXCEPT ![w] = Idle] /\ disturbed' = disturbed \cup {"rebuild"}
          /\ UNCHANGED rel
  /\ UNCHANGED <<vers, events, merged, alias, audits, counters>>

(***************************************************************************)
(* rebuild_graph.                                                          *)
(***************************************************************************)
Rebuild(w) ==
  /\ rebuilds < MaxRebuilds /\ rebuilds' = rebuilds + 1
  /\ Start(w, [Idle EXCEPT !.pc = "list", !.rebuild = TRUE])
  /\ UNCHANGED <<vers, events, rel, merged, alias, audits, reviews, crashes>>

\* Mutant: only the latest evidence of an event is replayed.
EvidenceLatest == {<<e, Max(events[e].evidence)>> : e \in DOMAIN events}

\* list_events: events with their evidence.
Evidence == {p \in (DOMAIN events) \X (DOMAIN vers) : p[2] \in events[p[1]].evidence}

\* Latest event first, and of each its latest evidence first.
IsFirst(p, pairs) ==
  p \in pairs /\ \A q \in pairs : p[1] > q[1] \/ (p[1] = q[1] /\ p[2] >= q[2])

ListEvents(w) ==
  /\ sync[w].pc = "list"
  /\ sync' = [sync EXCEPT ![w].pc = "clear", ![w].todo = Evidence]
  /\ UNCHANGED <<vers, events, rel, merged, alias, audits, counters, disturbed>>

Remaining == {k \in DOMAIN rel : rel[k].manual}

\* clear_relations
Clear(w) ==
  /\ sync[w].pc = "clear"
  /\ rel' = [k \in Remaining |-> rel[k]]
  /\ disturbed' = disturbed \ {"review"}
  /\ Goto(w, "next")
  /\ UNCHANGED <<vers, events, merged, alias, audits, counters>>

\* The next evidence; a rebuild that was alone leaves the graph in order.
NextEvidence(w) ==
  LET s == sync[w] IN
  /\ s.pc = "next"
  /\ \/ \E p \in s.todo :
          /\ IsFirst(p, s.todo)
          /\ sync' = [sync EXCEPT ![w] = [s EXCEPT !.pc = "upsert", !.v = p[2], !.todo = @ \ {p}]]
          /\ UNCHANGED disturbed
     \/ /\ s.todo = {} /\ sync' = [sync EXCEPT ![w] = Idle]
        /\ disturbed' = IF s.alone THEN disturbed \cap {"review"} ELSE disturbed
  /\ UNCHANGED <<vers, events, rel, merged, alias, audits, counters>>

\* The process ends, or a statement fails, in the middle.
Crash(w) ==
  /\ crashes < MaxCrashes /\ crashes' = crashes + 1
  /\ sync[w].pc # "idle"
  /\ sync' = [sync EXCEPT ![w] = Idle]
  /\ disturbed' = disturbed \cup {"rebuild"}
  /\ UNCHANGED <<vers, events, rel, merged, alias, audits, reviews, rebuilds>>

(***************************************************************************)
(* Reviewers and editors.                                                  *)
(***************************************************************************)
Reviewed(r, action) ==
  LET weighed == IF Cardinality(r.evidence) >= 2 THEN "corroborated" ELSE "observed" IN
  CASE action = "reject"   -> [r EXCEPT !.status = "rejected", !.eligible = FALSE, !.manual = TRUE]
    [] action = "approve"  -> [r EXCEPT !.status = weighed, !.eligible = TRUE, !.manual = TRUE]
    [] action = "override" -> [r EXCEPT !.statement = "corrected", !.manual = TRUE]
    [] action = "restore"  -> [r EXCEPT !.status = weighed, !.manual = FALSE]

\* review_relation; resolve_conflict does what approve does.
ReviewRelation(k, action) ==
  /\ reviews < MaxReviews /\ reviews' = reviews + 1
  /\ rel' = [rel EXCEPT ![k] = Reviewed(@, action)]
  /\ disturbed' = IF action = "restore" THEN disturbed \cup {"review"} ELSE disturbed
  /\ UNCHANGED <<vers, events, merged, alias, audits, sync, rebuilds, crashes>>

Moved(s, t) ==
  [e \in DOMAIN events |-> [events[e] EXCEPT !.entity = IF @ = s THEN t ELSE @]]

Exists(p) == alias[p] # NoProduct

\* merge_entities: aliases, events, relations, insights; the row of the source
\* stays.  Nothing asks whether an entity is already merged.
MergeEntities(s, t) ==
  /\ s # t /\ Exists(s) /\ Exists(t) /\ Len(audits) < MaxMerges
  /\ alias' = [p \in Product |-> IF alias[p] = s THEN t ELSE alias[p]]
  /\ events' = Moved(s, t)
  /\ rel' = [k \in DOMAIN rel |-> [rel[k] EXCEPT !.src = IF @ = s THEN t ELSE @]]
  /\ merged' = [merged EXCEPT ![s] = t]
  /\ audits' = Append(audits, [source |-> s, target |-> t, before |-> merged])
  /\ UNCHANGED <<vers, sync, counters, disturbed>>

\* restore_entity_merge: the rows of both entities as the audit has them, and
\* all events of the target to the source; aliases and relations stay.  Its own
\* audit lacks the row of the source and cannot be undone.
RestoreMerge(i) ==
  LET a == audits[i] IN
  /\ merged' = [merged EXCEPT ![a.source] = a.before[a.source], ![a.target] = a.before[a.target]]
  /\ events' = Moved(a.target, a.source)
  /\ UNCHANGED <<vers, rel, alias, audits, sync, counters, disturbed>>

\* list_relations of the present.
CurrentGraph ==
  {k \in DOMAIN rel : rel[k].status # "rejected" /\ rel[k].to = 0 /\ rel[k].evidence # {}}

SyncStep(w) ==
  \/ UpsertEvent(w) \/ UpsertRelation(w) \/ CloseOthers(w) \/ AddEvidence(w)
  \/ ListEvents(w) \/ Clear(w) \/ NextEvidence(w)

GraphNext ==
  \/ \E w \in Thread :
       \/ \E d \in Doc, p \in Product, c \in Price, m \in Month : Index(w, d, p, c, m)
       \/ \E v \in DOMAIN vers : IndexAgain(w, v)
       \/ Rebuild(w) \/ SyncStep(w) \/ Crash(w)
  \/ \E k \in DOMAIN rel, action \in {"approve", "reject", "override", "restore"} : ReviewRelation(k, action)
  \/ \E s, t \in Product : MergeEntities(s, t)
  \/ \E i \in DOMAIN audits : RestoreMerge(i)

GraphSpec == GraphInit /\ [][GraphNext]_graphVars

(***************************************************************************)
(* Properties.                                                             *)
(***************************************************************************)
\* What a reviewer decided of a relation - its statement and whether it may
\* be cited - is changed by reviewers only, and no rebuild deletes it:
\* upsert_relation "must never silently overwrite a human correction".  A merge
\* leaves no event and no relation to the product merged away.
DecisionsHold ==
  [][/\ \A k \in DOMAIN rel : rel[k].manual /\ reviews' = reviews =>
          /\ k \in DOMAIN rel'
          /\ rel'[k].manual
          /\ rel'[k].statement = rel[k].statement /\ rel'[k].eligible = rel[k].eligible
     /\ \A s \in Product : merged'[s] # merged[s] /\ Len(audits') > Len(audits) =>
          /\ \A e \in DOMAIN events' : events'[e].entity # s
          /\ \A k \in DOMAIN rel' : rel'[k].src # s]_graphVars

\* With no thread at work, every evidence of an event is evidence of a
\* relation, also when versions were indexed side by side.  A crash, or a
\* rebuild with anything beside it, may break that; the next rebuild that runs
\* alone repairs it.
GraphIsComplete ==
  /\ GraphTypeOK
  /\ Active = {} /\ "rebuild" \notin disturbed =>
       \A e \in DOMAIN events : \A v \in events[e].evidence :
         KeyOf(v) \in DOMAIN rel /\ v \in rel[KeyOf(v)].evidence

\* When versions are indexed one after the other, and after every rebuild that
\* runs alone, a document has one price open for a product that was never
\* merged, reviewed relations aside.  A relation that "restore" gives back stays
\* open beside the price that came meanwhile, until the next rebuild.
OneOpenPrice ==
  Active = {} /\ disturbed = {} /\ audits = <<>> =>
    \A d \in Doc, p \in Product :
      Cardinality({k \in CurrentGraph : /\ rel[k].src = p /\ ~rel[k].manual
                                        /\ \E v \in rel[k].evidence : vers[v].doc = d}) <= 1

\* upsert_relation: "it must never silently overwrite a human correction".
\* A relation a reviewer rejected stays rejected until the next review.
RejectedStays ==
  [][\A k \in DOMAIN rel : rel[k].status = "rejected" /\ rel[k].manual /\ reviews' = reviews =>
       k \in DOMAIN rel' /\ rel'[k].status = "rejected"]_graphVars

=============================================================================
