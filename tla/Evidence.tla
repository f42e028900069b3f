------------------------------ MODULE Evidence ------------------------------
(***************************************************************************)
(* What an analysis makes of its evidence, as functions of one run: the    *)
(* Collector's parsing and merging of data points, the context pack and    *)
(* the evidence bundle cut from them, the Reviewer's gaps and verification *)
(* of claims, and the Writer's citations and quality gate.                 *)
(*                                                                         *)
(* A run is a record.  raw, form and repair are the Collector's answer,    *)
(* local the points from the knowledge base, durable stored items, data    *)
(* the points the graph keeps; items are the cells, SWOT entries and       *)
(* blocks of the Analyst; the brief is products, dims, policy (none: no    *)
(* brief) and window (custom: "new" dates are inside).  prev and round are *)
(* the review before; cites the numbers the narrative uses.                *)
(*                                                                         *)
(* A point's src lists the pages in its source_url, two after a merge, none*)
(* if it is missing; a page stands for its domain.  label lists the domains*)
(* written behind the label, which is otherwise the same for a product and *)
(* dimension.  Text is near a point when both are of one product and       *)
(* dimension; val is the number in a text, 0 if it has none.  Polarity,    *)
(* outliers and the model's own checks (G7, G8) are left out.              *)
(***************************************************************************)
EXTENDS Integers, Sequences, FiniteSets, SequencesExt, FiniteSetsExt, Folds

Silent == -1        \* val of an item without text
Unknown == "unknown"
DomainOf(p) == IF p.src = <<>> THEN Unknown ELSE Head(p.src)
Domains(points) == {DomainOf(p) : p \in {q \in points : q.src # <<>>}}
Pair(p) == <<p.product, p.dim>>
Pairs(run) == {<<p, d>> : p \in run.products, d \in run.dims}

(***************************************************************************)
(* The Collector.                                                          *)
(***************************************************************************)
\* whole: JSON; cut: the last object is torn and a "]" follows the first "[";
\* open: no "]" at all, and nothing is salvaged.
Salvaged(items) == SubSeq(items, 1, Len(items) - 1)
Parsed(form, items) ==
  SelectSeq(CASE form = "whole" -> items
              [] form = "cut" -> Salvaged(items)
              [] form = "open" -> <<>>, LAMBDA p : p.ok)

Fresh(run) ==
  LET first == Parsed(run.form, run.raw)
  IN  IF first # <<>> THEN first ELSE Parsed(run.repair, run.raw)

Distance(a, b) == IF a < b THEN b - a ELSE a - b
Similar(v1, v2) == IF v2 = 0 THEN v1 = 0 ELSE 100 * Distance(v1, v2) < 5 * v2

Combined(e, p) == [e EXCEPT !.src = @ \o p.src, !.conf = IF "high" \in {e.conf, p.conf} THEN "high" ELSE "low"]
Marked(p) == [p EXCEPT !.label = Append(@, DomainOf(p))]

DedupeStep(acc, p) ==
  LET key == <<p.product, p.dim, p.label>>
      i == acc.seen[key]
      e == acc.result[i]
  IN  CASE key \notin DOMAIN acc.seen ->
             [seen |-> [k \in DOMAIN acc.seen \cup {key} |-> IF k = key THEN Len(acc.result) + 1 ELSE acc.seen[k]],
              result |-> Append(acc.result, p)]
        [] key \in DOMAIN acc.seen /\ e.src = p.src -> acc
        [] key \in DOMAIN acc.seen /\ e.src # p.src ->
             IF Similar(p.val, e.val) THEN [acc EXCEPT !.result[i] = Combined(e, p)]
             ELSE [acc EXCEPT !.result = Append([@ EXCEPT ![i] = Marked(e)], Marked(p))]
Deduplicate(points) == FoldLeft(DedupeStep, [seen |-> <<>>, result |-> <<>>], points).result

\* The Collector merges its own points first, then those with the local ones.
Collected(run) == Deduplicate(run.local \o Deduplicate(Fresh(run)))
CollectorGaps(run) == Pairs(run) \ {Pair(p) : p \in ToSet(run.data)}

(***************************************************************************)
(* The context pack.                                                       *)
(***************************************************************************)
Official(p) == p.kind = "official"
Stale(p) == p.date = "old"
InScope(run, p) == p.product \in run.products /\ (run.window => ~Stale(p))

\* The last of an identity stays: the points of the run come behind the stored.
PackItems(run) ==
  LET all == run.durable \o run.data
      scope == {i \in DOMAIN all : InScope(run, all[i])}
      Identity(i) == <<all[i].product, all[i].dim, all[i].label, all[i].src>>
      last == {i \in scope : \A j \in scope : j > i => Identity(j) # Identity(i)}
  IN  {all[i] : i \in {i \in last : all[i].dim \in run.dims}}

Conflicting(points) ==
  \E p \in points :
    LET group == {q \in points : Pair(q) = Pair(p) /\ q.label = p.label}
    IN  Cardinality({q.val : q \in group}) > 1 /\ Cardinality({DomainOf(q) : q \in group}) > 1

QualityForDimension(run, items) ==
  CASE items = {} -> "missing"
    [] items # {} /\ Conflicting(items) -> "conflict"
    [] OTHER ->
         IF \A p \in items : Stale(p) THEN "stale"
         ELSE IF run.policy = "strict_multi_source" /\ Cardinality(Domains(items)) < 2 THEN "partial"
         ELSE IF run.policy = "official_preferred" /\ ~\E p \in items : Official(p) THEN "fallback"
         ELSE IF \E p \in items : Stale(p) THEN "partial" ELSE "available"

PackQuality(run) ==
  LET items == PackItems(run)
      states == {QualityForDimension(run, {p \in items : p.dim = d}) : d \in run.dims}
  IN  IF items = {} THEN "missing"
      ELSE IF "conflict" \in states THEN "conflict"
      ELSE IF states = {"stale"} THEN "stale"
      ELSE IF states \cap {"missing", "partial", "fallback"} # {} THEN "partial" ELSE "available"

(***************************************************************************)
(* The evidence bundle of a role.                                          *)
(***************************************************************************)
LastOf(data, id) == data[Max({i \in DOMAIN data : data[i].id = id})]
IdsOf(data) == {data[i].id : i \in DOMAIN data}
Candidates(run) ==
  {LastOf(run.data, id) : id \in IdsOf(run.data)}
    \cup {p \in PackItems(run) : p.id \notin IdsOf(run.data)}

\* Scores that are equal have equal parts; then the id decides.
PointScore(p) == (IF p.local THEN 60 ELSE 0) + (IF Official(p) THEN 25 ELSE 0)
              + (CASE p.date = "new" -> 15 [] p.date = "none" -> 5 [] p.date = "old" -> 0)
Outranks(p, q) == PointScore(p) > PointScore(q) \/ (PointScore(p) = PointScore(q) /\ p.id > q.id)

\* Mutant: selection ends at the first item that is too large.
TakeUntilFull(budget, acc, p) ==
  IF acc.full \/ acc.used + p.cost > budget THEN [acc EXCEPT !.full = TRUE]
  ELSE [acc EXCEPT !.used = @ + p.cost, !.taken = @ \cup {p}]
Take(budget, acc, p) ==
  IF acc.used + p.cost > budget THEN acc ELSE [acc EXCEPT !.used = @ + p.cost, !.taken = @ \cup {p}]

\* Candidates are taken in order of rank, the weakest of them last.
Weakest(points) == CHOOSE p \in points : \A q \in points : ~Outranks(p, q)
Bundle(run) ==
  MapThenFoldSet(LAMBDA p, acc : Take(run.budget, acc, p), [used |-> 0, taken |-> {}, full |-> FALSE],
                 LAMBDA p : p, Weakest, Candidates(run)).taken

MissingPairs(run) == Pairs(run) \ {Pair(p) : p \in Bundle(run)}
Abstains(run) == Bundle(run) = {} \/ PackQuality(run) \in {"missing", "conflict"}

(***************************************************************************)
(* The Reviewer's checks.                                                  *)
(***************************************************************************)
NoPair == <<"", "">>
Gap(check, type, severity, ids, pair) ==
  [check |-> check, type |-> type, severity |-> severity, ids |-> ids, pair |-> pair]
PointGaps(check, type, severity, points) == {Gap(check, type, severity, {p.id}, NoPair) : p \in points}

RagGaps(run) == {Gap("rag", "missing_data", "major", {}, pair) : pair \in MissingPairs(run)}
UrlGaps(run) ==
  LET lost == {p \in ToSet(run.data) : p.src = <<>>}
  IN  PointGaps("url", "fact_error", "critical", {p \in lost : p.conf = "high"})
        \cup PointGaps("url", "fact_error", "major", {p \in lost : p.conf = "low"})

ConsistencyGaps(run) ==
  LET data == run.data
  IN  {Gap("sources", "source_conflict", "major", {data[ij[1]].id, data[ij[2]].id}, NoPair) :
         ij \in {ij \in (DOMAIN data) \X (DOMAIN data) :
                   /\ ij[1] < ij[2] /\ Pair(data[ij[1]]) = Pair(data[ij[2]])
                   /\ data[ij[1]].label = data[ij[2]].label
                   /\ ~Similar(data[ij[1]].val, data[ij[2]].val)}}

FreshnessGaps(run) == PointGaps("fresh", "outdated", "minor", {p \in ToSet(run.data) : Stale(p)})
DiversityGaps(run) ==
  IF Cardinality({p.kind : p \in ToSet(run.data)}) = 1 THEN {Gap("kinds", "missing_data", "minor", {}, NoPair)} ELSE {}

\* The domain of a missing url is the empty text, and counts as one.
PolicyGaps(run) ==
  LET relevant == {p \in ToSet(run.data) : p.dim \in run.dims}
      sev == IF run.policy = "strict_multi_source" THEN "major" ELSE "minor"
  IN  (IF run.policy = "official_preferred"
       THEN PointGaps("official", "missing_data", "minor", {p \in relevant : p.dim = "pricing" /\ ~Official(p)}) ELSE {})
      \cup (IF run.window THEN PointGaps("window", "outdated", sev, {p \in relevant : Stale(p)}) ELSE {})
      \cup (IF run.policy \notin {"none", "balanced"}
            THEN PointGaps("undated", "missing_data", sev, {p \in relevant : p.date = "none"}) ELSE {})
      \cup (IF run.policy = "strict_multi_source"
            THEN {Gap("domains", "missing_data", "major", {}, <<"", d>>) :
                    d \in {d \in run.dims : Cardinality({DomainOf(p) : p \in {q \in relevant : q.dim = d}}) = 1}}
            ELSE {})

Cells(run) == {c \in ToSet(run.items) : c.kind = "cell"}
CoverageGaps(run) ==
  {Gap("coverage", "missing_data", "major", {}, pair) : pair \in Pairs(run) \ {Pair(c) : c \in Cells(run)}}
AllNaGaps(run) ==
  {Gap("all_na", "missing_data", "critical", {}, <<p, "">>) :
     p \in {p \in run.products : /\ \E c \in Cells(run) : c.product = p
                                 /\ \A c \in Cells(run) : c.product = p => c.rating = "na"}}
BlockGaps(run) ==
  PointGaps("block", "missing_data", "minor",
            {[id |-> i] : i \in {i \in DOMAIN run.items : run.items[i].kind = "block" /\ run.items[i].ids = {}}})

\* G10 looks for a cell's number on the stored pages of its points.  A page is
\* stored under its own url, so a merged source has none.
Stored(run, src) == {p.val : p \in {q \in ToSet(run.raw) : q.src = src}}
NumberGaps(run) ==
  LET Srcs(c) == {p.src : p \in {q \in ToSet(run.data) : q.id \in c.ids /\ q.src # <<>>}}
      pages == UNION {Stored(run, p.src) : p \in ToSet(run.data)}
      faulted == {c \in Cells(run) : c.val > 0 /\ Srcs(c) # {} /\ c.val \notin UNION {Stored(run, s) : s \in Srcs(c)}}
  IN  IF pages = {} THEN {} ELSE {Gap("number", "fact_error", "major", c.ids, Pair(c)) : c \in faulted}

(***************************************************************************)
(* Verification of the claims (G11).                                       *)
(***************************************************************************)
Claims(run) == {c \in ToSet(run.items) : c.val # Silent}
CitedBy(run, c) == {LastOf(run.data, id) : id \in c.ids \cap IdsOf(run.data)}

\* "explicit" evidence is cited by the claim.
Relation(c, p, explicit) ==
  LET near == Pair(c) = Pair(p)
  IN  IF near /\ c.val > 0 /\ c.val # p.val THEN "contradicts"
      ELSE IF c.val = p.val \/ (near /\ explicit) THEN "supports" ELSE "context"

Hits(run, c) == IF \E p \in ToSet(run.data) : p.local THEN {p \in ToSet(run.durable) : Pair(p) = Pair(c)} ELSE {}
Relations(run, c) ==
  {Relation(c, p, TRUE) : p \in CitedBy(run, c)} \cup {Relation(c, p, FALSE) : p \in Hits(run, c)}
ClaimStatus(run, c) ==
  LET found == Relations(run, c)
  IN  IF "contradicts" \in found THEN "contradicted" ELSE IF "supports" \in found THEN "supported" ELSE "insufficient"

ClaimGaps(run) ==
  {Gap("claim", IF ClaimStatus(run, c) = "contradicted" THEN "source_conflict" ELSE "missing_data",
       IF ClaimStatus(run, c) = "contradicted" THEN "critical" ELSE "major", c.ids, Pair(c)) :
     c \in {c \in Claims(run) : ClaimStatus(run, c) # "supported"}}

(***************************************************************************)
(* The verdict.                                                            *)
(***************************************************************************)
Found(run) ==
  RagGaps(run) \cup UrlGaps(run) \cup ConsistencyGaps(run) \cup FreshnessGaps(run) \cup PolicyGaps(run)
    \cup CoverageGaps(run) \cup AllNaGaps(run) \cup DiversityGaps(run) \cup BlockGaps(run)
    \cup NumberGaps(run) \cup ClaimGaps(run)

\* A gap of the round before is softened from the third review on.
FilterLoopGaps(run, gaps) ==
  {IF g \in run.prev /\ run.round >= 2 THEN [g EXCEPT !.severity = "minor"] ELSE g : g \in gaps}
Gaps(run) == FilterLoopGaps(run, Found(run))
Passed(run) == (~\E g \in Gaps(run) : g.severity = "critical") /\ run.round < 3
FactErrors(run) == {g \in Gaps(run) : g.type = "fact_error"}

QualitySummary(run) ==
  LET Other(p) == {q \in ToSet(run.data) : Pair(q) = Pair(p) /\ DomainOf(q) # DomainOf(p)}
  IN  [total |-> Len(run.data), verified |-> Len(run.data) - Cardinality(FactErrors(run)),
       multi |-> Cardinality({i \in DOMAIN run.data : Other(run.data[i]) # {}})]
RoundMetrics(run) ==
  LET points == ToSet(run.data)
      strong == Cardinality({pair \in {Pair(p) : p \in points} : Cardinality({DomainOf(p) : p \in {q \in points : Pair(q) = pair}}) >= 2})
      total == Max({1, Len(run.data)})
      weak == Max({0, total - strong - Cardinality(Gaps(run)) \div 2})
  IN  [strong |-> strong, weak |-> weak, moderate |-> total - strong - weak]

(***************************************************************************)
(* The Writer: citations.                                                  *)
(***************************************************************************)
VerifiedIds(run) ==
  UNION {{p.id : p \in {p \in CitedBy(run, c) : Relation(c, p, TRUE) = "supports"}} :
           c \in {c \in Claims(run) : ClaimStatus(run, c) = "supported"}}
Allowed(run) == IF Claims(run) = {} THEN IdsOf(run.data) ELSE VerifiedIds(run)

\* Mutant: the numbers count the points that may be cited.
CitationIndexOfAllowed(run) ==
  LET data == SelectSeq(run.data, LAMBDA p : p.id \in Allowed(run))
  IN  [id \in IdsOf(data) |-> Min({i \in DOMAIN data : data[i].id = id})]
CitationIndex(run) ==
  [id \in IdsOf(run.data) \cap Allowed(run) |-> Min({i \in DOMAIN run.data : run.data[i].id = id})]
ResolveCitations(run, ids) == {CitationIndex(run)[id] : id \in ids \cap DOMAIN CitationIndex(run)}

\* The traceability map: source n is the n-th point, cited or not.
TraceabilityMap(run) == run.data
Cited(run, kind) == UNION {ResolveCitations(run, c.ids) : c \in {c \in ToSet(run.items) : c.kind = kind}}

\* A narrative may only use numbers of the index.
ValidNarrative(run) == run.cites \subseteq Range(CitationIndex(run))
Summary(run) == IF run.cites # {} /\ ValidNarrative(run) THEN run.cites ELSE Cited(run, "cell")
ReportSections(run) ==
  [summary |-> Summary(run), matrix |-> Cited(run, "cell"), swot |-> Cited(run, "swot"),
   blocks |-> Cited(run, "block"), sources |-> Range(CitationIndex(run))]

\* Numbers the self-check finds without a source (W3); it is only logged.
SelfCheck(run) ==
  (UNION {ReportSections(run)[s] : s \in DOMAIN ReportSections(run)}) \ DOMAIN TraceabilityMap(run)

\* Sources that some claim's evidence supports; marked verified in the map.
VerifiedSources(run) ==
  UNION {{CitationIndex(run)[p.id] : p \in {p \in CitedBy(run, c) : p.id \in DOMAIN CitationIndex(run) /\ Relation(c, p, TRUE) = "supports"}} :
           c \in Claims(run)}

(***************************************************************************)
(* The Writer: the quality gate.                                           *)
(***************************************************************************)
\* Mutant: only critical gaps block.
ReviewerBlocksCritical(run) == {g \in Gaps(run) : g.severity = "critical"} \cup FactErrors(run)
\* A fact error is reported a second time, and blocks whatever its severity.
ReviewerBlocks(run) == {g \in Gaps(run) : g.severity \in {"critical", "major"}} \cup FactErrors(run)

Uncovered(run) == Pairs(run) \ {Pair(c) : c \in {c \in Cells(run) : c.rating = "rated"}}
ClaimDomains(run, c) == Domains(CitedBy(run, c))
GateClaims(run) == {c \in ToSet(run.items) : c.kind \in {"cell", "swot"}}
SingleSource(run) == {c \in GateClaims(run) : Cardinality(ClaimDomains(run, c)) = 1}
Unsupported(run) == {c \in GateClaims(run) : ClaimDomains(run, c) = {}}
UnknownDates(run) == {p \in ToSet(run.data) : run.policy \notin {"none", "balanced"} /\ p.date = "none"}

Gate(run) ==
  IF \/ ReviewerBlocks(run) # {} \/ Uncovered(run) # {}
     \/ run.policy = "strict_multi_source" /\ SingleSource(run) # {}
  THEN "blocked"
  ELSE IF Gaps(run) \cup SingleSource(run) \cup Unsupported(run) \cup UnknownDates(run) # {} THEN "warning" ELSE "pass"
=============================================================================
