------------------------------ MODULE Workflow ------------------------------
(***************************************************************************)
(* The LangGraph workflow of an analysis (competition/graph.py, router.py, *)
(* nodes/) and the re-runs of its last stages (_reanalyze_sync).           *)
(*                                                                         *)
(* The graph collects, analyses, reviews and writes, sends a failed review *)
(* back to the collector a number of times that the complexity sets, and   *)
(* hands every failure to the error handler.  A re-run calls the same      *)
(* instrumented nodes one after the other, without routing, on the state   *)
(* that the graph left.                                                    *)
(*                                                                         *)
(* The points one attempt of the collector brings count as one: the        *)
(* attempt, and whether an address among them is unusable.  An analysis is *)
(* the set of products it could rate, a report the analysis it was written *)
(* from.  Model calls answer anything a node accepts.                      *)
(***************************************************************************)
EXTENDS Integers, Sequences, FiniteSets

CONSTANTS
  Product,       \* target products
  MaxAttempts,   \* attempts of a stage are counted up to this bound
  MaxFaults,     \* bound on stages that raise or exceed their deadline
  MaxDecisions   \* bound on decisions of the user

ASSUME BoundAssumption ==
  /\ Product # {} /\ IsFiniteSet(Product)
  /\ MaxAttempts \in Nat /\ MaxAttempts > 3
  /\ MaxFaults \in Nat /\ MaxDecisions \in Nat

VARIABLES
  brief,      \* complexity of the confirmed analysis brief, "none" without one
  phase,      \* what the thread is doing
  todo,       \* stages still to be called, the next one first
  st,         \* the graph state the nodes read
  results,    \* stage_results: attempts and latest status of each stage
  outcome,    \* run_status at the end of the graph
  versions,   \* reports saved as versions, oldest first
  faults, decisions

vars == <<brief, phase, todo, st, results, outcome, versions, faults, decisions>>

Stage == {"orchestrator", "collector", "analyst", "reviewer", "writer", "hitl_gate", "error_handler"}
Complexity == {"quick", "standard", "deep"}
Rework == {"rewrite", "reanalyze", "replan"}
Failure == {"failed", "timeout", "cancelled"}
Attempt == 0 .. MaxAttempts
Point == [by : Attempt, bad : BOOLEAN]
GapKind == {"url", "contradiction"} \cup Product
Gap == [about : GapKind, loop : BOOLEAN]

NoAnalysis == [id |-> 0, cells |-> FALSE, rated |-> {}, of |-> {}]
NoVerdict == [given |-> FALSE, passed |-> FALSE, gaps |-> {}]
NoReport == [exists |-> FALSE, from |-> 0]
NoPack == [built |-> FALSE, of |-> {}]

Attempts(points) == {p.by : p \in points}
Next1(n) == IF n < MaxAttempts THEN n + 1 ELSE n
NextAttempt(stage) == Next1(results[stage].n)

(***************************************************************************)
(* What a node may return: the keys it sets.                               *)
(***************************************************************************)
\* A brief decides the complexity; the reply that cannot be parsed or
\* validated falls back to the default without looking at the brief.
BuildReturn(c) == [complexity |-> IF brief = "none" THEN c ELSE brief]
Unparsed == [complexity |-> "standard"]
Orchestrator == {BuildReturn(c) : c \in Complexity} \cup {Unparsed}

\* Nothing sets knowledge_gaps, so a collection returns its own points only.
Collector ==
  {[data |-> points] : points \in {{}} \cup {{[by |-> NextAttempt("collector"), bad |-> b]} : b \in BOOLEAN}}

\* The context pack is built by the first node that finds none.
Pack == IF st.pack.built THEN st.pack ELSE [built |-> TRUE, of |-> Attempts(st.data)]

Matrix == {m \in [shown : SUBSET Product, rated : SUBSET Product] : m.rated \subseteq m.shown}
\* A product missing from the matrix is asked for once more.
Retried(m) ==
  IF m.shown = Product THEN {m}
  ELSE {m} \cup {[shown |-> m.shown \cup r.shown, rated |-> m.rated \cup (r.rated \ m.shown)] : r \in Matrix}
\* An empty matrix passes the coverage check unseen.
CoverageWarnings(m) ==
  IF m.shown = {} THEN {FALSE} ELSE IF m.rated # Product THEN {TRUE} ELSE BOOLEAN
\* Products still missing get placeholder cells without a rating.
Analysis(m) == [id |-> NextAttempt("analyst"), cells |-> TRUE, rated |-> m.rated, of |-> Attempts(st.data)]
EmptyAnalysis == [id |-> NextAttempt("analyst"), cells |-> FALSE, rated |-> {}, of |-> Attempts(st.data)]
Analyst ==
  {[analysis |-> EmptyAnalysis, pack |-> Pack, warning |-> FALSE]}
    \cup UNION {{[analysis |-> Analysis(m), pack |-> Pack, warning |-> w] : w \in CoverageWarnings(m)} :
                  m \in UNION {Retried(m) : m \in Matrix}}

\* The gaps a review finds that are critical.
UrlGaps == IF \E p \in st.data : p.bad THEN {"url"} ELSE {}
AllNaGaps == IF st.analysis.cells THEN Product \ st.analysis.rated ELSE {}
\* Claims are verified in every round; their evidence may contradict them.
ClaimsChecked == st.analysis.cells /\ st.data # {}
ContradictionGaps == IF ClaimsChecked THEN {{}, {"contradiction"}} ELSE {{}}
\* From the third round on, a gap of the verdict before becomes minor.
Repeated(about) == st.round >= 2 /\ [about |-> about, loop |-> FALSE] \in st.verdict.gaps
FilterLoopGaps(found) == {[about |-> a, loop |-> Repeated(a)] : a \in found}
Verdict(gaps) ==
  [given |-> TRUE, passed |-> (\A g \in gaps : g.loop) /\ st.round < 3, gaps |-> gaps]
Reviewed(v) ==
  [verdict |-> v, round |-> IF v.passed THEN st.round ELSE st.round + 1, pack |-> Pack]
Reviewer == {Reviewed(Verdict(FilterLoopGaps(UrlGaps \cup AllNaGaps \cup c))) : c \in ContradictionGaps}

Writer == {[report |-> [exists |-> TRUE, from |-> st.analysis.id]]}

\* No decision has been made when the graph reaches its gate.
HitlGate == {[decision |-> IF st.decision = "none" THEN "approve" ELSE st.decision]}

\* With partial results the error is cleared and an issue noted; without
\* any the run ends with a report that says so.
DegradedContinue == [err |-> "none", decision |-> "approve", warning |-> TRUE]
GracefulStop == [err |-> "fatal", decision |-> "approve", report |-> [exists |-> TRUE, from |-> 0]]
ErrorHandler == {IF st.data # {} \/ st.analysis.id # 0 THEN DegradedContinue ELSE GracefulStop}

Node(stage) ==
  CASE stage = "orchestrator" -> Orchestrator
    [] stage = "collector" -> Collector
    [] stage = "analyst" -> Analyst
    [] stage = "reviewer" -> Reviewer
    [] stage = "writer" -> Writer
    [] stage = "hitl_gate" -> HitlGate
    [] stage = "error_handler" -> ErrorHandler

(***************************************************************************)
(* The wrapper of a node.                                                  *)
(***************************************************************************)
Has(u, key) == key \in DOMAIN u
StatusForUpdate(u) ==
  IF Has(u, "err") /\ u.err # "none" THEN "failed"
  ELSE IF Has(u, "warning") /\ u.warning THEN "partial"
  ELSE "completed"

\* A node that returns, one that returns behind its deadline, one that raises.
Returned(stage) == {[update |-> u, status |-> StatusForUpdate(u), fault |-> 0] : u \in Node(stage)}
WithError(u) == [k \in DOMAIN u \cup {"err"} |-> IF k = "err" THEN "stage" ELSE u[k]]
Late(stage) == {[update |-> WithError(u), status |-> "timeout", fault |-> 1] : u \in Node(stage)}
Raised == {[update |-> [err |-> "stage"], status |-> s, fault |-> 1] : s \in Failure}
Instrumented(stage) == Returned(stage) \cup (IF faults < MaxFaults THEN Late(stage) \cup Raised ELSE {})

\* Keys that the state does not have are dropped; in the graph the reducer
\* of collected_data appends, in a re-run the new list replaces the old one.
Merge(u, append) ==
  [k \in DOMAIN st |->
     IF ~ Has(u, k) THEN st[k]
     ELSE IF k = "data" /\ append THEN st.data \cup u.data
     ELSE u[k]]

\* The stage result is appended; only its status and number matter later.
Record(stage, status) == [results EXCEPT ![stage] = [n |-> NextAttempt(stage), status |-> status]]

Call(stage, append) ==
  \E out \in Instrumented(stage) :
    /\ st' = Merge(out.update, append)
    /\ results' = Record(stage, out.status)
    /\ faults' = faults + out.fault

(***************************************************************************)
(* Routing, on the state after the node.                                   *)
(***************************************************************************)
StageFailed(s, r, stage) == s.err # "none" \/ r[stage].status \in Failure

RouteAfterOrchestrator(s) == "collector"
RouteAfterCollector(s) == IF s.data = {} THEN "error_handler" ELSE "analyst"
RouteAfterAnalyst(s) == "reviewer"
Cap(c) == CASE c = "quick" -> 1 [] c = "standard" -> 2 [] c = "deep" -> 3 [] OTHER -> 2
\* Mutant: the cap allows one round more.
RouteAfterReviewerLate(s) ==
  IF s.verdict.passed \/ s.round > Cap(s.complexity) THEN "writer" ELSE "collector"
RouteAfterReviewer(s) ==
  IF s.verdict.passed \/ s.round >= Cap(s.complexity) THEN "writer" ELSE "collector"
RouteAfterWriter(s) == "hitl_gate"
RouteAfterHitl(s) ==
  CASE s.decision = "replan" -> "collector"
    [] s.decision = "reanalyze" -> "analyst"
    [] s.decision = "rewrite" -> "writer"
    [] OTHER -> "end"

RouteOf(stage, s) ==
  CASE stage = "orchestrator" -> RouteAfterOrchestrator(s)
    [] stage = "collector" -> RouteAfterCollector(s)
    [] stage = "analyst" -> RouteAfterAnalyst(s)
    [] stage = "reviewer" -> RouteAfterReviewer(s)
    [] stage = "writer" -> RouteAfterWriter(s)
    [] stage = "hitl_gate" -> RouteAfterHitl(s)
    [] OTHER -> "end"
\* Mutant: the error handler has no edge of its own.
RouteLooped(stage, s, r) == IF StageFailed(s, r, stage) THEN "error_handler" ELSE RouteOf(stage, s)
Route(stage, s, r) ==
  IF stage # "error_handler" /\ StageFailed(s, r, stage) THEN "error_handler" ELSE RouteOf(stage, s)

GraphStep ==
  /\ phase = "graph" /\ todo # <<>>
  /\ Call(Head(todo), TRUE)
  /\ LET next == Route(Head(todo), st', results')
     IN todo' = IF next = "end" THEN <<>> ELSE <<next>>
  /\ UNCHANGED <<brief, phase, outcome, versions, decisions>>

(***************************************************************************)
(* The end of the graph in _run_graph_sync.                                *)
(***************************************************************************)
FinalStatus(r) == IF \E stage \in Stage : r[stage].status = "partial" THEN "partial" ELSE "completed"

GraphFails ==
  /\ phase = "graph" /\ todo = <<>>
  /\ st.err # "none" \/ ~ st.report.exists
  /\ phase' = "rest" /\ outcome' = "failed"
  /\ st' = [st EXCEPT !.err = IF @ = "none" THEN "fatal" ELSE @]
  /\ UNCHANGED <<brief, todo, results, versions, faults, decisions>>

GraphEnds ==
  /\ phase = "graph" /\ todo = <<>>
  /\ st.err = "none" /\ st.report.exists
  /\ phase' = "rest" /\ outcome' = FinalStatus(results)
  /\ versions' = IF versions = <<>> THEN <<st.report>> ELSE versions
  /\ UNCHANGED <<brief, todo, st, results, faults, decisions>>

(***************************************************************************)
(* Decisions and re-runs.                                                  *)
(***************************************************************************)
\* Tokens of the comment, when the model gives no action of its own.
RuleBasedIntent(hits) ==
  IF "replan" \in hits THEN "replan"
  ELSE IF "reanalyze" \in hits THEN "reanalyze"
  ELSE IF "rewrite" \in hits THEN "rewrite"
  ELSE "reanalyze"
ParseReworkIntent(reply, hits) == IF reply \in Rework THEN reply ELSE RuleBasedIntent(hits)
AutoActions == {ParseReworkIntent(reply, hits) : reply \in Rework \cup {"none"}, hits \in SUBSET Rework}

\* Mutant: the collection is not followed by an analysis.
RerunStagesShort(action) ==
  CASE action = "rewrite" -> <<"writer">>
    [] action = "reanalyze" -> <<"analyst", "reviewer", "writer">>
    [] action = "replan" -> <<"collector", "reviewer", "writer">>
RerunStages(action) ==
  CASE action = "rewrite" -> <<"writer">>
    [] action = "reanalyze" -> <<"analyst", "reviewer", "writer">>
    [] action = "replan" -> <<"collector", "analyst", "reviewer", "writer">>

\* Mutant: the verdict of the round before stays.
ResetReviewRound(s, action) == IF action = "rewrite" THEN s ELSE [s EXCEPT !.round = 0]
ResetReview(s, action) == IF action = "rewrite" THEN s ELSE [s EXCEPT !.round = 0, !.verdict = NoVerdict]

Decide(action) ==
  /\ phase = "rest" /\ decisions < MaxDecisions
  /\ phase' = "rerun"
  /\ todo' = RerunStages(action)
  /\ st' = ResetReview([st EXCEPT !.decision = action], action)
  /\ decisions' = decisions + 1
  /\ UNCHANGED <<brief, results, outcome, versions, faults>>
DecideAuto == \E action \in AutoActions : Decide(action)
Approve ==
  /\ phase = "rest" /\ decisions < MaxDecisions
  /\ phase' = "approved"
  /\ st' = [st EXCEPT !.decision = "approve"]
  /\ decisions' = decisions + 1
  /\ UNCHANGED <<brief, todo, results, outcome, versions, faults>>

\* Each stage runs whatever became of the one before.
RerunStep ==
  /\ phase = "rerun" /\ todo # <<>>
  /\ Call(Head(todo), FALSE)
  /\ todo' = Tail(todo)
  /\ UNCHANGED <<brief, phase, outcome, versions, decisions>>

\* The report of the state becomes a version, written by this re-run or not.
RerunEnds ==
  /\ phase = "rerun" /\ todo = <<>>
  /\ phase' = "rest"
  /\ versions' = IF st.report.exists THEN Append(versions, st.report) ELSE versions
  /\ UNCHANGED <<brief, todo, st, results, outcome, faults, decisions>>

(***************************************************************************)
(* The specification.                                                      *)
(***************************************************************************)
Init ==
  /\ brief \in Complexity \cup {"none"}
  /\ phase = "graph" /\ todo = <<"orchestrator">>
  /\ st = [data |-> {}, analysis |-> NoAnalysis, verdict |-> NoVerdict, round |-> 0, report |-> NoReport,
           pack |-> NoPack, complexity |-> "none", decision |-> "none", err |-> "none"]
  /\ results = [stage \in Stage |-> [n |-> 0, status |-> "none"]]
  /\ outcome = "none" /\ versions = <<>> /\ faults = 0 /\ decisions = 0

Done == phase = "approved" \/ (phase = "rest" /\ decisions = MaxDecisions)
Stop == Done /\ UNCHANGED vars

System == GraphStep \/ GraphFails \/ GraphEnds \/ RerunStep \/ RerunEnds
Next == System \/ (\E action \in Rework : Decide(action)) \/ DecideAuto \/ Approve \/ Stop
Spec == Init /\ [][Next]_vars /\ WF_vars(System)

(***************************************************************************)
(* Properties.                                                             *)
(***************************************************************************)
TypeOK ==
  /\ brief \in Complexity \cup {"none"}
  /\ phase \in {"graph", "rerun", "rest", "approved"}
  /\ todo \in Seq(Stage) /\ Len(todo) <= 4
  /\ st.data \subseteq Point /\ st.round \in 0 .. 3
  /\ st.analysis \in [id : Attempt, cells : BOOLEAN, rated : SUBSET Product, of : SUBSET Attempt]
  /\ st.verdict \in [given : BOOLEAN, passed : BOOLEAN, gaps : SUBSET Gap]
  /\ st.report \in [exists : BOOLEAN, from : Attempt]
  /\ st.pack \in [built : BOOLEAN, of : SUBSET Attempt]
  /\ st.complexity \in Complexity \cup {"none"} /\ st.err \in {"none", "stage", "fatal"}
  /\ st.decision \in Rework \cup {"none", "approve"}
  /\ results \in [Stage -> [n : Attempt, status : Failure \cup {"none", "completed", "partial"}]]
  /\ outcome \in {"none", "completed", "partial", "failed"}
  /\ faults \in 0 .. MaxFaults /\ decisions \in 0 .. MaxDecisions

\* The graph collects at most as often as the complexity allows, whatever
\* the reviews find, and at least once before anything is analysed.
RoundsAreCapped ==
  /\ TypeOK
  /\ phase = "graph" => /\ results["collector"].n <= Cap(st.complexity)
                        /\ results["analyst"].n <= results["collector"].n
                        /\ results["reviewer"].n <= results["analyst"].n

\* A verdict that passed before the loop filter could soften it speaks of
\* the data and the analysis that are in the state: none of the points has
\* an unusable address and no product of the matrix is without a rating.
PassedIsEarned ==
  st.verdict.passed /\ st.round < 2 =>
    /\ \A p \in st.data : ~ p.bad
    /\ st.analysis.cells => st.analysis.rated = Product

\* An end is what it says.  A thread that rests without an error has a report,
\* written from its latest analysis, which was made from the data it holds now; a
\* graph that ended "completed" had no stage that failed, ended late or was only
\* partly done in its last attempt, and saved its report.
EndIsClean ==
  /\ phase = "rest" /\ st.err = "none" =>
       /\ st.report.exists /\ st.report.from = st.analysis.id
       /\ st.analysis.of = Attempts(st.data)
  /\ outcome = "completed" /\ decisions = 0 =>
       /\ \A stage \in Stage : results[stage].status \in {"none", "completed"}
       /\ versions = <<st.report>>

\* Every run and every re-run ends.
RunEnds == phase \in {"graph", "rerun"} ~> phase \in {"rest", "approved"}

\* Not so in the code.  The complexity of a confirmed brief is the one the
\* run uses ("Treat these as hard constraints").
BriefIsBinding == brief # "none" => st.complexity \in {"none", brief}

\* Not so in the code.  The context pack that analysis, review and report
\* describe covers the data of the run ("current run is authoritative").
PackIsCurrent ==
  phase = "rest" /\ st.err = "none" => st.pack.of = Attempts(st.data)

\* Not so in the code.  A re-run that saves a version saves a new report.
NewVersionIsNew ==
  [][Len(versions') > Len(versions) /\ versions # <<>> => results["writer"].status \notin Failure]_vars
=============================================================================
