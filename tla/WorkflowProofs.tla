--------------------------- MODULE WorkflowProofs ---------------------------
(***************************************************************************)
(* Proofs about Workflow for any products and any bounds on attempts,      *)
(* faults and decisions.                                                   *)
(***************************************************************************)
EXTENDS Workflow, TLAPS

-----------------------------------------------------------------------------
(* The inductive invariant. *)

AnalysisOf == [id : Attempt, cells : BOOLEAN, rated : SUBSET Product, of : SUBSET Attempt]
VerdictOf == [given : BOOLEAN, passed : BOOLEAN, gaps : SUBSET Gap]
ReportOf == [exists : BOOLEAN, from : Attempt]
PackOf == [built : BOOLEAN, of : SUBSET Attempt]
State ==
  [data : SUBSET Point, analysis : AnalysisOf, verdict : VerdictOf, round : 0 .. 3, report : ReportOf,
   pack : PackOf, complexity : Complexity \cup {"none"}, decision : Rework \cup {"none", "approve"},
   err : {"none", "stage", "fatal"}]
StatusOf == Failure \cup {"none", "completed", "partial"}
Result == [n : Attempt, status : StatusOf]

\* Stages a re-run may still have to call.
Remaining ==
  {<<>>, <<"writer">>, <<"reviewer", "writer">>, <<"analyst", "reviewer", "writer">>,
   <<"collector", "analyst", "reviewer", "writer">>}

Shape ==
  /\ brief \in Complexity \cup {"none"}
  /\ phase \in {"graph", "rerun", "rest", "approved"}
  /\ phase = "graph" => todo = <<>> \/ \E stage \in Stage : todo = <<stage>>
  /\ phase = "rerun" => todo \in Remaining
  /\ phase \in {"rest", "approved"} => todo = <<>>
  /\ st \in State
  /\ results \in [Stage -> Result]
  /\ outcome \in {"none", "completed", "partial", "failed"}
  /\ faults \in 0 .. MaxFaults /\ decisions \in 0 .. MaxDecisions

\* The graph decides nothing for the user, and saves nothing before its end.
Phases ==
  /\ phase = "graph" => /\ versions = <<>> /\ outcome = "none" /\ decisions = 0
                        /\ st.decision \in {"none", "approve"}
  /\ phase \in {"rerun", "approved"} => decisions > 0

\* How often each stage of the round was called when the graph comes to a stage.
N(stage) == results[stage].n
Rounds ==
  phase = "graph" =>
    /\ N("reviewer") <= N("analyst") /\ N("analyst") <= N("collector")
    /\ N("collector") <= Cap(st.complexity)
    /\ todo = <<"orchestrator">> => N("collector") = 0 /\ st.round = 0
    /\ todo = <<"collector">> =>
         /\ N("collector") = st.round /\ N("reviewer") = st.round
         /\ st.round < Cap(st.complexity)
    /\ todo = <<"analyst">> =>
         N("collector") = st.round + 1 /\ N("analyst") = st.round /\ N("reviewer") = st.round
    /\ todo = <<"reviewer">> =>
         N("collector") = st.round + 1 /\ N("analyst") = st.round + 1 /\ N("reviewer") = st.round

\* No verdict of an earlier round is in force when data or analysis may change.
BeforeReview == {"orchestrator", "collector", "analyst", "reviewer"}
Verdicts ==
  /\ phase \in {"graph", "rerun"} /\ todo # <<>> /\ todo[1] \in BeforeReview => ~ st.verdict.passed
  /\ phase = "rerun" /\ todo # <<>> /\ todo[1] # "writer" => st.round = 0

\* The analysis is of the data, and the report of the analysis.
Analysed == st.analysis.of = Attempts(st.data)
Written == st.report.exists /\ st.report.from = st.analysis.id

\* While the graph goes on nothing has failed; behind a failure there is only the
\* error handler, which says that the run is partial.
NoFailure == \A stage \in Stage : results[stage].status \notin Failure
GraphReports ==
  phase = "graph" =>
    /\ todo # <<>> /\ todo[1] \in BeforeReview \cup {"writer"} => ~ st.report.exists
    /\ todo # <<>> /\ todo[1] \in {"reviewer", "writer"} => Analysed
    /\ st.report.exists /\ (st.err = "none" \/ todo # <<>>) => Written /\ Analysed
    /\ todo # <<>> /\ todo[1] # "error_handler" => st.err = "none" /\ NoFailure
    /\ todo = <<>> /\ st.err = "none" => NoFailure \/ results["error_handler"].status = "partial"

\* A re-run takes over a clean end, or an error that stays.
RerunReports ==
  phase = "rerun" /\ st.err = "none" =>
    /\ st.report.exists
    /\ todo = <<>> => Written
    /\ todo = <<>> \/ todo[1] \in {"reviewer", "writer"} => Analysed

IInv ==
  /\ Shape /\ Phases /\ Rounds /\ Verdicts /\ PassedIsEarned
  /\ GraphReports /\ RerunReports /\ EndIsClean

-----------------------------------------------------------------------------
(* What a call of a stage does. *)

Keys == {"data", "analysis", "verdict", "round", "report", "pack", "complexity", "decision", "err"}

\* What the state takes over from a node that returned, in time or late.
Value(u, k, append) == IF k = "data" /\ append THEN st.data \cup u.data ELSE u[k]
Takes(u, append) == \A k \in Keys \ {"err"} : st'[k] = IF k \in DOMAIN u THEN Value(u, k, append) ELSE st[k]
Keeps == \A k \in Keys \ {"err"} : st'[k] = st[k]
Failed(stage) == st'.err = "stage" /\ results'[stage].status \in Failure

LEMMA MergeIs ==
  ASSUME st \in State, NEW u, NEW append \in BOOLEAN, st' = Merge(u, append)
  PROVE  /\ DOMAIN st' = Keys /\ st' = [k \in Keys |-> st'[k]]
         /\ \A k \in Keys : st'[k] = IF k \in DOMAIN u THEN Value(u, k, append) ELSE st[k]
  <1>1. DOMAIN st = Keys
    BY DEF State, Keys
  <1> QED
    BY <1>1 DEF Merge, Value, Has, Keys

\* A node returns in time, behind its deadline, or not at all.
LEMMA OutIs ==
  ASSUME NEW stage \in Stage, NEW out \in Instrumented(stage), faults \in 0 .. MaxFaults, BoundAssumption
  PROVE  /\ faults + out.fault \in 0 .. MaxFaults
         /\ \/ out.update \in Node(stage) /\ out.status = StatusForUpdate(out.update)
            \/ \E u \in Node(stage) : out.update = WithError(u) /\ out.status = "timeout"
            \/ out.update = [err |-> "stage"] /\ out.status \in Failure
  <1>1. CASE out \in Returned(stage)
    BY <1>1 DEF Returned, BoundAssumption
  <1>2. CASE faults < MaxFaults /\ out \in Late(stage)
    BY <1>2 DEF Late, BoundAssumption
  <1>3. CASE faults < MaxFaults /\ out \in Raised
    BY <1>3 DEF Raised, BoundAssumption
  <1> QED
    BY <1>1, <1>2, <1>3 DEF Instrumented

LEMMA StatusIs ==
  ASSUME NEW u
  PROVE  StatusForUpdate(u) \in {"failed", "partial", "completed"}
  BY DEF StatusForUpdate

\* Only the stage's own result changes.
LEMMA ResultIs ==
  ASSUME BoundAssumption, Shape, NEW stage \in Stage, NEW append \in BOOLEAN, Call(stage, append)
  PROVE  /\ results' \in [Stage -> Result]
         /\ results'[stage].n = NextAttempt(stage) /\ NextAttempt(stage) \in Attempt
         /\ \A s \in Stage : s # stage => results'[s] = results[s]
         /\ faults' \in 0 .. MaxFaults
  <1>1. PICK out \in Instrumented(stage) :
               /\ results' = Record(stage, out.status) /\ faults' = faults + out.fault
    BY DEF Call
  <1>2. faults' \in 0 .. MaxFaults /\ out.status \in StatusOf
    <2>1. out.status \in {"failed", "partial", "completed", "timeout"} \cup Failure
      BY OutIs, StatusIs DEF Shape
    <2> QED
      BY <1>1, <2>1, OutIs DEF Shape, StatusOf, Failure
  <1>3. NextAttempt(stage) \in Attempt
    BY DEF NextAttempt, Next1, Shape, Result, Attempt, BoundAssumption
  <1>4. [n |-> NextAttempt(stage), status |-> out.status] \in Result
    BY <1>2, <1>3 DEF Result
  <1> QED
    BY <1>1, <1>2, <1>3, <1>4 DEF Shape, Record

\* No stage but the error handler says anything about the error.
LEMMA NoError ==
  ASSUME NEW stage \in Stage, stage # "error_handler", NEW u \in Node(stage)
  PROVE  "err" \notin DOMAIN u
  <1>1. CASE stage = "orchestrator"
    BY <1>1 DEF Node, Orchestrator, BuildReturn, Unparsed
  <1>2. CASE stage = "collector"
    BY <1>2 DEF Node, Collector
  <1>3. CASE stage = "analyst"
    BY <1>3 DEF Node, Analyst
  <1>4. CASE stage = "reviewer"
    <2>1. PICK v : u = Reviewed(v)
      BY <1>4 DEF Node, Reviewer
    <2> QED
      BY <2>1 DEF Reviewed
  <1>5. CASE stage = "writer"
    BY <1>5 DEF Node, Writer
  <1>6. CASE stage = "hitl_gate"
    BY <1>6 DEF Node, HitlGate
  <1> QED
    BY <1>1, <1>2, <1>3, <1>4, <1>5, <1>6 DEF Stage

LEMMA CallIs ==
  ASSUME BoundAssumption, Shape, NEW stage \in Stage, stage # "error_handler", NEW append \in BOOLEAN,
         Call(stage, append)
  PROVE  /\ DOMAIN st' = Keys /\ st' = [k \in Keys |-> st'[k]]
         /\ \/ \E u \in Node(stage) :
                 /\ Takes(u, append)
                 /\ Failed(stage) \/ (st'.err = st.err /\ results'[stage].status \in {"completed", "partial"})
            \/ Keeps /\ Failed(stage)
  <1>1. PICK out \in Instrumented(stage) :
               st' = Merge(out.update, append) /\ results' = Record(stage, out.status)
    BY DEF Call
  <1>2. /\ DOMAIN st' = Keys /\ st' = [k \in Keys |-> st'[k]]
        /\ \A k \in Keys : st'[k] = IF k \in DOMAIN out.update THEN Value(out.update, k, append) ELSE st[k]
    BY <1>1, MergeIs DEF Shape
  <1>3. results'[stage].status = out.status
    BY <1>1 DEF Record, Shape
  <1>4. "err" \in Keys
    BY DEF Keys
  <1>5. CASE out.update \in Node(stage) /\ out.status = StatusForUpdate(out.update)
    <2>1. "err" \notin DOMAIN out.update
      BY <1>5, NoError
    <2>2. out.status \in {"completed", "partial"}
      BY <1>5, <2>1 DEF StatusForUpdate, Has
    <2> QED
      BY <1>2, <1>3, <1>4, <1>5, <2>1, <2>2 DEF Takes
  <1>6. ASSUME NEW u \in Node(stage), out.update = WithError(u), out.status = "timeout"
        PROVE  Takes(u, append) /\ Failed(stage)
    <2>1. "err" \notin DOMAIN u
      BY NoError
    <2>2. /\ DOMAIN out.update = DOMAIN u \cup {"err"} /\ out.update["err"] = "stage"
          /\ \A k \in DOMAIN u : out.update[k] = u[k]
      BY <1>6, <2>1 DEF WithError
    <2>3. \A k \in DOMAIN u : Value(out.update, k, append) = Value(u, k, append)
      BY <2>2 DEF Value
    <2>4. Value(out.update, "err", append) = "stage"
      BY <2>2 DEF Value
    <2> QED
      BY <1>2, <1>3, <1>4, <1>6, <2>2, <2>3, <2>4 DEF Takes, Failed, Failure
  <1>7. CASE out.update = [err |-> "stage"] /\ out.status \in Failure
    <2>1. DOMAIN out.update = {"err"} /\ Value(out.update, "err", append) = "stage"
      BY <1>7 DEF Value
    <2> QED
      BY <1>2, <1>3, <1>4, <1>7, <2>1 DEF Keeps, Failed
  <1> QED
    BY <1>2, <1>5, <1>6, <1>7, OutIs DEF Shape

-----------------------------------------------------------------------------
(* What each stage does to the state. *)

\* A stage completes or is partial, or leaves an error.
Ends(stage) ==
  Failed(stage) \/ (st'.err = st.err /\ results'[stage].status \in {"completed", "partial"})

\* The parts of the state a stage leaves alone.
Same(keys) == \A k \in keys : st'[k] = st[k]

LEMMA StateIs ==
  ASSUME st \in State
  PROVE  /\ st.data \in SUBSET Point /\ st.analysis \in AnalysisOf /\ st.verdict \in VerdictOf
         /\ st.round \in 0 .. 3 /\ st.report \in ReportOf /\ st.pack \in PackOf
         /\ st.complexity \in Complexity \cup {"none"} /\ st.decision \in Rework \cup {"none", "approve"}
         /\ st.err \in {"none", "stage", "fatal"}
  BY DEF State

\* The state after a call is one when its parts are.
LEMMA StateNext ==
  ASSUME DOMAIN st' = Keys, st' = [k \in Keys |-> st'[k]],
         st'.data \in SUBSET Point, st'.analysis \in AnalysisOf, st'.verdict \in VerdictOf,
         st'.round \in 0 .. 3, st'.report \in ReportOf, st'.pack \in PackOf,
         st'.complexity \in Complexity \cup {"none"}, st'.decision \in Rework \cup {"none", "approve"},
         st'.err \in {"none", "stage", "fatal"}
  PROVE  st' \in State
  BY DEF State, Keys

LEMMA AttemptsIs ==
  ASSUME NEW points \in SUBSET Point
  PROVE  Attempts(points) \in SUBSET Attempt
  BY DEF Attempts, Point

LEMMA OrchestratorIs ==
  ASSUME BoundAssumption, Shape, NEW append \in BOOLEAN, Call("orchestrator", append)
  PROVE  /\ Ends("orchestrator") /\ st' \in State
         /\ Same({"data", "analysis", "verdict", "round", "report", "pack", "decision"})
  <1>1. /\ DOMAIN st' = Keys /\ st' = [k \in Keys |-> st'[k]]
        /\ \/ \E u \in Orchestrator : Takes(u, append) /\ Ends("orchestrator")
           \/ Keeps /\ Failed("orchestrator")
    BY CallIs DEF Stage, Node, Ends
  <1>2. \A u \in Orchestrator : DOMAIN u = {"complexity"} /\ u.complexity \in Complexity
    BY DEF Orchestrator, BuildReturn, Unparsed, Complexity, Shape
  <1>3. /\ Same({"data", "analysis", "verdict", "round", "report", "pack", "decision"})
        /\ st'.complexity \in Complexity \cup {"none"}
    BY <1>1, <1>2, StateIs DEF Takes, Keeps, Keys, Same, Value, Shape
  <1>4. Ends("orchestrator") /\ st'.err \in {"none", "stage", "fatal"}
    BY <1>1, StateIs DEF Ends, Failed, Shape
  <1> QED
    BY <1>1, <1>3, <1>4, StateIs, StateNext DEF Same, Shape

LEMMA CollectorIs ==
  ASSUME BoundAssumption, Shape, NEW append \in BOOLEAN, Call("collector", append)
  PROVE  /\ Ends("collector") /\ st' \in State
         /\ Same({"analysis", "verdict", "round", "report", "pack", "complexity", "decision"})
  <1>1. /\ DOMAIN st' = Keys /\ st' = [k \in Keys |-> st'[k]]
        /\ \/ \E u \in Collector : Takes(u, append) /\ Ends("collector")
           \/ Keeps /\ Failed("collector")
    BY CallIs DEF Stage, Node, Ends
  <1>2. \A u \in Collector : DOMAIN u = {"data"} /\ u.data \in SUBSET Point
    <2>1. NextAttempt("collector") \in Attempt
      BY ResultIs DEF Stage
    <2>2. \A b \in BOOLEAN : {[by |-> NextAttempt("collector"), bad |-> b]} \in SUBSET Point
      BY <2>1 DEF Point
    <2> QED
      BY <2>2 DEF Collector
  <1>3. Same({"analysis", "verdict", "round", "report", "pack", "complexity", "decision"})
    BY <1>1, <1>2 DEF Takes, Keeps, Keys, Same
  <1>4. st'.data \in SUBSET Point
    BY <1>1, <1>2, StateIs DEF Takes, Keeps, Keys, Value, Shape
  <1>5. Ends("collector") /\ st'.err \in {"none", "stage", "fatal"}
    BY <1>1, StateIs DEF Ends, Failed, Shape
  <1> QED
    BY <1>1, <1>3, <1>4, <1>5, StateIs, StateNext DEF Same, Shape

\* The context pack is of points.
LEMMA PackIs ==
  ASSUME st \in State
  PROVE  Pack \in PackOf
  BY StateIs, AttemptsIs DEF Pack, PackOf

\* The analysis is of the data the analyst was given, unless it failed.
LEMMA AnalystIs ==
  ASSUME BoundAssumption, Shape, NEW append \in BOOLEAN, Call("analyst", append)
  PROVE  /\ Ends("analyst") /\ st' \in State
         /\ Same({"data", "verdict", "round", "report", "complexity", "decision"})
         /\ Failed("analyst") \/ Analysed'
  <1>1. /\ DOMAIN st' = Keys /\ st' = [k \in Keys |-> st'[k]]
        /\ \/ \E u \in Analyst : Takes(u, append) /\ Ends("analyst")
           \/ Keeps /\ Failed("analyst")
    BY CallIs DEF Stage, Node, Ends
  <1>2. \A u \in Analyst : /\ DOMAIN u = {"analysis", "pack", "warning"} /\ u.pack = Pack
                         /\ u.analysis \in AnalysisOf /\ u.analysis.of = Attempts(st.data)
    <2>1. NextAttempt("analyst") \in Attempt /\ Attempts(st.data) \in SUBSET Attempt
      BY ResultIs, StateIs, AttemptsIs DEF Stage, Shape
    <2>2. EmptyAnalysis \in AnalysisOf /\ EmptyAnalysis.of = Attempts(st.data)
      BY <2>1 DEF EmptyAnalysis, AnalysisOf
    <2>3. \A m \in Matrix : \A r \in Retried(m) : r.rated \in SUBSET Product
      BY DEF Matrix, Retried
    <2>4. \A r : r.rated \in SUBSET Product => Analysis(r) \in AnalysisOf /\ Analysis(r).of = Attempts(st.data)
      BY <2>1 DEF Analysis, AnalysisOf
    <2>5. \A r \in UNION {Retried(m) : m \in Matrix} :
             Analysis(r) \in AnalysisOf /\ Analysis(r).of = Attempts(st.data)
      BY <2>3, <2>4
    <2> SUFFICES ASSUME NEW u \in Analyst
                 PROVE  /\ DOMAIN u = {"analysis", "pack", "warning"} /\ u.pack = Pack
                        /\ u.analysis \in AnalysisOf /\ u.analysis.of = Attempts(st.data)
      OBVIOUS
    <2>6. \/ u = [analysis |-> EmptyAnalysis, pack |-> Pack, warning |-> FALSE]
          \/ \E r \in UNION {Retried(m) : m \in Matrix} : \E w \in CoverageWarnings(r) :
               u = [analysis |-> Analysis(r), pack |-> Pack, warning |-> w]
      BY DEF Analyst
    <2> QED
      BY <2>2, <2>5, <2>6
  <1>3. Same({"data", "verdict", "round", "report", "complexity", "decision"})
    BY <1>1, <1>2 DEF Takes, Keeps, Keys, Same
  <1>4. /\ st'.analysis \in AnalysisOf /\ st'.pack \in PackOf
        /\ st'.analysis.of = Attempts(st.data) \/ Failed("analyst")
    BY <1>1, <1>2, StateIs, PackIs DEF Takes, Keeps, Keys, Value, Shape
  <1>5. Ends("analyst") /\ st'.err \in {"none", "stage", "fatal"}
    BY <1>1, StateIs DEF Ends, Failed, Shape
  <1> QED
    BY <1>1, <1>3, <1>4, <1>5, StateIs, StateNext DEF Same, Shape, Analysed

\* A verdict that passes without the loop filter finds nothing to complain about.
Earned == (\A p \in st.data : ~ p.bad) /\ (st.analysis.cells => st.analysis.rated = Product)

LEMMA VerdictIs ==
  ASSUME st \in State, NEW c \in ContradictionGaps,
         NEW v, v = Verdict(FilterLoopGaps(UrlGaps \cup AllNaGaps \cup c))
  PROVE  /\ v \in VerdictOf
         /\ v.passed => st.round < 3
         /\ v.passed /\ st.round < 2 => Earned
  <1> DEFINE found == UrlGaps \cup AllNaGaps \cup c
  <1>1. found \in SUBSET GapKind
    BY DEF UrlGaps, AllNaGaps, ContradictionGaps, GapKind
  <1>2. FilterLoopGaps(found) \in SUBSET Gap
    <2>1. \A a : Repeated(a) \in BOOLEAN
      BY DEF Repeated
    <2>2. \A a \in GapKind : [about |-> a, loop |-> Repeated(a)] \in Gap
      BY <2>1 DEF Gap
    <2> HIDE DEF found
    <2> QED
      BY <1>1, <2>2 DEF FilterLoopGaps
  <1>3. v.gaps = FilterLoopGaps(found) /\ v.passed = ((\A g \in v.gaps : g.loop) /\ st.round < 3) /\ v.given
    BY DEF Verdict
  <1>4. v = [given |-> TRUE, passed |-> (\A g \in FilterLoopGaps(found) : g.loop) /\ st.round < 3,
             gaps |-> FilterLoopGaps(found)]
    BY DEF Verdict
  <1>5. v \in VerdictOf
    <2>1. PICK gs \in SUBSET Gap : \/ v = [given |-> TRUE, passed |-> TRUE, gaps |-> gs]
                                \/ v = [given |-> TRUE, passed |-> FALSE, gaps |-> gs]
      BY <1>2, <1>4
    <2>2. \A b \in BOOLEAN : [given |-> TRUE, passed |-> b, gaps |-> gs] \in VerdictOf
      BY DEF VerdictOf
    <2> QED
      BY <2>1, <2>2
  <1>6. ASSUME v.passed, st.round < 2
        PROVE  Earned
    <2>1. \A a \in found : ~ Repeated(a)
      BY <1>6, StateIs DEF Repeated
    <2>2. \A a \in found : [about |-> a, loop |-> Repeated(a)] \in v.gaps
      BY <1>3 DEF FilterLoopGaps
    <2>3. found = {}
      BY <1>3, <1>6, <2>1, <2>2
    <2>4. UrlGaps = {} /\ AllNaGaps = {}
      BY <2>3
    <2>5. \A p \in st.data : ~ p.bad
      BY <2>4 DEF UrlGaps
    <2>6. st.analysis.cells => st.analysis.rated = Product
      BY <2>4, StateIs DEF AllNaGaps, AnalysisOf
    <2> QED
      BY <2>5, <2>6 DEF Earned
  <1> QED
    BY <1>3, <1>5, <1>6

LEMMA ReviewerIs ==
  ASSUME BoundAssumption, Shape, NEW append \in BOOLEAN, Call("reviewer", append), st.round < 3
  PROVE  /\ Ends("reviewer") /\ st' \in State
         /\ Same({"data", "analysis", "report", "complexity", "decision"})
         /\ \/ st'.verdict = st.verdict /\ st'.round = st.round /\ Failed("reviewer")
            \/ st'.verdict.passed /\ st'.round = st.round /\ (st.round < 2 => Earned)
            \/ ~ st'.verdict.passed /\ st'.round = st.round + 1
  <1>1. /\ DOMAIN st' = Keys /\ st' = [k \in Keys |-> st'[k]]
        /\ \/ \E u \in Reviewer : Takes(u, append) /\ Ends("reviewer")
           \/ Keeps /\ Failed("reviewer")
    BY CallIs DEF Stage, Node, Ends
  <1>2. \A u \in Reviewer :
          /\ DOMAIN u = {"verdict", "round", "pack"} /\ u.pack = Pack /\ u.verdict \in VerdictOf
          /\ u.round = IF u.verdict.passed THEN st.round ELSE st.round + 1
          /\ u.verdict.passed /\ st.round < 2 => Earned
    <2> SUFFICES ASSUME NEW u \in Reviewer
                 PROVE  /\ DOMAIN u = {"verdict", "round", "pack"} /\ u.pack = Pack /\ u.verdict \in VerdictOf
                        /\ u.round = IF u.verdict.passed THEN st.round ELSE st.round + 1
                        /\ u.verdict.passed /\ st.round < 2 => Earned
      OBVIOUS
    <2>1. PICK c \in ContradictionGaps : u = Reviewed(Verdict(FilterLoopGaps(UrlGaps \cup AllNaGaps \cup c)))
      BY DEF Reviewer
    <2>2. PICK v : v = Verdict(FilterLoopGaps(UrlGaps \cup AllNaGaps \cup c)) /\ u = Reviewed(v)
      BY <2>1
    <2>3. v \in VerdictOf /\ (v.passed /\ st.round < 2 => Earned)
      BY <2>2, VerdictIs DEF Shape
    <2> QED
      BY <2>2, <2>3 DEF Reviewed
  <1>3. Same({"data", "analysis", "report", "complexity", "decision"})
    BY <1>1, <1>2 DEF Takes, Keeps, Keys, Same
  <1>4. /\ st'.verdict \in VerdictOf /\ st'.pack \in PackOf /\ st'.round \in 0 .. 3
        /\ \/ st'.verdict = st.verdict /\ st'.round = st.round /\ Failed("reviewer")
           \/ st'.verdict.passed /\ st'.round = st.round /\ (st.round < 2 => Earned)
           \/ ~ st'.verdict.passed /\ st'.round = st.round + 1
    <2>1. st.verdict \in VerdictOf /\ st.pack \in PackOf /\ st.round \in 0 .. 2 /\ Pack \in PackOf
      BY StateIs, PackIs DEF Shape
    <2>2. CASE Keeps /\ Failed("reviewer")
      BY <2>1, <2>2 DEF Keeps, Keys
    <2>3. ASSUME NEW u \in Reviewer, Takes(u, append)
          PROVE  st'.verdict = u.verdict /\ st'.pack = u.pack /\ st'.round = u.round
      BY <1>2, <2>3 DEF Takes, Keys, Value
    <2>4. CASE \E u \in Reviewer : Takes(u, append)
      BY <1>2, <2>1, <2>3, <2>4
    <2> QED
      BY <1>1, <2>2, <2>4
  <1>5. Ends("reviewer") /\ st'.err \in {"none", "stage", "fatal"}
    BY <1>1, StateIs DEF Ends, Failed, Shape
  <1> QED
    BY <1>1, <1>3, <1>4, <1>5, StateIs, StateNext DEF Same, Shape

\* The report is of the analysis in the state.
LEMMA WriterIs ==
  ASSUME BoundAssumption, Shape, NEW append \in BOOLEAN, Call("writer", append)
  PROVE  /\ Ends("writer") /\ st' \in State
         /\ Same({"data", "analysis", "verdict", "round", "pack", "complexity", "decision"})
         /\ Written' \/ (st'.report = st.report /\ Failed("writer"))
  <1>1. /\ DOMAIN st' = Keys /\ st' = [k \in Keys |-> st'[k]]
        /\ \/ \E u \in Writer : Takes(u, append) /\ Ends("writer")
           \/ Keeps /\ Failed("writer")
    BY CallIs DEF Stage, Node, Ends
  <1>2. \A u \in Writer : DOMAIN u = {"report"} /\ u.report = [exists |-> TRUE, from |-> st.analysis.id]
    BY DEF Writer
  <1>3. Same({"data", "analysis", "verdict", "round", "pack", "complexity", "decision"})
    BY <1>1, <1>2 DEF Takes, Keeps, Keys, Same
  <1>4. \/ st'.report = [exists |-> TRUE, from |-> st.analysis.id]
        \/ st'.report = st.report /\ Failed("writer")
    BY <1>1, <1>2 DEF Takes, Keeps, Keys, Value
  <1>5. st'.report \in ReportOf
    <2>1. st.report \in ReportOf /\ st.analysis \in AnalysisOf
      BY StateIs DEF Shape
    <2>2. [exists |-> TRUE, from |-> st.analysis.id] \in ReportOf
      BY <2>1 DEF ReportOf, AnalysisOf
    <2> QED
      BY <1>4, <2>1, <2>2
  <1>6. Written' \/ (st'.report = st.report /\ Failed("writer"))
    BY <1>3, <1>4 DEF Written, Same
  <1>7. Ends("writer") /\ st'.err \in {"none", "stage", "fatal"}
    BY <1>1, StateIs DEF Ends, Failed, Shape
  <1> QED
    BY <1>1, <1>3, <1>5, <1>6, <1>7, StateIs, StateNext DEF Same, Shape

LEMMA HitlGateIs ==
  ASSUME BoundAssumption, Shape, NEW append \in BOOLEAN, Call("hitl_gate", append)
  PROVE  /\ Ends("hitl_gate") /\ st' \in State
         /\ Same({"data", "analysis", "verdict", "round", "report", "pack", "complexity"})
         /\ \/ st'.decision = IF st.decision = "none" THEN "approve" ELSE st.decision
            \/ st'.decision = st.decision /\ Failed("hitl_gate")
  <1>1. /\ DOMAIN st' = Keys /\ st' = [k \in Keys |-> st'[k]]
        /\ \/ \E u \in HitlGate : Takes(u, append) /\ Ends("hitl_gate")
           \/ Keeps /\ Failed("hitl_gate")
    BY CallIs DEF Stage, Node, Ends
  <1>2. \A u \in HitlGate : /\ DOMAIN u = {"decision"}
                          /\ u.decision = IF st.decision = "none" THEN "approve" ELSE st.decision
    BY DEF HitlGate
  <1>3. Same({"data", "analysis", "verdict", "round", "report", "pack", "complexity"})
    BY <1>1, <1>2 DEF Takes, Keeps, Keys, Same
  <1>4. /\ \/ st'.decision = IF st.decision = "none" THEN "approve" ELSE st.decision
           \/ st'.decision = st.decision /\ Failed("hitl_gate")
        /\ st'.decision \in Rework \cup {"none", "approve"}
    BY <1>1, <1>2, StateIs DEF Takes, Keeps, Keys, Value, Shape
  <1>5. Ends("hitl_gate") /\ st'.err \in {"none", "stage", "fatal"}
    BY <1>1, StateIs DEF Ends, Failed, Shape
  <1> QED
    BY <1>1, <1>3, <1>4, <1>5, StateIs, StateNext DEF Same, Shape

\* The error handler clears the error only as a partial stage, and touches no report then.
LEMMA ErrorHandlerIs ==
  ASSUME BoundAssumption, Shape, NEW append \in BOOLEAN, Call("error_handler", append)
  PROVE  /\ st' \in State
         /\ Same({"data", "analysis", "verdict", "round", "pack", "complexity"})
         /\ st'.decision \in {st.decision, "approve"}
         /\ st'.err = "none" =>
              st'.report = st.report /\ results'["error_handler"].status = "partial"
  <1>1. PICK out \in Instrumented("error_handler") :
               st' = Merge(out.update, append) /\ results' = Record("error_handler", out.status)
    BY DEF Call
  <1>2. /\ DOMAIN st' = Keys /\ st' = [k \in Keys |-> st'[k]]
        /\ \A k \in Keys : st'[k] = IF k \in DOMAIN out.update THEN Value(out.update, k, append) ELSE st[k]
    BY <1>1, MergeIs DEF Shape
  <1>3. results'["error_handler"].status = out.status
    BY <1>1 DEF Record, Shape, Stage
  <1>4. Node("error_handler") \subseteq {DegradedContinue, GracefulStop}
    BY DEF Node, ErrorHandler
  <1>5. /\ DOMAIN DegradedContinue = {"err", "decision", "warning"} /\ DegradedContinue.err = "none"
        /\ DegradedContinue.decision = "approve" /\ DegradedContinue.warning
        /\ StatusForUpdate(DegradedContinue) = "partial"
    BY DEF DegradedContinue, StatusForUpdate, Has
  <1>6. /\ DOMAIN GracefulStop = {"err", "decision", "report"} /\ GracefulStop.err = "fatal"
        /\ GracefulStop.decision = "approve" /\ GracefulStop.report = [exists |-> TRUE, from |-> 0]
    BY DEF GracefulStop
  <1>7. [exists |-> TRUE, from |-> 0] \in ReportOf
    BY DEF ReportOf, Attempt, BoundAssumption
  <1> DEFINE Good == /\ Same({"data", "analysis", "verdict", "round", "pack", "complexity"})
                     /\ st'.decision \in {st.decision, "approve"} /\ st'.report \in ReportOf
                     /\ st'.err \in {"none", "stage", "fatal"}
                     /\ st'.err = "none" =>
                          st'.report = st.report /\ results'["error_handler"].status = "partial"
  <1>0. st.report \in ReportOf /\ st.err \in {"none", "stage", "fatal"}
    BY StateIs DEF Shape
  <1>8. ASSUME out.update = DegradedContinue, out.status = "partial"
        PROVE  Good
    <2>1. Same({"data", "analysis", "verdict", "round", "pack", "complexity", "report"})
      BY <1>2, <1>5, <1>8 DEF Same, Keys
    <2>2. st'.decision = "approve" /\ st'.err = "none"
      BY <1>2, <1>5, <1>8 DEF Keys, Value
    <2> QED
      BY <1>0, <1>3, <1>8, <2>1, <2>2 DEF Same
  <1>9. ASSUME out.update = GracefulStop
        PROVE  Good
    <2>1. Same({"data", "analysis", "verdict", "round", "pack", "complexity"})
      BY <1>2, <1>6, <1>9 DEF Same, Keys
    <2>2. st'.decision = "approve" /\ st'.err = "fatal" /\ st'.report = [exists |-> TRUE, from |-> 0]
      BY <1>2, <1>6, <1>9 DEF Keys, Value
    <2> QED
      BY <1>7, <2>1, <2>2 DEF Same
  <1>10. ASSUME NEW u \in {DegradedContinue, GracefulStop}, out.update = WithError(u)
         PROVE  Good
    <2>1. /\ DOMAIN out.update = DOMAIN u /\ out.update["err"] = "stage"
          /\ \A k \in DOMAIN u \ {"err"} : out.update[k] = u[k]
      BY <1>5, <1>6, <1>10 DEF WithError
    <2>2. st'.err = "stage"
      BY <1>2, <1>5, <1>6, <2>1 DEF Keys, Value
    <2>3. Same({"data", "analysis", "verdict", "round", "pack", "complexity"})
      BY <1>2, <1>5, <1>6, <2>1 DEF Same, Keys
    <2>4. st'.decision = "approve"
      BY <1>2, <1>5, <1>6, <2>1 DEF Keys, Value
    <2>5. st'.report \in {st.report, [exists |-> TRUE, from |-> 0]}
      BY <1>2, <1>5, <1>6, <2>1 DEF Keys, Value
    <2> QED
      BY <1>0, <1>7, <2>2, <2>3, <2>4, <2>5
  <1>11. ASSUME out.update = [err |-> "stage"]
         PROVE  Good
    <2>1. Same({"data", "analysis", "verdict", "round", "pack", "complexity", "decision", "report"})
      BY <1>2, <1>11 DEF Same, Keys
    <2>2. st'.err = "stage"
      BY <1>2, <1>11 DEF Keys, Value
    <2> QED
      BY <1>0, <2>1, <2>2 DEF Same
  <1>12. Good
    <2>1. \/ out.update \in Node("error_handler") /\ out.status = StatusForUpdate(out.update)
          \/ \E u \in Node("error_handler") : out.update = WithError(u)
          \/ out.update = [err |-> "stage"]
      BY OutIs DEF Stage, Shape
    <2> HIDE DEF Good
    <2>2. CASE out.update \in Node("error_handler") /\ out.status = StatusForUpdate(out.update)
      <3>1. CASE out.update = DegradedContinue
        BY <1>5, <1>8, <2>2, <3>1
      <3>2. CASE out.update = GracefulStop
        BY <1>9, <3>2
      <3> QED
        BY <1>4, <2>2, <3>1, <3>2
    <2>3. CASE \E u \in Node("error_handler") : out.update = WithError(u)
      BY <1>4, <1>10, <2>3
    <2> QED
      BY <1>11, <2>1, <2>2, <2>3
  <1>13. st'.decision \in Rework \cup {"none", "approve"}
    BY <1>12, StateIs DEF Shape
  <1> QED
    BY <1>2, <1>12, <1>13, StateIs, StateNext DEF Same, Shape

-----------------------------------------------------------------------------
(* The steps of the graph. *)

\* The graph calls the stage it has come to.
LEMMA GraphCalls ==
  ASSUME GraphStep, NEW stage, todo = <<stage>>
  PROVE  /\ phase = "graph" /\ phase' = "graph" /\ todo[1] = stage /\ todo # <<>> /\ Call(stage, TRUE)
         /\ todo' = IF Route(stage, st', results') = "end" THEN <<>> ELSE <<Route(stage, st', results')>>
         /\ UNCHANGED <<brief, outcome, versions, decisions>>
  <1>1. Head(todo) = stage /\ todo[1] = stage /\ todo # <<>>
    OBVIOUS
  <1>2. Call(stage, TRUE)
    BY <1>1 DEF GraphStep, Call
  <1>3. todo' = IF Route(stage, st', results') = "end" THEN <<>> ELSE <<Route(stage, st', results')>>
    BY <1>1 DEF GraphStep
  <1> QED
    BY <1>1, <1>2, <1>3 DEF GraphStep

\* Where the graph goes behind a stage that is not the error handler.
LEMMA GraphCall ==
  ASSUME BoundAssumption, IInv, GraphStep, NEW stage \in Stage, stage # "error_handler", todo = <<stage>>,
         Ends(stage)
  PROVE  \/ Failed(stage) /\ todo' = <<"error_handler">>
         \/ /\ st'.err = "none" /\ NoFailure'
            /\ todo' = IF RouteOf(stage, st') = "end" THEN <<>> ELSE <<RouteOf(stage, st')>>
  <1>1. todo[1] = stage /\ todo # <<>> /\ phase = "graph" /\ Call(stage, TRUE)
    BY GraphCalls
  <1>2. st.err = "none" /\ NoFailure
    BY <1>1 DEF IInv, GraphReports
  <1>3. todo' = IF Route(stage, st', results') = "end" THEN <<>> ELSE <<Route(stage, st', results')>>
    BY GraphCalls
  <1>4. CASE Failed(stage)
    <2>1. Route(stage, st', results') = "error_handler"
      BY <1>4 DEF Route, StageFailed, Failed
    <2> QED
      BY <1>3, <1>4, <2>1
  <1>5. CASE st'.err = st.err /\ results'[stage].status \in {"completed", "partial"}
    <2>1. \A s \in Stage : s # stage => results'[s] = results[s]
      BY <1>1, ResultIs DEF IInv
    <2>2. NoFailure'
      BY <1>2, <1>5, <2>1 DEF NoFailure, Failure
    <2>3. Route(stage, st', results') = RouteOf(stage, st')
      BY <1>2, <1>5, <2>2 DEF Route, StageFailed, NoFailure
    <2> QED
      BY <1>2, <1>3, <1>5, <2>2, <2>3
  <1> QED
    BY <1>4, <1>5 DEF Ends

\* The parts of the invariant that speak of other phases, and the shape.
LEMMA GraphRest ==
  ASSUME BoundAssumption, IInv, GraphStep, NEW stage \in Stage, todo = <<stage>>, st' \in State,
         st'.decision \in {"none", "approve"},
         todo' = <<>> \/ \E s \in Stage : todo' = <<s>>
  PROVE  Shape' /\ Phases' /\ RerunReports' /\ EndIsClean'
  <1>1. /\ phase = "graph" /\ phase' = "graph" /\ Call(stage, TRUE)
        /\ UNCHANGED <<brief, outcome, versions, decisions>>
    BY GraphCalls
  <1>2. results' \in [Stage -> Result] /\ faults' \in 0 .. MaxFaults
    BY <1>1, ResultIs DEF IInv
  <1>3. Shape'
    BY <1>1, <1>2 DEF IInv, Shape
  <1>4. Phases' /\ outcome' = "none"
    BY <1>1 DEF IInv, Phases
  <1> QED
    BY <1>1, <1>3, <1>4 DEF RerunReports, EndIsClean

\* How the counters of the stages move.
LEMMA CountIs ==
  ASSUME BoundAssumption, Shape, NEW stage \in Stage, NEW append \in BOOLEAN, Call(stage, append)
  PROVE  /\ \A s \in Stage : N(s) \in Nat /\ N(s)' \in Nat /\ (s # stage => N(s)' = N(s))
         /\ N(stage) < MaxAttempts => N(stage)' = N(stage) + 1
  <1>1. \A s \in Stage : results[s] \in Result /\ results'[s] \in Result
    BY ResultIs DEF Shape
  <1>2. /\ results'[stage].n = NextAttempt(stage)
        /\ \A s \in Stage : s # stage => results'[s] = results[s]
    BY ResultIs
  <1> QED
    BY <1>1, <1>2 DEF N, Result, Attempt, BoundAssumption, NextAttempt, Next1

LEMMA CapIs ==
  ASSUME NEW c
  PROVE  Cap(c) \in 1 .. 3
  BY DEF Cap

LEMMA GraphOrchestrator ==
  ASSUME BoundAssumption, IInv, GraphStep, todo = <<"orchestrator">>
  PROVE  IInv'
  <1>1. phase = "graph" /\ phase' = "graph" /\ todo[1] = "orchestrator" /\ todo # <<>> /\ Call("orchestrator", TRUE)
    BY GraphCalls
  <1>2. /\ Ends("orchestrator") /\ st' \in State
        /\ Same({"data", "analysis", "verdict", "round", "report", "pack", "decision"})
    BY <1>1, OrchestratorIs DEF IInv
  <1>3. \/ Failed("orchestrator") /\ todo' = <<"error_handler">>
        \/ st'.err = "none" /\ NoFailure' /\ todo' = <<"collector">>
    BY <1>2, GraphCall DEF Stage, RouteOf, RouteAfterOrchestrator
  <1>4. Shape' /\ Phases' /\ RerunReports' /\ EndIsClean'
    <2>1. st'.decision \in {"none", "approve"}
      BY <1>1, <1>2 DEF IInv, Phases, Same
    <2> QED
      BY <1>2, <1>3, <2>1, GraphRest DEF Stage
  <1>5. Rounds'
    <2>1. \A s \in Stage : N(s) \in Nat /\ N(s)' \in Nat /\ (s # "orchestrator" => N(s)' = N(s))
      BY <1>1, CountIs DEF IInv, Stage
    <2> QED
      BY <1>1, <1>2, <1>3, <2>1, CapIs DEF IInv, Rounds, Same, Stage
  <1>6. Verdicts' /\ PassedIsEarned'
    BY <1>1, <1>2, <1>3 DEF IInv, Verdicts, PassedIsEarned, Same, BeforeReview
  <1>7. GraphReports'
    BY <1>1, <1>2, <1>3 DEF IInv, GraphReports, BeforeReview, Same
  <1> QED
    BY <1>4, <1>5, <1>6, <1>7 DEF IInv

LEMMA GraphCollector ==
  ASSUME BoundAssumption, IInv, GraphStep, todo = <<"collector">>
  PROVE  IInv'
  <1>1. phase = "graph" /\ phase' = "graph" /\ todo[1] = "collector" /\ todo # <<>> /\ Call("collector", TRUE)
    BY GraphCalls
  <1>2. /\ Ends("collector") /\ st' \in State
        /\ Same({"analysis", "verdict", "round", "report", "pack", "complexity", "decision"})
    BY <1>1, CollectorIs DEF IInv
  <1>3. \/ Failed("collector") /\ todo' = <<"error_handler">>
        \/ st'.err = "none" /\ NoFailure' /\ todo' \in {<<"analyst">>, <<"error_handler">>}
    BY <1>2, GraphCall DEF Stage, RouteOf, RouteAfterCollector
  <1>4. Shape' /\ Phases' /\ RerunReports' /\ EndIsClean'
    <2>1. st'.decision \in {"none", "approve"}
      BY <1>1, <1>2 DEF IInv, Phases, Same
    <2> QED
      BY <1>2, <1>3, <2>1, GraphRest DEF Stage
  <1>5. Rounds'
    <2>1. /\ \A s \in Stage : N(s) \in Nat /\ N(s)' \in Nat /\ (s # "collector" => N(s)' = N(s))
          /\ N("collector") < MaxAttempts => N("collector")' = N("collector") + 1
      BY <1>1, CountIs DEF IInv, Stage
    <2>2. N("collector") = st.round /\ N("reviewer") = st.round /\ st.round < Cap(st.complexity)
      BY <1>1 DEF IInv, Rounds
    <2>3. Cap(st.complexity) \in 1 .. 3 /\ st'.complexity = st.complexity /\ st'.round = st.round
      BY <1>2, CapIs DEF Same
    <2>4. N("collector")' = st.round + 1
      BY <2>1, <2>2, <2>3 DEF BoundAssumption, Stage
    <2> QED
      BY <1>1, <1>3, <2>1, <2>2, <2>3, <2>4 DEF IInv, Rounds, Stage
  <1>6. Verdicts' /\ PassedIsEarned'
    BY <1>1, <1>2, <1>3 DEF IInv, Verdicts, PassedIsEarned, Same, BeforeReview
  <1>7. GraphReports'
    BY <1>1, <1>2, <1>3 DEF IInv, GraphReports, BeforeReview, Same
  <1> QED
    BY <1>4, <1>5, <1>6, <1>7 DEF IInv

LEMMA GraphAnalyst ==
  ASSUME BoundAssumption, IInv, GraphStep, todo = <<"analyst">>
  PROVE  IInv'
  <1>1. phase = "graph" /\ phase' = "graph" /\ todo[1] = "analyst" /\ todo # <<>> /\ Call("analyst", TRUE)
    BY GraphCalls
  <1>2. /\ Ends("analyst") /\ st' \in State
        /\ Same({"data", "verdict", "round", "report", "complexity", "decision"})
        /\ Failed("analyst") \/ Analysed'
    BY <1>1, AnalystIs DEF IInv
  <1>3. \/ Failed("analyst") /\ todo' = <<"error_handler">>
        \/ st'.err = "none" /\ NoFailure' /\ todo' = <<"reviewer">>
    BY <1>2, GraphCall DEF Stage, RouteOf, RouteAfterAnalyst
  <1>4. Shape' /\ Phases' /\ RerunReports' /\ EndIsClean'
    <2>1. st'.decision \in {"none", "approve"}
      BY <1>1, <1>2 DEF IInv, Phases, Same
    <2> QED
      BY <1>2, <1>3, <2>1, GraphRest DEF Stage
  <1>5. Rounds'
    <2>1. /\ \A s \in Stage : N(s) \in Nat /\ N(s)' \in Nat /\ (s # "analyst" => N(s)' = N(s))
          /\ N("analyst") < MaxAttempts => N("analyst")' = N("analyst") + 1
      BY <1>1, CountIs DEF IInv, Stage
    <2>2. /\ N("collector") = st.round + 1 /\ N("analyst") = st.round /\ N("reviewer") = st.round
          /\ N("collector") <= Cap(st.complexity)
      BY <1>1 DEF IInv, Rounds
    <2>3. Cap(st.complexity) \in 1 .. 3 /\ st'.complexity = st.complexity /\ st'.round = st.round
      BY <1>2, CapIs DEF Same
    <2>4. N("analyst")' = st.round + 1 /\ N("analyst") \in Nat
      BY <2>1, <2>2, <2>3 DEF BoundAssumption, Stage
    <2> QED
      BY <1>1, <1>3, <2>1, <2>2, <2>3, <2>4 DEF IInv, Rounds, Stage
  <1>6. Verdicts' /\ PassedIsEarned'
    BY <1>1, <1>2, <1>3 DEF IInv, Verdicts, PassedIsEarned, Same, BeforeReview
  <1>7. GraphReports'
    BY <1>1, <1>2, <1>3 DEF IInv, GraphReports, BeforeReview, Same, Failed, Failure
  <1> QED
    BY <1>4, <1>5, <1>6, <1>7 DEF IInv

LEMMA GraphReviewer ==
  ASSUME BoundAssumption, IInv, GraphStep, todo = <<"reviewer">>
  PROVE  IInv'
  <1>1. phase = "graph" /\ phase' = "graph" /\ todo[1] = "reviewer" /\ todo # <<>> /\ Call("reviewer", TRUE)
    BY GraphCalls
  <1>2. /\ N("collector") = st.round + 1 /\ N("analyst") = st.round + 1 /\ N("reviewer") = st.round
        /\ N("collector") <= Cap(st.complexity)
    BY <1>1 DEF IInv, Rounds
  <1>3. st.round \in 0 .. 2 /\ Cap(st.complexity) \in 1 .. 3
    BY <1>2, CapIs, StateIs DEF IInv, Shape
  <1>4. /\ Ends("reviewer") /\ st' \in State
        /\ Same({"data", "analysis", "report", "complexity", "decision"})
        /\ \/ st'.verdict = st.verdict /\ st'.round = st.round /\ Failed("reviewer")
           \/ st'.verdict.passed /\ st'.round = st.round /\ (st.round < 2 => Earned)
           \/ ~ st'.verdict.passed /\ st'.round = st.round + 1
    <2>1. Shape /\ st.round < 3 /\ TRUE \in BOOLEAN
      BY <1>3 DEF IInv
    <2> QED
      BY <1>1, <2>1, ReviewerIs, Zenon
  <1>5. \/ Failed("reviewer") /\ todo' = <<"error_handler">>
        \/ /\ st'.err = "none" /\ NoFailure'
           /\ \/ todo' = <<"writer">>
              \/ todo' = <<"collector">> /\ ~ st'.verdict.passed /\ st'.round < Cap(st'.complexity)
    <2>1. RouteOf("reviewer", st') = IF st'.verdict.passed \/ st'.round >= Cap(st'.complexity)
                                     THEN "writer" ELSE "collector"
      BY DEF RouteOf, RouteAfterReviewer
    <2>2. Cap(st'.complexity) \in 1 .. 3 /\ st'.round \in 0 .. 3
      BY <1>4, CapIs, StateIs DEF State
    <2>3. \/ Failed("reviewer") /\ todo' = <<"error_handler">>
          \/ /\ st'.err = "none" /\ NoFailure'
             /\ todo' = IF RouteOf("reviewer", st') = "end" THEN <<>> ELSE <<RouteOf("reviewer", st')>>
      BY <1>4, GraphCall DEF Stage
    <2> QED
      BY <2>1, <2>2, <2>3
  <1>6. ~ st.verdict.passed /\ ~ st.report.exists /\ Analysed
    BY <1>1 DEF IInv, Verdicts, GraphReports, BeforeReview
  <1>7. Shape' /\ Phases' /\ RerunReports' /\ EndIsClean'
    <2>1. st'.decision \in {"none", "approve"}
      BY <1>1, <1>4 DEF IInv, Phases, Same
    <2> QED
      BY <1>4, <1>5, <2>1, GraphRest DEF Stage
  <1>8. Rounds'
    <2>1. /\ \A s \in Stage : N(s) \in Nat /\ N(s)' \in Nat /\ (s # "reviewer" => N(s)' = N(s))
          /\ N("reviewer") < MaxAttempts => N("reviewer")' = N("reviewer") + 1
      BY <1>1, CountIs DEF IInv, Stage
    <2>2. N("reviewer")' = st.round + 1 /\ N("collector")' = st.round + 1 /\ N("analyst")' = st.round + 1
      BY <1>2, <1>3, <2>1 DEF BoundAssumption, Stage
    <2>3. st'.complexity = st.complexity
      BY <1>4 DEF Same
    <2>4. todo' = <<"collector">> => st'.round = st.round + 1 /\ st'.round < Cap(st'.complexity)
      BY <1>4, <1>5, <1>6 DEF Failed
    <2>5. todo' \in {<<"error_handler">>, <<"writer">>, <<"collector">>}
      BY <1>5
    <2> QED
      BY <1>2, <1>3, <2>2, <2>3, <2>4, <2>5 DEF Rounds
  <1>9. PassedIsEarned'
    BY <1>4, <1>6 DEF PassedIsEarned, Earned, Same
  <1>10. Verdicts'
    BY <1>1, <1>5 DEF Verdicts, BeforeReview
  <1>11. GraphReports'
    BY <1>4, <1>5, <1>6 DEF GraphReports, BeforeReview, Same, Analysed
  <1> QED
    BY <1>7, <1>8, <1>9, <1>10, <1>11 DEF IInv

\* Behind the reviewer no counter matters any more.
LEMMA RoundsOver ==
  ASSUME BoundAssumption, IInv, phase = "graph", NEW stage \in {"writer", "hitl_gate", "error_handler"},
         Call(stage, TRUE), st'.complexity = st.complexity,
         todo' \in {<<>>, <<"hitl_gate">>, <<"error_handler">>}
  PROVE  Rounds'
  <1>1. \A s \in Stage : N(s) \in Nat /\ N(s)' \in Nat /\ (s # stage => N(s)' = N(s))
    BY CountIs DEF IInv, Stage
  <1>2. N("reviewer")' = N("reviewer") /\ N("analyst")' = N("analyst") /\ N("collector")' = N("collector")
    BY <1>1 DEF Stage
  <1>3. /\ N("reviewer") <= N("analyst") /\ N("analyst") <= N("collector")
        /\ N("collector") <= Cap(st.complexity)
    BY DEF IInv, Rounds
  <1>4. todo' \notin {<<"orchestrator">>, <<"collector">>, <<"analyst">>, <<"reviewer">>}
    <2>1. CASE todo' = <<>>
      <3>1. \A s : <<>> # <<s>>
        OBVIOUS
      <3> QED
        BY <2>1, <3>1
    <2>2. CASE todo' = <<"hitl_gate">>
      BY <2>2
    <2>3. CASE todo' = <<"error_handler">>
      BY <2>3
    <2> QED
      BY <2>1, <2>2, <2>3
  <1>5. /\ N("reviewer")' <= N("analyst")' /\ N("analyst")' <= N("collector")'
        /\ N("collector")' <= Cap(st'.complexity)
    BY <1>2, <1>3
  <1> QED
    BY <1>4, <1>5 DEF Rounds

LEMMA GraphWriter ==
  ASSUME BoundAssumption, IInv, GraphStep, todo = <<"writer">>
  PROVE  IInv'
  <1>1. phase = "graph" /\ phase' = "graph" /\ todo[1] = "writer" /\ todo # <<>> /\ Call("writer", TRUE)
    BY GraphCalls
  <1>2. /\ Ends("writer") /\ st' \in State
        /\ Same({"data", "analysis", "verdict", "round", "pack", "complexity", "decision"})
        /\ Written' \/ (st'.report = st.report /\ Failed("writer"))
    BY <1>1, WriterIs DEF IInv
  <1>3. \/ Failed("writer") /\ todo' = <<"error_handler">>
        \/ st'.err = "none" /\ NoFailure' /\ todo' = <<"hitl_gate">>
    BY <1>2, GraphCall DEF Stage, RouteOf, RouteAfterWriter
  <1>4. Shape' /\ Phases' /\ RerunReports' /\ EndIsClean'
    <2>1. st'.decision \in {"none", "approve"}
      BY <1>1, <1>2 DEF IInv, Phases, Same
    <2> QED
      BY <1>2, <1>3, <2>1, GraphRest DEF Stage
  <1>5. Rounds'
    BY <1>1, <1>2, <1>3, RoundsOver DEF Same
  <1>6. Verdicts' /\ PassedIsEarned'
    BY <1>1, <1>2, <1>3 DEF IInv, Verdicts, PassedIsEarned, Same, BeforeReview
  <1>7. GraphReports'
    <2>1. ~ st.report.exists /\ Analysed
      BY <1>1 DEF IInv, GraphReports
    <2>2. Analysed'
      BY <1>2, <2>1 DEF Same, Analysed
    <2>3. st'.report.exists => Written'
      BY <1>2, <2>1
    <2>4. Failed("writer") => ~ NoFailure' /\ st'.err = "stage"
      BY DEF Failed, NoFailure, Stage
    <2> QED
      BY <1>3, <2>2, <2>3, <2>4 DEF GraphReports, BeforeReview
  <1> QED
    BY <1>4, <1>5, <1>6, <1>7 DEF IInv

LEMMA GraphHitl ==
  ASSUME BoundAssumption, IInv, GraphStep, todo = <<"hitl_gate">>
  PROVE  IInv'
  <1>1. phase = "graph" /\ phase' = "graph" /\ todo[1] = "hitl_gate" /\ todo # <<>> /\ Call("hitl_gate", TRUE)
    BY GraphCalls
  <1>2. /\ Ends("hitl_gate") /\ st' \in State
        /\ Same({"data", "analysis", "verdict", "round", "report", "pack", "complexity"})
        /\ \/ st'.decision = IF st.decision = "none" THEN "approve" ELSE st.decision
           \/ st'.decision = st.decision /\ Failed("hitl_gate")
    BY <1>1, HitlGateIs DEF IInv
  <1>3. st.decision \in {"none", "approve"} /\ st'.decision \in {"none", "approve"}
    BY <1>1, <1>2 DEF IInv, Phases
  <1>4. \/ Failed("hitl_gate") /\ todo' = <<"error_handler">>
        \/ st'.err = "none" /\ NoFailure' /\ todo' = <<>>
    BY <1>2, <1>3, GraphCall DEF Stage, RouteOf, RouteAfterHitl
  <1>5. Shape' /\ Phases' /\ RerunReports' /\ EndIsClean'
    BY <1>2, <1>3, <1>4, GraphRest DEF Stage
  <1>6. Rounds'
    BY <1>1, <1>2, <1>4, RoundsOver DEF Same
  <1>7. Verdicts' /\ PassedIsEarned'
    BY <1>1, <1>2, <1>4 DEF IInv, Verdicts, PassedIsEarned, Same, BeforeReview
  <1>8. GraphReports'
    BY <1>1, <1>2, <1>4 DEF IInv, GraphReports, BeforeReview, Same, Analysed, Written
  <1> QED
    BY <1>5, <1>6, <1>7, <1>8 DEF IInv

LEMMA GraphErrorHandler ==
  ASSUME BoundAssumption, IInv, GraphStep, todo = <<"error_handler">>
  PROVE  IInv'
  <1>1. /\ phase = "graph" /\ phase' = "graph" /\ todo[1] = "error_handler" /\ todo # <<>>
        /\ Call("error_handler", TRUE)
    BY GraphCalls
  <1>2. /\ st' \in State
        /\ Same({"data", "analysis", "verdict", "round", "pack", "complexity"})
        /\ st'.decision \in {st.decision, "approve"}
        /\ st'.err = "none" =>
             st'.report = st.report /\ results'["error_handler"].status = "partial"
    BY <1>1, ErrorHandlerIs DEF IInv
  <1>3. todo' = <<>>
    BY GraphCalls DEF Route, RouteOf
  <1>4. Shape' /\ Phases' /\ RerunReports' /\ EndIsClean'
    <2>1. st'.decision \in {"none", "approve"}
      BY <1>1, <1>2 DEF IInv, Phases
    <2> QED
      BY <1>2, <1>3, <2>1, GraphRest DEF Stage
  <1>5. Rounds'
    BY <1>1, <1>2, <1>3, RoundsOver DEF Same
  <1>6. Verdicts' /\ PassedIsEarned'
    BY <1>1, <1>2, <1>3 DEF IInv, Verdicts, PassedIsEarned, Same
  <1>7. GraphReports'
    BY <1>1, <1>2, <1>3 DEF IInv, GraphReports, Same, Analysed, Written
  <1> QED
    BY <1>4, <1>5, <1>6, <1>7 DEF IInv

LEMMA GraphStepKeeps ==
  ASSUME BoundAssumption, IInv, GraphStep
  PROVE  IInv'
  <1>1. PICK stage \in Stage : todo = <<stage>>
    BY DEF GraphStep, IInv, Shape
  <1> QED
    BY <1>1, GraphOrchestrator, GraphCollector, GraphAnalyst, GraphReviewer, GraphWriter, GraphHitl,
       GraphErrorHandler DEF Stage

-----------------------------------------------------------------------------
(* The end of the graph, decisions and re-runs. *)

LEMMA GraphFailsKeeps ==
  ASSUME BoundAssumption, IInv, GraphFails
  PROVE  IInv'
  <1>1. /\ phase = "graph" /\ todo = <<>> /\ phase' = "rest" /\ outcome' = "failed" /\ todo' = <<>>
        /\ UNCHANGED <<brief, results, versions, faults, decisions>>
        /\ st' = [st EXCEPT !.err = IF @ = "none" THEN "fatal" ELSE @]
    BY DEF GraphFails
  <1>2. /\ st' \in State /\ st'.err # "none" /\ st'.verdict = st.verdict /\ st'.round = st.round
        /\ st'.data = st.data /\ st'.analysis = st.analysis
    BY <1>1 DEF IInv, Shape, State
  <1>3. Shape' /\ Phases' /\ Rounds' /\ Verdicts'
    BY <1>1, <1>2 DEF IInv, Shape, Phases, Rounds, Verdicts
  <1>4. PassedIsEarned' /\ GraphReports' /\ RerunReports' /\ EndIsClean'
    BY <1>1, <1>2 DEF IInv, PassedIsEarned, GraphReports, RerunReports, EndIsClean
  <1> QED
    BY <1>3, <1>4 DEF IInv

LEMMA GraphEndsKeeps ==
  ASSUME BoundAssumption, IInv, GraphEnds
  PROVE  IInv'
  <1>1. /\ phase = "graph" /\ todo = <<>> /\ phase' = "rest" /\ outcome' = FinalStatus(results) /\ todo' = <<>>
        /\ UNCHANGED <<brief, st, results, faults, decisions>>
        /\ st.err = "none" /\ st.report.exists
        /\ versions' = IF versions = <<>> THEN <<st.report>> ELSE versions
    BY DEF GraphEnds
  <1>2. Shape' /\ Phases' /\ Rounds' /\ Verdicts'
    BY <1>1 DEF IInv, Shape, Phases, Rounds, Verdicts, FinalStatus
  <1>3. PassedIsEarned' /\ GraphReports' /\ RerunReports'
    BY <1>1 DEF IInv, PassedIsEarned, GraphReports, RerunReports
  <1>4. Written /\ Analysed /\ (NoFailure \/ results["error_handler"].status = "partial")
    BY <1>1 DEF IInv, GraphReports
  <1>5. versions' = <<st.report>>
    BY <1>1 DEF IInv, Phases
  <1>6. outcome' = "completed" => \A stage \in Stage : results[stage].status \in {"none", "completed"}
    <2> SUFFICES ASSUME outcome' = "completed", NEW stage \in Stage
                 PROVE  results[stage].status \in {"none", "completed"}
      OBVIOUS
    <2>1. \A s \in Stage : results[s].status # "partial"
      BY <1>1 DEF FinalStatus
    <2>2. NoFailure
      BY <1>4, <2>1 DEF Stage
    <2>3. results[stage] \in Result
      BY DEF IInv, Shape
    <2> QED
      BY <2>1, <2>2, <2>3 DEF NoFailure, Result, StatusOf
  <1>7. EndIsClean'
    BY <1>1, <1>4, <1>5, <1>6 DEF EndIsClean, Written, Analysed
  <1> QED
    BY <1>2, <1>3, <1>7 DEF IInv

LEMMA DecideKeeps ==
  ASSUME BoundAssumption, IInv, NEW action \in Rework, Decide(action)
  PROVE  IInv'
  <1>1. /\ phase = "rest" /\ phase' = "rerun" /\ decisions' = decisions + 1 /\ decisions < MaxDecisions
        /\ UNCHANGED <<brief, results, outcome, versions, faults>>
        /\ todo' = RerunStages(action)
        /\ st' = ResetReview([st EXCEPT !.decision = action], action)
    BY DEF Decide
  <1>2. st \in State /\ decisions \in Nat /\ decisions' \in 1 .. MaxDecisions
    BY <1>1 DEF IInv, Shape, BoundAssumption
  <1>3. CASE action = "rewrite"
    <2>1. todo' = <<"writer">> /\ st' = [st EXCEPT !.decision = action]
      BY <1>1, <1>3 DEF RerunStages, ResetReview
    <2>2. /\ st' \in State /\ st'.verdict = st.verdict /\ st'.round = st.round /\ st'.data = st.data
          /\ st'.analysis = st.analysis /\ st'.report = st.report /\ st'.err = st.err
      BY <1>2, <2>1 DEF State
    <2>3. Shape' /\ Phases' /\ Rounds' /\ Verdicts'
      BY <1>1, <1>2, <2>1, <2>2 DEF IInv, Shape, Phases, Rounds, Verdicts, Remaining, BeforeReview
    <2>4. PassedIsEarned' /\ GraphReports'
      BY <1>1, <2>2 DEF IInv, PassedIsEarned, GraphReports
    <2>5. RerunReports' /\ EndIsClean'
      BY <1>1, <1>2, <2>1, <2>2 DEF IInv, EndIsClean, RerunReports, Analysed
    <2> QED
      BY <2>3, <2>4, <2>5 DEF IInv
  <1>4. CASE action # "rewrite"
    <2>1. /\ todo' \in {<<"analyst", "reviewer", "writer">>, <<"collector", "analyst", "reviewer", "writer">>}
          /\ st' = [[st EXCEPT !.decision = action] EXCEPT !.round = 0, !.verdict = NoVerdict]
      BY <1>1, <1>4 DEF RerunStages, ResetReview, Rework
    <2>2. NoVerdict \in VerdictOf /\ ~ NoVerdict.passed
      BY DEF NoVerdict, VerdictOf
    <2>3. /\ st' \in State /\ st'.verdict = NoVerdict /\ st'.round = 0 /\ st'.data = st.data
          /\ st'.analysis = st.analysis /\ st'.report = st.report /\ st'.err = st.err
      <3>1. PICK s : s = [st EXCEPT !.decision = action]
        OBVIOUS
      <3>2. /\ s \in State /\ s.data = st.data /\ s.analysis = st.analysis /\ s.report = st.report
            /\ s.err = st.err
        BY <1>2, <3>1 DEF State
      <3>3. PICK v \in VerdictOf : v = NoVerdict
        BY <2>2
      <3>4. PICK r : r = [s EXCEPT !.round = 0]
        OBVIOUS
      <3>7. st' = [r EXCEPT !.verdict = v]
        BY <2>1, <3>1, <3>3, <3>4
      <3>6. /\ r \in State /\ r.round = 0 /\ r.data = s.data /\ r.analysis = s.analysis
            /\ r.report = s.report /\ r.err = s.err
        BY <3>2, <3>4 DEF State
      <3>5. /\ st' \in State /\ st'.verdict = v /\ st'.round = 0 /\ st'.data = s.data
            /\ st'.analysis = s.analysis /\ st'.report = s.report /\ st'.err = s.err
        BY <3>3, <3>6, <3>7 DEF State
      <3> QED
        BY <3>2, <3>3, <3>5
    <2>4. todo'[1] \in {"analyst", "collector"} /\ todo' # <<>>
      <3>1. CASE todo' = <<"analyst", "reviewer", "writer">>
        BY <3>1
      <3>2. CASE todo' = <<"collector", "analyst", "reviewer", "writer">>
        BY <3>2
      <3> QED
        BY <2>1, <3>1, <3>2
    <2>5. Shape' /\ Phases' /\ Rounds' /\ Verdicts'
      BY <1>1, <1>2, <2>1, <2>2, <2>3 DEF IInv, Shape, Phases, Rounds, Verdicts, Remaining
    <2>6. PassedIsEarned' /\ GraphReports'
      BY <1>1, <2>2, <2>3 DEF IInv, PassedIsEarned, GraphReports
    <2>7. RerunReports' /\ EndIsClean'
      BY <1>1, <1>2, <2>3, <2>4 DEF IInv, EndIsClean, RerunReports
    <2> QED
      BY <2>5, <2>6, <2>7 DEF IInv
  <1> QED
    BY <1>3, <1>4

LEMMA ApproveKeeps ==
  ASSUME BoundAssumption, IInv, Approve
  PROVE  IInv'
  <1>1. /\ phase = "rest" /\ phase' = "approved" /\ decisions' = decisions + 1 /\ decisions < MaxDecisions
        /\ UNCHANGED <<brief, todo, results, outcome, versions, faults>>
        /\ st' = [st EXCEPT !.decision = "approve"]
    BY DEF Approve
  <1>2. decisions' \in 1 .. MaxDecisions /\ decisions \in Nat
    BY <1>1 DEF IInv, Shape, BoundAssumption
  <1>3. /\ st' \in State /\ st'.verdict = st.verdict /\ st'.round = st.round /\ st'.data = st.data
        /\ st'.analysis = st.analysis
    BY <1>1 DEF IInv, Shape, State
  <1>4. Shape' /\ Phases' /\ Rounds' /\ Verdicts'
    BY <1>1, <1>2, <1>3 DEF IInv, Shape, Phases, Rounds, Verdicts
  <1>5. PassedIsEarned' /\ GraphReports' /\ RerunReports' /\ EndIsClean'
    BY <1>1, <1>2, <1>3 DEF IInv, PassedIsEarned, GraphReports, RerunReports, EndIsClean
  <1> QED
    BY <1>4, <1>5 DEF IInv

\* A re-run calls the next of its stages.
LEMMA RerunCalls ==
  ASSUME RerunStep, NEW stage, NEW rest, Head(todo) = stage, Tail(todo) = rest
  PROVE  /\ phase = "rerun" /\ phase' = "rerun" /\ Call(stage, FALSE) /\ todo' = rest
         /\ UNCHANGED <<brief, outcome, versions, decisions>>
  <1>1. Call(stage, FALSE)
    BY DEF RerunStep, Call
  <1> QED
    BY <1>1 DEF RerunStep

\* The parts of the invariant that do not speak of re-runs, and the shape.
LEMMA RerunRest ==
  ASSUME BoundAssumption, IInv, NEW stage \in Stage, Call(stage, FALSE), st' \in State,
         phase = "rerun", phase' = "rerun", todo' \in Remaining,
         UNCHANGED <<brief, outcome, versions, decisions>>
  PROVE  Shape' /\ Phases' /\ Rounds' /\ GraphReports' /\ EndIsClean'
  <1>1. results' \in [Stage -> Result] /\ faults' \in 0 .. MaxFaults
    BY ResultIs DEF IInv
  <1>2. Shape'
    BY <1>1 DEF IInv, Shape
  <1>3. Phases' /\ decisions > 0 /\ decisions \in Nat
    BY DEF IInv, Phases, Shape
  <1> QED
    BY <1>2, <1>3 DEF Rounds, GraphReports, EndIsClean

\* An error stays.
LEMMA ErrorStays ==
  ASSUME NEW stage, Ends(stage), st'.err = "none"
  PROVE  st.err = "none" /\ ~ Failed(stage)
  BY DEF Ends, Failed

LEMMA RerunCollector ==
  ASSUME BoundAssumption, IInv, RerunStep, todo = <<"collector", "analyst", "reviewer", "writer">>
  PROVE  IInv'
  <1>1. /\ Head(todo) = "collector" /\ Tail(todo) = <<"analyst", "reviewer", "writer">>
        /\ todo[1] = "collector" /\ todo # <<>>
    OBVIOUS
  <1>2. /\ phase = "rerun" /\ phase' = "rerun" /\ Call("collector", FALSE)
        /\ todo' = <<"analyst", "reviewer", "writer">>
        /\ UNCHANGED <<brief, outcome, versions, decisions>>
    BY <1>1, RerunCalls
  <1>3. /\ Ends("collector") /\ st' \in State
        /\ Same({"analysis", "verdict", "round", "report", "pack", "complexity", "decision"})
    BY <1>2, CollectorIs DEF IInv
  <1>4. todo'[1] = "analyst" /\ todo' # <<>> /\ todo' \in Remaining
    BY <1>2 DEF Remaining
  <1>5. Shape' /\ Phases' /\ Rounds' /\ GraphReports' /\ EndIsClean'
    BY <1>2, <1>3, <1>4, RerunRest DEF Stage
  <1>6. ~ st.verdict.passed /\ st.round = 0 /\ (st.err = "none" => st.report.exists)
    BY <1>1, <1>2 DEF IInv, Verdicts, RerunReports, BeforeReview
  <1>7. Verdicts' /\ PassedIsEarned'
    BY <1>3, <1>6 DEF Verdicts, PassedIsEarned, Same
  <1>8. RerunReports'
    BY <1>3, <1>4, <1>6, ErrorStays DEF RerunReports, Same
  <1> QED
    BY <1>5, <1>7, <1>8 DEF IInv

LEMMA RerunAnalyst ==
  ASSUME BoundAssumption, IInv, RerunStep, todo = <<"analyst", "reviewer", "writer">>
  PROVE  IInv'
  <1>1. /\ Head(todo) = "analyst" /\ Tail(todo) = <<"reviewer", "writer">>
        /\ todo[1] = "analyst" /\ todo # <<>>
    OBVIOUS
  <1>2. /\ phase = "rerun" /\ phase' = "rerun" /\ Call("analyst", FALSE) /\ todo' = <<"reviewer", "writer">>
        /\ UNCHANGED <<brief, outcome, versions, decisions>>
    BY <1>1, RerunCalls
  <1>3. /\ Ends("analyst") /\ st' \in State
        /\ Same({"data", "verdict", "round", "report", "complexity", "decision"})
        /\ Failed("analyst") \/ Analysed'
    BY <1>2, AnalystIs DEF IInv
  <1>4. todo'[1] = "reviewer" /\ todo' # <<>> /\ todo' \in Remaining
    BY <1>2 DEF Remaining
  <1>5. Shape' /\ Phases' /\ Rounds' /\ GraphReports' /\ EndIsClean'
    BY <1>2, <1>3, <1>4, RerunRest DEF Stage
  <1>6. ~ st.verdict.passed /\ st.round = 0 /\ (st.err = "none" => st.report.exists)
    BY <1>1, <1>2 DEF IInv, Verdicts, RerunReports, BeforeReview
  <1>7. Verdicts' /\ PassedIsEarned'
    BY <1>3, <1>6 DEF Verdicts, PassedIsEarned, Same
  <1>8. RerunReports'
    BY <1>3, <1>4, <1>6, ErrorStays DEF RerunReports, Same
  <1> QED
    BY <1>5, <1>7, <1>8 DEF IInv

LEMMA RerunReviewer ==
  ASSUME BoundAssumption, IInv, RerunStep, todo = <<"reviewer", "writer">>
  PROVE  IInv'
  <1>1. /\ Head(todo) = "reviewer" /\ Tail(todo) = <<"writer">>
        /\ todo[1] = "reviewer" /\ todo # <<>>
    OBVIOUS
  <1>2. /\ phase = "rerun" /\ phase' = "rerun" /\ Call("reviewer", FALSE) /\ todo' = <<"writer">>
        /\ UNCHANGED <<brief, outcome, versions, decisions>>
    BY <1>1, RerunCalls
  <1>3. ~ st.verdict.passed /\ st.round = 0 /\ (st.err = "none" => st.report.exists /\ Analysed)
    BY <1>1, <1>2 DEF IInv, Verdicts, RerunReports, BeforeReview
  <1>4. /\ Ends("reviewer") /\ st' \in State
        /\ Same({"data", "analysis", "report", "complexity", "decision"})
        /\ \/ st'.verdict = st.verdict /\ st'.round = st.round /\ Failed("reviewer")
           \/ st'.verdict.passed /\ st'.round = st.round /\ (st.round < 2 => Earned)
           \/ ~ st'.verdict.passed /\ st'.round = st.round + 1
    <2>1. Shape /\ st.round < 3 /\ FALSE \in BOOLEAN
      BY <1>3 DEF IInv
    <2> QED
      BY <1>2, <2>1, ReviewerIs, Zenon
  <1>5. todo'[1] = "writer" /\ todo' # <<>> /\ todo' \in Remaining
    BY <1>2 DEF Remaining
  <1>6. Shape' /\ Phases' /\ Rounds' /\ GraphReports' /\ EndIsClean'
    BY <1>2, <1>4, <1>5, RerunRest DEF Stage
  <1>7. Verdicts'
    BY <1>5 DEF Verdicts, BeforeReview
  <1>8. PassedIsEarned'
    BY <1>3, <1>4 DEF PassedIsEarned, Earned, Same
  <1>9. RerunReports'
    BY <1>3, <1>4, <1>5, ErrorStays DEF RerunReports, Same, Analysed
  <1> QED
    BY <1>6, <1>7, <1>8, <1>9 DEF IInv

LEMMA RerunWriter ==
  ASSUME BoundAssumption, IInv, RerunStep, todo = <<"writer">>
  PROVE  IInv'
  <1>1. Head(todo) = "writer" /\ Tail(todo) = <<>> /\ todo[1] = "writer" /\ todo # <<>>
    OBVIOUS
  <1>2. /\ phase = "rerun" /\ phase' = "rerun" /\ Call("writer", FALSE) /\ todo' = <<>>
        /\ UNCHANGED <<brief, outcome, versions, decisions>>
    BY <1>1, RerunCalls
  <1>3. /\ Ends("writer") /\ st' \in State
        /\ Same({"data", "analysis", "verdict", "round", "pack", "complexity", "decision"})
        /\ Written' \/ (st'.report = st.report /\ Failed("writer"))
    BY <1>2, WriterIs DEF IInv
  <1>4. Shape' /\ Phases' /\ Rounds' /\ GraphReports' /\ EndIsClean'
    BY <1>2, <1>3, RerunRest DEF Stage, Remaining
  <1>5. Verdicts' /\ PassedIsEarned'
    BY <1>2, <1>3 DEF IInv, Verdicts, PassedIsEarned, Same
  <1>6. RerunReports'
    <2>1. st.err = "none" => Analysed
      BY <1>1, <1>2 DEF IInv, RerunReports
    <2>2. st'.err = "none" => Analysed' /\ Written'
      BY <1>3, <2>1, ErrorStays DEF Analysed, Same
    <2> QED
      BY <2>2 DEF RerunReports, Written
  <1> QED
    BY <1>4, <1>5, <1>6 DEF IInv

LEMMA RerunStepKeeps ==
  ASSUME BoundAssumption, IInv, RerunStep
  PROVE  IInv'
  <1>1. todo \in Remaining /\ todo # <<>>
    BY DEF RerunStep, IInv, Shape
  <1> QED
    BY <1>1, RerunCollector, RerunAnalyst, RerunReviewer, RerunWriter DEF Remaining

LEMMA RerunEndsKeeps ==
  ASSUME BoundAssumption, IInv, RerunEnds
  PROVE  IInv'
  <1>1. /\ phase = "rerun" /\ todo = <<>> /\ phase' = "rest" /\ todo' = <<>>
        /\ UNCHANGED <<brief, st, results, outcome, faults, decisions>>
    BY DEF RerunEnds
  <1>2. decisions > 0 /\ decisions \in Nat
    BY <1>1 DEF IInv, Phases, Shape
  <1>3. Shape' /\ Phases' /\ Rounds' /\ Verdicts'
    BY <1>1 DEF IInv, Shape, Phases, Rounds, Verdicts
  <1>4. PassedIsEarned' /\ GraphReports' /\ RerunReports'
    BY <1>1 DEF IInv, PassedIsEarned, GraphReports, RerunReports
  <1>5. st.err = "none" => Written /\ Analysed
    BY <1>1 DEF IInv, RerunReports
  <1>6. EndIsClean'
    BY <1>1, <1>2, <1>5 DEF EndIsClean, Written, Analysed
  <1> QED
    BY <1>3, <1>4, <1>6 DEF IInv

-----------------------------------------------------------------------------
(* The theorems. *)

LEMMA InitHolds ==
  ASSUME BoundAssumption, Init
  PROVE  IInv
  <1>1. /\ phase = "graph" /\ todo = <<"orchestrator">> /\ todo[1] = "orchestrator" /\ todo # <<>>
        /\ outcome = "none" /\ versions = <<>> /\ faults = 0 /\ decisions = 0
        /\ brief \in Complexity \cup {"none"}
    BY DEF Init
  <1>2. /\ st.data = {} /\ st.analysis = NoAnalysis /\ st.verdict = NoVerdict /\ st.round = 0
        /\ st.report = NoReport /\ st.pack = NoPack /\ st.complexity = "none" /\ st.decision = "none"
        /\ st.err = "none"
    BY DEF Init
  <1>3. 0 \in Attempt
    BY DEF Attempt, BoundAssumption
  <1>4. st \in State
    <2>1. NoAnalysis \in AnalysisOf /\ NoVerdict \in VerdictOf /\ NoReport \in ReportOf /\ NoPack \in PackOf
      BY <1>3 DEF NoAnalysis, NoVerdict, NoReport, NoPack, AnalysisOf, VerdictOf, ReportOf, PackOf
    <2>2. PICK an \in AnalysisOf, ve \in VerdictOf, re \in ReportOf, pa \in PackOf :
            st = [data |-> {}, analysis |-> an, verdict |-> ve, round |-> 0, report |-> re,
                  pack |-> pa, complexity |-> "none", decision |-> "none", err |-> "none"]
      BY <2>1 DEF Init
    <2> QED
      BY <2>2 DEF State
  <1>5. /\ results = [stage \in Stage |-> [n |-> 0, status |-> "none"]]
        /\ \A stage \in Stage : results[stage].n = 0 /\ results[stage].status = "none"
    BY DEF Init
  <1>6. results \in [Stage -> Result]
    <2>1. [n |-> 0, status |-> "none"] \in Result
      BY <1>3 DEF Result, StatusOf
    <2> QED
      BY <1>5, <2>1
  <1>7. ~ NoVerdict.passed /\ ~ NoReport.exists
    BY DEF NoVerdict, NoReport
  <1>8. Shape /\ Phases
    BY <1>1, <1>2, <1>4, <1>6 DEF Shape, Phases, BoundAssumption, Stage
  <1>9. Rounds
    <2>1. N("collector") = 0 /\ N("analyst") = 0 /\ N("reviewer") = 0
      BY <1>5 DEF N, Stage
    <2>2. todo \notin {<<"collector">>, <<"analyst">>, <<"reviewer">>}
      BY <1>1
    <2> QED
      BY <1>2, <2>1, <2>2, CapIs DEF Rounds
  <1>10. Verdicts /\ PassedIsEarned
    BY <1>1, <1>2, <1>7 DEF Verdicts, PassedIsEarned
  <1>11. GraphReports
    BY <1>1, <1>2, <1>5, <1>7 DEF GraphReports, NoFailure, Failure
  <1>12. RerunReports /\ EndIsClean
    BY <1>1 DEF RerunReports, EndIsClean
  <1> QED
    BY <1>8, <1>9, <1>10, <1>11, <1>12 DEF IInv

LEMMA StepInv ==
  ASSUME BoundAssumption, IInv, [Next]_vars
  PROVE  IInv'
  <1>1. CASE System
    BY <1>1, GraphStepKeeps, GraphFailsKeeps, GraphEndsKeeps, RerunStepKeeps, RerunEndsKeeps DEF System
  <1>2. CASE \E action \in Rework : Decide(action)
    BY <1>2, DecideKeeps
  <1>3. CASE DecideAuto
    <2>1. AutoActions \subseteq Rework
      BY DEF AutoActions, ParseReworkIntent, RuleBasedIntent, Rework
    <2>2. PICK action \in Rework : Decide(action)
      BY <1>3, <2>1 DEF DecideAuto
    <2> QED
      BY <2>2, DecideKeeps
  <1>4. CASE Approve
    BY <1>4, ApproveKeeps
  <1>5. CASE Stop \/ UNCHANGED vars
    <2>1. /\ UNCHANGED <<brief, phase, todo, st, results>>
          /\ UNCHANGED <<outcome, versions, faults, decisions>>
      BY <1>5 DEF Stop, vars
    <2>2. Shape' /\ Phases'
      BY <2>1 DEF IInv, Shape, Phases
    <2>3. Rounds' /\ Verdicts' /\ PassedIsEarned'
      BY <2>1 DEF IInv, Rounds, Verdicts, PassedIsEarned, N
    <2>4. GraphReports' /\ RerunReports' /\ EndIsClean'
      BY <2>1 DEF IInv, GraphReports, RerunReports, EndIsClean, Analysed, Written, NoFailure
    <2> QED
      BY <2>2, <2>3, <2>4 DEF IInv
  <1> QED
    BY <1>1, <1>2, <1>3, <1>4, <1>5 DEF Next

\* The inductive invariant holds in every state the run can be in.
THEOREM Invariance == Spec => []IInv
  <1>1. Init => IInv
    BY BoundAssumption, InitHolds
  <1>2. IInv /\ [Next]_vars => IInv'
    BY BoundAssumption, StepInv
  <1> QED
    BY <1>1, <1>2, PTL DEF Spec

LEMMA Typed ==
  ASSUME IInv
  PROVE  TypeOK
  <1>1. todo \in Seq(Stage) /\ Len(todo) <= 4
    <2>1. todo = <<>> \/ (\E stage \in Stage : todo = <<stage>>) \/ todo \in Remaining
      BY DEF IInv, Shape
    <2>2. CASE todo = <<>>
      BY <2>2
    <2>3. CASE \E stage \in Stage : todo = <<stage>>
      BY <2>3
    <2>4. CASE todo \in Remaining
      <3>1. /\ "collector" \in Stage /\ "analyst" \in Stage /\ "reviewer" \in Stage /\ "writer" \in Stage
        BY DEF Stage
      <3>2. CASE todo = <<"writer">>
        BY <3>1, <3>2
      <3>3. CASE todo = <<"reviewer", "writer">>
        BY <3>1, <3>3
      <3>4. CASE todo = <<"analyst", "reviewer", "writer">>
        BY <3>1, <3>4
      <3>5. CASE todo = <<"collector", "analyst", "reviewer", "writer">>
        BY <3>1, <3>5
      <3> QED
        BY <2>2, <2>4, <3>2, <3>3, <3>4, <3>5 DEF Remaining
    <2> QED
      BY <2>1, <2>2, <2>3, <2>4
  <1>2. /\ st.data \in SUBSET Point /\ st.analysis \in AnalysisOf /\ st.verdict \in VerdictOf
        /\ st.round \in 0 .. 3 /\ st.report \in ReportOf /\ st.pack \in PackOf
        /\ st.complexity \in Complexity \cup {"none"} /\ st.decision \in Rework \cup {"none", "approve"}
        /\ st.err \in {"none", "stage", "fatal"}
    BY StateIs DEF IInv, Shape
  <1> QED
    BY <1>1, <1>2 DEF IInv, Shape, TypeOK, AnalysisOf, VerdictOf, ReportOf, PackOf, Result, StatusOf

\* Whatever reviews find and however stages fail, the graph collects at most as
\* often as the complexity allows (route_after_reviewer), and no stage of a round
\* runs more often than the one before it.
THEOREM RoundsTheorem == Spec => []RoundsAreCapped
  <1>1. IInv => RoundsAreCapped
    BY Typed DEF RoundsAreCapped, IInv, Rounds, N
  <1> QED
    BY <1>1, Invariance, PTL

\* A verdict that passes before the loop filter softens anything speaks of the data
\* and the analysis in the state, in the graph and in every re-run of
\* _reanalyze_sync: nothing changes either while such a verdict is in force.
THEOREM EarnedTheorem == Spec => []PassedIsEarned
  <1>1. IInv => PassedIsEarned
    BY DEF IInv
  <1> QED
    BY <1>1, Invariance, PTL

\* A run or re-run that rests without an error has a report written from the
\* analysis of its data, and a graph that _run_graph_sync calls completed had
\* no stage that failed or was partial, and saved that report.
THEOREM EndTheorem == Spec => []EndIsClean
  <1>1. IInv => EndIsClean
    BY DEF IInv
  <1> QED
    BY <1>1, Invariance, PTL
=============================================================================
