---------------------------- MODULE ReportProofs ----------------------------
(***************************************************************************)
(* Proofs about a report: how its sections are written (Sections, for any  *)
(* reports, sections, slots and budgets), how its versions are kept        *)
(* (VersionTree, for any bounds on versions, checkpoints and failures of   *)
(* the library), what it says of its evidence (Evidence, for any run) and  *)
(* what was searched for it (Search, for any search).                      *)
(***************************************************************************)
EXTENDS Sections, VersionTree, MCEvidence, MCSearch, FiniteSetTheorems, SequenceTheorems,
        WellFoundedInduction, TLAPS

-----------------------------------------------------------------------------
(* Sections: the inductive invariant. *)

\* Stages, calls in turn and flags of each analysis.
Control ==
  /\ specs \in [Report -> SUBSET Key] /\ \A r \in Report : specs[r] \in Tasks[r]
  /\ phase \in [Report -> Phase]
  /\ calls \in [Report -> [made : 0 .. MaxCalls, open : BOOLEAN]]
  /\ cancelled \in [Report -> BOOLEAN] /\ open \in [Report -> SUBSET Key]

\* Allowances and counters of tokens.
Counts ==
  /\ left \in [Report -> 0 .. Limit]
  /\ used \in [Report -> Nat] /\ delta \in [Report -> Nat] /\ spent \in [Report -> Nat]

\* The calls the breaker looks at.
Recent ==
  /\ history \in [Report -> Seq(Signature)]
  /\ \A r \in Report : Len(history[r]) <= Repeats

\* The sections of a report that is being written.
Entry == [at : Place, status : Status \cup {"none"}]
TasksType ==
  /\ task = [r \in Report |-> task[r]]
  /\ \A r \in Report :
       IF phase[r] \in {"writing", "done"} THEN task[r] \in [specs[r] -> Entry]
       ELSE task[r] = <<>>

TypeInv == Control /\ Counts /\ Recent /\ TasksType /\ free \in 0 .. Slots

\* A section whose answer was still out when the flag was raised does not
\* become a success on its way into the report.
LateIsDropped ==
  \A r \in Report : cancelled[r] /\ phase[r] = "writing" =>
    /\ open[r] \subseteq specs[r]
    /\ \A k \in open[r] : ~(task[r][k].at \in {"leaving", "finished", "recorded"}
                            /\ task[r][k].status = "success")

\* Nor is it one in the report, the second part of SectionsEnd.
DoneIsDropped ==
  \A r \in Report : cancelled[r] /\ phase[r] \in {"writing", "done"} =>
    \A k \in open[r] : task[r][k] # As("recorded", "success")

\* The slots the semaphore has given away are those the sections hold.
SlotsAreCounted == IsFiniteSet(Held) /\ free + Cardinality(Held) = Slots

IInv == TypeInv /\ SlotsAreCounted /\ LateIsDropped /\ DoneIsDropped

-----------------------------------------------------------------------------
(* The initial states. *)

\* In an initial state no section has begun and every slot is free.
LEMMA InitInv == Init => IInv
  <1> SUFFICES ASSUME Init PROVE IInv
    OBVIOUS
  <1>1. Control /\ Counts /\ Recent /\ TasksType
    BY SectionsAssumption DEF Init, Control, Counts, Recent, TasksType, Phase
  <1>2. Held = {}
    BY DEF Init, Held, Holds
  <1>3. SlotsAreCounted /\ free \in 0 .. Slots
    BY <1>2, FS_EmptySet, SectionsAssumption DEF SlotsAreCounted, Init
  <1>4. LateIsDropped /\ DoneIsDropped
    BY DEF Init, LateIsDropped, DoneIsDropped
  <1> QED
    BY <1>1, <1>3, <1>4 DEF IInv, TypeInv

-----------------------------------------------------------------------------
(* Type correctness. *)

\* What is left of a budget is within the total.
LEMMA BudgetType ==
  ASSUME NEW total \in Nat, NEW stage
  PROVE  LimitsForStage(total, stage) \in 0 .. Limit
  BY SectionsAssumption DEF LimitsForStage, Remaining, Least, Greatest

\* An answer uses some number of tokens, and consuming them keeps an
\* allowance within the total.
LEMMA AnswerType ==
  ASSUME NEW budget \in 0 .. Limit, NEW ans \in Answer(budget)
  PROVE  ans.tokens \in Nat /\ Consume(budget, ans.tokens) \in 0 .. Limit
  BY SectionsAssumption DEF Answer, Failed, Usage, Clamp, Consume, Least, Greatest

\* The breaker keeps the last calls only.
LEMMA HistoryType ==
  ASSUME NEW h \in Seq(Signature), Len(h) <= Repeats, NEW sig \in Signature,
         NEW g, g = IF Len(Append(h, sig)) > Repeats THEN Tail(Append(h, sig)) ELSE Append(h, sig)
  PROVE  g \in Seq(Signature) /\ Len(g) <= Repeats
  <1>1. Append(h, sig) \in Seq(Signature) /\ Len(Append(h, sig)) = Len(h) + 1
    OBVIOUS
  <1>2. Append(h, sig) # <<>>
    BY <1>1
  <1>3. Tail(Append(h, sig)) \in Seq(Signature) /\ Len(Tail(Append(h, sig))) = Len(h)
    BY <1>1, <1>2
  <1> QED
    BY <1>1, <1>3, SectionsAssumption

\* The parts of the invariant are the types of the module.
LEMMA TypeParts == TypeInv => TypeOK
  <1>1. Recent => \A r \in Report : Range(history[r]) \subseteq Signature
    BY DEF Recent, Range
  <1> QED
    BY <1>1 DEF TypeInv, Control, Counts, Recent, TasksType, Entry, TypeOK

\* A worker's step writes the place of its own task.
LEMMA GoesType ==
  ASSUME TasksType, NEW r \in Report, NEW k \in Key, NEW was, At(r, k, was),
         NEW pc \in Entry, Goes(r, k, pc), UNCHANGED <<specs, phase>>
  PROVE  TasksType'
  BY DEF TasksType, At, Goes

\* A slot is taken by Acquire and given back by Leave: the free slots and
\* the sections that hold one are always all slots.
LEMMA CountStep ==
  ASSUME TypeInv, SlotsAreCounted, [Next]_vars
  PROVE  SlotsAreCounted' /\ free' \in 0 .. Slots
  <1> DEFINE Unmoved == free' = free /\ \A r \in Report, k \in Key : Holds(r, k)' <=> Holds(r, k)
  <1>2. ASSUME Unmoved PROVE SlotsAreCounted' /\ free' \in 0 .. Slots
    <2>1. Held' = Held
      BY <1>2 DEF Held
    <2> QED
      BY <2>1, <1>2 DEF SlotsAreCounted, TypeInv, TasksType, Entry
  <1>3. ASSUME NEW r \in Report, NEW k \in Key, Acquire(r, k)
        PROVE  SlotsAreCounted' /\ free' \in 0 .. Slots
    <2>1. <<r, k>> \notin Held
      BY <1>3 DEF Acquire, At, On, Held, Holds, Holding
    <2>2. Held' = Held \cup {<<r, k>>}
      BY <1>3 DEF Acquire, At, Goes, On, Held, Holds, Holding, TypeInv, Control, TasksType, Entry, run
    <2>3. IsFiniteSet(Held') /\ Cardinality(Held') = Cardinality(Held) + 1
      BY <2>1, <2>2, FS_AddElement DEF SlotsAreCounted
    <2>4. Cardinality(Held) \in Nat
      BY FS_CardinalityType DEF SlotsAreCounted
    <2>5. free > 0 /\ free' = free - 1
      BY <1>3 DEF Acquire
    <2>6. free \in 0 .. Slots /\ Slots \in Nat
      BY SectionsAssumption DEF TypeInv
    <2>7. free' \in 0 .. Slots /\ free' + Cardinality(Held') = Slots
      BY <2>3, <2>4, <2>5, <2>6 DEF SlotsAreCounted
    <2> QED
      BY <2>3, <2>7 DEF SlotsAreCounted
  <1>4. ASSUME NEW r \in Report, NEW k \in Key, Leave(r, k)
        PROVE  SlotsAreCounted' /\ free' \in 0 .. Slots
    <2>1. <<r, k>> \in Held
      BY <1>4 DEF Leave, At, As, Held, Holds, Holding
    <2>2. Held' = Held \ {<<r, k>>}
      BY <1>4 DEF Leave, At, Goes, As, Held, Holds, Holding, TypeInv, Control, TasksType, Entry, run
    <2>3. IsFiniteSet(Held') /\ Cardinality(Held') = Cardinality(Held) - 1
      BY <2>1, <2>2, FS_RemoveElement DEF SlotsAreCounted
    <2>4. Cardinality(Held) \in Nat /\ Cardinality(Held') \in Nat
      BY <2>3, FS_CardinalityType DEF SlotsAreCounted
    <2>5. free' = free + 1
      BY <1>4 DEF Leave, Release
    <2>6. free \in 0 .. Slots /\ Slots \in Nat
      BY SectionsAssumption DEF TypeInv
    <2>7. free' \in 0 .. Slots /\ free' + Cardinality(Held') = Slots
      BY <2>3, <2>4, <2>5, <2>6 DEF SlotsAreCounted
    <2> QED
      BY <2>3, <2>7 DEF SlotsAreCounted
  <1>5. ASSUME NEW r \in Report, NEW k \in Key, TaskStart(r, k) \/ Saturated(r, k) \/ Send(r, k)
        PROVE  Unmoved
    <2>1. CASE TaskStart(r, k)
      BY <2>1 DEF TaskStart, At, Goes, On, As, Holds, Holding, TypeInv, Control, TasksType, Entry, run
    <2>2. CASE Saturated(r, k)
      BY <2>2 DEF Saturated, At, Goes, On, As, Holds, Holding, TypeInv, Control, TasksType, Entry, run
    <2>3. CASE Send(r, k)
      BY <2>3 DEF Send, At, Goes, On, As, Holds, Holding, TypeInv, Control, TasksType, Entry, run
    <2> QED
      BY <1>5, <2>1, <2>2, <2>3
  <1>6. ASSUME NEW r \in Report, NEW k \in Key, Answered(r, k) PROVE Unmoved
    BY <1>6 DEF Answered, At, Goes, On, As, Holds, Holding, TypeInv, Control, TasksType, Entry
  <1>7. ASSUME NEW r \in Report, NEW k \in Key, RecordResult(r, k) PROVE Unmoved
    <2>1. \A j \in specs[r] : (CancelPending(r)[j]).at \in Holding <=> task[r][j].at \in Holding
      BY <1>7 DEF RecordResult, At, CancelPending, On, As, Holding, TypeInv, TasksType, Entry
    <2>2. DOMAIN CancelPending(r) = specs[r]
      BY <1>7 DEF RecordResult, At, CancelPending, TypeInv, TasksType, Entry
    <2>3. PICK s \in Status :
            /\ At(r, k, As("finished", s))
            /\ task' = [task EXCEPT ![r] = [CancelPending(r) EXCEPT ![k] = As("recorded", s)]]
      BY <1>7 DEF RecordResult
    <2>4. \A o \in Report : o # r => task'[o] = task[o]
      BY <2>3 DEF TypeInv, TasksType
    <2>5. task'[r] = [CancelPending(r) EXCEPT ![k] = As("recorded", s)]
      BY <2>3 DEF TypeInv, TasksType
    <2>6. \A j \in specs[r] : task'[r][j].at \in Holding <=> task[r][j].at \in Holding
      BY <2>1, <2>2, <2>3, <2>5 DEF At, As, Holding
    <2> QED
      BY <1>7, <2>4, <2>6 DEF RecordResult, Holds, run
  <1>8. ASSUME NEW r \in Report, StageStart(r) \/ StageEnd(r) PROVE Unmoved
    BY <1>8 DEF StageStart, StageEnd, On, Holds, Holding, TypeInv, Control, TasksType, Entry, Phase
  <1>9. ASSUME NEW r \in Report, Merge(r) PROVE Unmoved
    BY <1>9 DEF Merge, Complete, Holds, Holding, TypeInv, Control, TasksType, Entry, Phase
  <1>10. ASSUME NEW r \in Report, NEW sig \in Signature, Execute(r, sig) PROVE Unmoved
    BY <1>10 DEF Execute, Holds
  <1>11. ASSUME NEW r \in Report, Executed(r) \/ Cancel(r) PROVE Unmoved
    BY <1>11 DEF Executed, Cancel, Holds, run
  <1>12. CASE Finish \/ UNCHANGED vars
    <2> SUFFICES Unmoved
      BY <1>2
    <2> QED
      BY <1>12 DEF Finish, vars, Holds
  <1> HIDE DEF Unmoved
  <1> QED
    BY <1>2, <1>3, <1>4, <1>5, <1>6, <1>7, <1>8, <1>9, <1>10, <1>11, <1>12
    DEF Next, GraphThread, Worker


\* The stages, calls and flags keep their types in every step.
LEMMA ControlStep == ASSUME TypeInv, [Next]_vars PROVE Control'
  <1> USE DEF TypeInv, Control
  <1>1. ASSUME NEW r \in Report, StageStart(r) \/ Merge(r) PROVE Control'
    BY <1>1 DEF StageStart, Merge, Phase
  <1>2. ASSUME NEW r \in Report, NEW sig \in Signature, Execute(r, sig) PROVE Control'
    BY <1>2, SectionsAssumption DEF Execute
  <1>3. ASSUME NEW r \in Report, Executed(r) PROVE Control'
    BY <1>3 DEF Executed
  <1>4. ASSUME NEW r \in Report, StageEnd(r) PROVE Control'
    <2>1. calls' = [calls EXCEPT ![r].made = 0] /\ UNCHANGED <<specs, cancelled, open>>
      BY <1>4 DEF StageEnd
    <2>2. calls' \in [Report -> [made : 0 .. MaxCalls, open : BOOLEAN]]
      BY <2>1, SectionsAssumption
    <2>3. phase' \in [Report -> Phase]
      BY <1>4 DEF StageEnd, Phase
    <2> QED
      BY <2>1, <2>2, <2>3
  <1>5. ASSUME NEW r \in Report, NEW k \in Key, Worker(r, k) \/ RecordResult(r, k) PROVE Control'
    <2>1. UNCHANGED <<specs, phase, calls, cancelled, open>>
      BY <1>5 DEF Worker, TaskStart, Acquire, Saturated, Send, Answered, Leave, RecordResult, run
    <2> QED
      BY <2>1
  <1>6. ASSUME NEW r \in Report, Cancel(r) PROVE Control'
    BY <1>6 DEF Cancel, run
  <1>7. CASE Finish \/ UNCHANGED vars
    BY <1>7 DEF Finish, vars
  <1> QED
    BY <1>1, <1>2, <1>3, <1>4, <1>5, <1>6, <1>7 DEF Next, GraphThread

\* Allowances and counters stay natural numbers: consuming never goes below 0.
LEMMA CountsStep == ASSUME TypeInv, [Next]_vars PROVE Counts'
  <1> USE DEF TypeInv, Counts
  <1>1. ASSUME NEW r \in Report, StageStart(r) PROVE Counts'
    <2>1. LimitsForStage(used[r], "analyst") \in 0 .. Limit
      BY BudgetType
    <2> QED
      BY <1>1, <2>1 DEF StageStart
  <1>2. ASSUME NEW r \in Report, Executed(r) PROVE Counts'
    <2>1. PICK ans \in Answer(left[r]) :
            RecordUsage(r, ans.tokens) /\ left' = [left EXCEPT ![r] = Consume(@, ans.tokens)]
      BY <1>2 DEF Executed
    <2>2. ans.tokens \in Nat /\ Consume(left[r], ans.tokens) \in 0 .. Limit
      BY AnswerType
    <2> QED
      BY <1>2, <2>1, <2>2 DEF Executed, RecordUsage
  <1>3. ASSUME NEW r \in Report, StageEnd(r) PROVE Counts'
    <2>1. used[r] + delta[r] \in Nat
      OBVIOUS
    <2>2. LimitsForStage(used[r] + delta[r], "writer") \in 0 .. Limit
      BY <2>1, BudgetType
    <2> QED
      BY <1>3, <2>1, <2>2 DEF StageEnd
  <1>4. ASSUME NEW r \in Report, NEW k \in Key, Answered(r, k) PROVE Counts'
    <2>1. PICK ans \in Answer(left[r]) :
            RecordUsage(r, ans.tokens) /\ left' = LeftAfter(r, ans.tokens)
      BY <1>4 DEF Answered, Allowance
    <2>2. ans.tokens \in Nat /\ Consume(left[r], ans.tokens) \in 0 .. Limit
      BY AnswerType
    <2> QED
      BY <1>4, <2>1, <2>2 DEF Answered, RecordUsage, LeftAfter
  <1>5. ASSUME NEW r \in Report, Merge(r) PROVE Counts'
    BY <1>5, SectionsAssumption DEF Merge
  <1>6. ASSUME NEW r \in Report,
               Cancel(r) \/ (\E sig \in Signature : Execute(r, sig))
               \/ (\E k \in Key : RecordResult(r, k) \/ TaskStart(r, k) \/ Acquire(r, k)
                                  \/ Saturated(r, k) \/ Send(r, k) \/ Leave(r, k))
        PROVE  Counts'
    <2>1. UNCHANGED <<left, used, delta, spent>>
      BY <1>6 DEF TaskStart, Acquire, Saturated, Send, Leave, RecordResult, Cancel, Execute, run
    <2> QED
      BY <2>1
  <1>7. CASE Finish \/ UNCHANGED vars
    BY <1>7 DEF Finish, vars
  <1> QED
    BY <1>1, <1>2, <1>3, <1>4, <1>5, <1>6, <1>7 DEF Next, GraphThread, Worker

\* The breaker never sees more than its last calls.
LEMMA RecentStep == ASSUME TypeInv, [Next]_vars PROVE Recent'
  <1> USE DEF TypeInv, Recent
  <1>1. ASSUME NEW r \in Report, NEW sig \in Signature, Execute(r, sig) PROVE Recent'
    <2>1. CASE UNCHANGED history
      BY <2>1
    <2>2. CASE RecordCall(r, sig)
      <3> DEFINE h == Append(history[r], sig)
                 g == IF Len(h) > Repeats THEN Tail(h) ELSE h
      <3>1. history' = [history EXCEPT ![r] = g]
        BY <2>2 DEF RecordCall
      <3>2. g \in Seq(Signature) /\ Len(g) <= Repeats
        BY HistoryType
      <3> HIDE DEF g
      <3> QED
        BY <3>1, <3>2
    <2> QED
      BY <1>1, <2>1, <2>2 DEF Execute
  <1>2. ASSUME NEW r \in Report, StageEnd(r) PROVE Recent'
    <2>1. <<>> \in Seq(Signature) /\ Len(<<>>) <= Repeats
      BY SectionsAssumption
    <2> QED
      BY <1>2, <2>1 DEF StageEnd
  <1>3. ASSUME UNCHANGED history PROVE Recent'
    BY <1>3
  <1>4. ASSUME NEW r \in Report, NEW k \in Key, Worker(r, k) \/ RecordResult(r, k)
        PROVE  UNCHANGED history
    BY <1>4 DEF Worker, TaskStart, Acquire, Saturated, Send, Answered, Leave, RecordResult, run
  <1>5. ASSUME NEW r \in Report, StageStart(r) \/ Executed(r) \/ Merge(r) \/ Cancel(r)
        PROVE  UNCHANGED history
    BY <1>5 DEF StageStart, Executed, Merge, Cancel, run
  <1>6. CASE Finish \/ UNCHANGED vars
    BY <1>6 DEF Finish, vars
  <1> QED
    BY <1>1, <1>2, <1>3, <1>4, <1>5, <1>6 DEF Next, GraphThread

\* A report has a task per section from its pool on, and none before.
LEMMA TasksStep == ASSUME TypeInv, [Next]_vars PROVE TasksType'
  <1>1. TasksType
    BY DEF TypeInv
  <1>2. ASSUME NEW r \in Report, NEW k \in Key,
               TaskStart(r, k) \/ Acquire(r, k) \/ Saturated(r, k) \/ Send(r, k) \/ Leave(r, k)
        PROVE  TasksType'
    <2>1. PICK was \in Entry, to \in Entry : At(r, k, was) /\ Goes(r, k, to)
      BY <1>2 DEF TaskStart, Acquire, Saturated, Send, Leave, On, As, Entry, Place, Status
    <2>2. UNCHANGED <<specs, phase>>
      BY <1>2 DEF TaskStart, Acquire, Saturated, Send, Leave, run
    <2> QED
      BY <1>1, <2>1, <2>2, GoesType
  <1>3. ASSUME NEW r \in Report, NEW k \in Key, Answered(r, k) PROVE TasksType'
    <2>1. PICK ans : Goes(r, k, As("leaving", StatusAfter(r, ans)))
      BY <1>3 DEF Answered
    <2>2. As("leaving", StatusAfter(r, ans)) \in Entry
      BY DEF As, StatusAfter, Entry, Place, Status
    <2>3. At(r, k, On("calling")) /\ UNCHANGED <<specs, phase>>
      BY <1>3 DEF Answered
    <2> QED
      BY <1>1, <2>1, <2>2, <2>3, GoesType
  <1>4. ASSUME NEW r \in Report, NEW k \in Key, RecordResult(r, k) PROVE TasksType'
    <2>1. PICK s \in Status :
            /\ At(r, k, As("finished", s))
            /\ task' = [task EXCEPT ![r] = [CancelPending(r) EXCEPT ![k] = As("recorded", s)]]
            /\ UNCHANGED <<specs, phase>>
      BY <1>4 DEF RecordResult, run
    <2>2. task[r] \in [specs[r] -> Entry]
      BY <1>1, <2>1 DEF At, TasksType
    <2>3. As("recorded", s) \in Entry /\ As("finished", "cancelled") \in Entry
      BY DEF As, Entry, Place, Status
    <2>4. CancelPending(r) \in [specs[r] -> Entry]
      BY <2>2, <2>3 DEF CancelPending
    <2>5. [CancelPending(r) EXCEPT ![k] = As("recorded", s)] \in [specs[r] -> Entry]
      BY <2>3, <2>4
    <2> QED
      BY <1>1, <2>1, <2>5 DEF TasksType, At
  <1>5. ASSUME NEW r \in Report, StageEnd(r) PROVE TasksType'
    <2>1. CASE cancelled[r]
      BY <1>1, <1>5, <2>1 DEF StageEnd, TasksType, TypeInv, Control
    <2>2. CASE ~cancelled[r]
      <3> DEFINE queued == [k \in specs[r] |-> On("queued")]
      <3>1. queued \in [specs[r] -> Entry]
        BY DEF On, Entry, Place
      <3>2. task' = [task EXCEPT ![r] = queued] /\ phase' = [phase EXCEPT ![r] = "writing"]
        BY <1>5, <2>2 DEF StageEnd
      <3>3. specs' = specs
        BY <1>5 DEF StageEnd
      <3> HIDE DEF queued
      <3> QED
        BY <1>1, <3>1, <3>2, <3>3 DEF TasksType, TypeInv, Control
    <2> QED
      BY <2>1, <2>2
  <1>6. ASSUME NEW r \in Report, StageStart(r) \/ Merge(r) PROVE TasksType'
    BY <1>1, <1>6 DEF StageStart, Merge, TasksType, TypeInv, Control
  <1>7. ASSUME NEW r \in Report,
               Executed(r) \/ Cancel(r) \/ (\E sig \in Signature : Execute(r, sig))
        PROVE  TasksType'
    BY <1>1, <1>7 DEF Executed, Cancel, Execute, TasksType, run
  <1>8. CASE Finish \/ UNCHANGED vars
    BY <1>1, <1>8 DEF Finish, vars, TasksType
  <1> QED
    BY <1>2, <1>3, <1>4, <1>5, <1>6, <1>7, <1>8 DEF Next, GraphThread, Worker

\* All types together.
LEMMA TypeStep == ASSUME TypeInv, SlotsAreCounted, [Next]_vars PROVE TypeInv'
  BY ControlStep, CountsStep, RecentStep, TasksStep, CountStep DEF TypeInv

-----------------------------------------------------------------------------
(* What is cancelled. *)

\* A section whose answer is out when the flag is raised ends without success:
\* the flag stays up, the worker looks at it after the answer.
LEMMA DropStep ==
  ASSUME TypeInv, LateIsDropped, [Next]_vars
  PROVE  LateIsDropped'
  <1> USE DEF TypeInv, Control, LateIsDropped
  <1>1. ASSUME NEW r \in Report, NEW k \in Key,
               TaskStart(r, k) \/ Acquire(r, k) \/ Saturated(r, k) \/ Send(r, k)
        PROVE  LateIsDropped'
    <2>1. PICK was, to \in Entry :
            At(r, k, was) /\ Goes(r, k, to) /\ to.status # "success"
      BY <1>1 DEF TaskStart, Acquire, Saturated, Send, On, As, Entry, Place, Status
    <2>2. UNCHANGED <<specs, phase, cancelled, open>>
      BY <1>1 DEF TaskStart, Acquire, Saturated, Send, run
    <2> QED
      BY <2>1, <2>2 DEF At, Goes, TasksType
  <1>2. ASSUME NEW r \in Report, NEW k \in Key, Answered(r, k) PROVE LateIsDropped'
    <2>1. PICK ans : Goes(r, k, As("leaving", StatusAfter(r, ans)))
      BY <1>2 DEF Answered
    <2>2. At(r, k, On("calling")) /\ UNCHANGED <<specs, phase, cancelled, open>>
      BY <1>2 DEF Answered
    <2>3. cancelled[r] => StatusAfter(r, ans) = "cancelled"
      BY DEF StatusAfter
    <2> QED
      BY <2>1, <2>2, <2>3 DEF At, As, Goes, TasksType
  <1>3. ASSUME NEW r \in Report, NEW k \in Key, Leave(r, k) PROVE LateIsDropped'
    <2>1. PICK s \in Status : At(r, k, As("leaving", s)) /\ Goes(r, k, As("finished", s))
      BY <1>3 DEF Leave
    <2>2. UNCHANGED <<specs, phase, cancelled, open>>
      BY <1>3 DEF Leave, run
    <2> QED
      BY <2>1, <2>2 DEF At, As, Goes, TasksType
  <1>4. ASSUME NEW r \in Report, NEW k \in Key, RecordResult(r, k) PROVE LateIsDropped'
    <2>1. PICK s \in Status :
            /\ At(r, k, As("finished", s))
            /\ task' = [task EXCEPT ![r] = [CancelPending(r) EXCEPT ![k] = As("recorded", s)]]
            /\ UNCHANGED <<specs, phase, cancelled, open>>
      BY <1>4 DEF RecordResult, run
    <2>2. \A j \in specs[r] :
            CancelPending(r)[j] \in {task[r][j], As("finished", "cancelled")}
      BY DEF CancelPending
    <2>3. DOMAIN CancelPending(r) = specs[r]
      BY <2>1 DEF CancelPending, At, TasksType
    <2>4. task'[r] = [CancelPending(r) EXCEPT ![k] = As("recorded", s)]
      BY <2>1 DEF TasksType
    <2>5. \A o \in Report : o # r => task'[o] = task[o]
      BY <2>1 DEF TasksType
    <2>6. \A j \in specs[r] : j # k => task'[r][j] \in {task[r][j], As("finished", "cancelled")}
      BY <2>2, <2>3, <2>4
    <2>7. task'[r][k] = As("recorded", s) /\ task[r][k] = As("finished", s)
      BY <2>1, <2>3, <2>4 DEF At
    <2> QED
      BY <2>1, <2>5, <2>6, <2>7 DEF As
  <1>5. ASSUME NEW r \in Report, StageEnd(r) PROVE LateIsDropped'
    <2>1. UNCHANGED <<specs, cancelled, open>>
      BY <1>5 DEF StageEnd
    <2>2. cancelled[r] => phase'[r] = "stopped"
      BY <1>5 DEF StageEnd
    <2>3. \A o \in Report : o # r => phase'[o] = phase[o] /\ task'[o] = task[o]
      BY <1>5 DEF StageEnd, TasksType
    <2> QED
      BY <2>1, <2>2, <2>3
  <1>6. ASSUME NEW r \in Report, StageStart(r) \/ Merge(r) PROVE LateIsDropped'
    BY <1>6 DEF StageStart, Merge
  <1>7. ASSUME NEW r \in Report, Cancel(r) PROVE LateIsDropped'
    BY <1>7 DEF Cancel, run
  <1>8. ASSUME NEW r \in Report, Executed(r) \/ (\E sig \in Signature : Execute(r, sig))
        PROVE  LateIsDropped'
    BY <1>8 DEF Executed, Execute
  <1>9. CASE Finish \/ UNCHANGED vars
    BY <1>9 DEF Finish, vars
  <1> QED
    BY <1>1, <1>2, <1>3, <1>4, <1>5, <1>6, <1>7, <1>8, <1>9 DEF Next, GraphThread, Worker

\* What is recorded stays as it is when the report is put together.
LEMMA DoneStep ==
  ASSUME TypeInv, LateIsDropped, DoneIsDropped, LateIsDropped', TypeInv', [Next]_vars
  PROVE  DoneIsDropped'
  <1> SUFFICES ASSUME NEW r \in Report, cancelled'[r], phase'[r] = "done", NEW k \in open'[r]
               PROVE  task'[r][k] # As("recorded", "success")
    BY DEF LateIsDropped, DoneIsDropped, As
  <1> USE DEF TypeInv, Control
  <1> DEFINE Kept == /\ phase[r] \in {"writing", "done"}
                     /\ UNCHANGED <<cancelled[r], open[r], task[r]>>
  <1>1. ASSUME NEW o \in Report, Merge(o) PROVE Kept
    BY <1>1 DEF Merge
  <1>2. ASSUME NEW o \in Report, StageStart(o) \/ StageEnd(o) PROVE Kept
    <2>1. phase'[o] # "done" /\ UNCHANGED <<cancelled, open>>
      BY <1>2 DEF StageStart, StageEnd
    <2>2. \A q \in Report : q # o => phase'[q] = phase[q] /\ task'[q] = task[q]
      BY <1>2 DEF StageStart, StageEnd, TasksType
    <2> QED
      BY <2>1, <2>2
  <1>3. ASSUME NEW o \in Report, Executed(o) \/ (\E sig \in Signature : Execute(o, sig))
        PROVE  Kept
    BY <1>3 DEF Executed, Execute
  <1>4. ASSUME NEW o \in Report, Cancel(o) PROVE Kept
    BY <1>4 DEF Cancel, run
  <1>5. ASSUME NEW o \in Report, NEW j \in Key, Worker(o, j) PROVE Kept
    <2>1. PICK pc : Goes(o, j, pc) /\ phase[o] = "writing" /\ UNCHANGED <<phase, cancelled, open>>
      BY <1>5 DEF Worker, TaskStart, Acquire, Saturated, Send, Answered, Leave, At, run
    <2> QED
      BY <2>1 DEF Goes, TasksType
  <1>6. ASSUME NEW o \in Report, NEW j \in Key, RecordResult(o, j) PROVE Kept
    <2>1. phase[o] = "writing" /\ UNCHANGED <<phase, cancelled, open>>
      BY <1>6 DEF RecordResult, At, run
    <2>2. \A q \in Report : q # o => task'[q] = task[q]
      BY <1>6 DEF RecordResult, TasksType
    <2> QED
      BY <2>1, <2>2
  <1>7. ASSUME Finish \/ UNCHANGED vars PROVE Kept
    <2>1. UNCHANGED <<phase, cancelled, open, task>>
      BY <1>7 DEF Finish, vars
    <2> QED
      BY <2>1
  <1> HIDE DEF Kept
  <1>8. Kept
    BY <1>1, <1>2, <1>3, <1>4, <1>5, <1>6, <1>7 DEF Next, GraphThread
  <1> QED
    BY <1>8 DEF DoneIsDropped, Kept

-----------------------------------------------------------------------------
(* The theorem. *)

\* The invariant is inductive.
LEMMA StepInv == IInv /\ [Next]_vars => IInv'
  BY TypeStep, CountStep, DropStep, DoneStep DEF IInv

\* The sections of all reports of the process hold at most the slots there
\* are, every slot comes back (_writer_process_slots), and a section whose
\* answer came after the cancellation is not in the report: for any reports,
\* sections, slots, pool sizes and budgets.
THEOREM SlotsTheorem == Spec => []SectionsEnd
  <1>1. IInv => SectionsEnd
    BY TypeParts DEF IInv, SectionsEnd, SlotsAreCounted, DoneIsDropped
  <1> QED
    BY InitInv, StepInv, <1>1, PTL DEF Spec

-----------------------------------------------------------------------------
(* What an analysis uses of its budget: the inductive invariant. *)

Share == Limit + Input
Pending == {"queued", "waiting", "slot", "calling"}
\* Sections that will not be answered any more.
Past(r) == {k \in specs[r] : task[r][k].at \notin Pending}

\* What an analysis was answered is in its stages or in the open counter.
ChargedFor(r) ==
  /\ phase[r] = "idle" => spent[r] = 0
  /\ phase[r] \in {"analyst", "writing"} => spent[r] <= used[r] + delta[r]
  /\ phase[r] \in {"done", "stopped"} => spent[r] <= used[r]
Charged == \A r \in Report : ChargedFor(r)

\* Nobody sends a call without an allowance.
AllowedFor(r) ==
  /\ calls[r].open => phase[r] = "analyst" /\ left[r] > 0
  /\ phase[r] = "writing" =>
       \A k \in specs[r] : task[r][k].at = "calling" => left[r] > 0
AllowedAll == \A r \in Report : AllowedFor(r)

\* Calls made in turn exceed the total by one prompt at most.
InTurn(r) == spent[r] <= Share /\ (left[r] > 0 => spent[r] + left[r] <= Limit)

\* Once sections are written, each may take the whole total again.
Writing(r) ==
  /\ Past(r) = {} => InTurn(r)
  /\ spent[r] <= Greatest(1, Cardinality(Past(r))) * Share

SpendsWell(r) ==
  /\ phase[r] = "idle" => used[r] = 0
  /\ phase[r] = "analyst" => InTurn(r)
  /\ phase[r] = "stopped" => spent[r] <= Share
  /\ phase[r] = "writing" => Writing(r)
  /\ phase[r] = "done" => spent[r] <= Greatest(1, Cardinality(specs[r])) * Share
Spending == \A r \in Report : SpendsWell(r)

BInv == TypeInv /\ SlotsAreCounted /\ Charged /\ AllowedAll /\ Spending

\* A share is a number of tokens.
LEMMA ShareType == Share \in Nat
  BY SectionsAssumption DEF Share

\* In an initial state nothing is spent.
LEMMA InitBudget == Init => BInv
  <1> SUFFICES ASSUME Init PROVE BInv
    OBVIOUS
  <1>1. TypeInv /\ SlotsAreCounted
    BY InitInv DEF IInv
  <1>2. Charged /\ AllowedAll /\ Spending
    BY DEF Init, Charged, ChargedFor, AllowedAll, AllowedFor, Spending, SpendsWell
  <1> QED
    BY <1>1, <1>2 DEF BInv

-----------------------------------------------------------------------------
(* What is charged. *)

\* Every answer is added to the open counter of its stage, and a stage that
\* ends takes its whole counter.
LEMMA ChargedStep ==
  ASSUME TypeInv, Charged, AllowedAll, [Next]_vars
  PROVE  Charged'
  <1> USE DEF TypeInv, Control, Counts, Charged, ChargedFor
  <1>1. ASSUME NEW o \in Report, StageStart(o) PROVE Charged'
    BY <1>1 DEF StageStart
  <1>2. ASSUME NEW o \in Report, StageEnd(o) PROVE Charged'
    <2>1. spent[o] <= used[o] + delta[o] /\ UNCHANGED spent
      BY <1>2 DEF StageEnd
    <2>2. used'[o] = used[o] + delta[o] /\ delta'[o] = 0 /\ phase'[o] \in {"writing", "stopped"}
      BY <1>2 DEF StageEnd
    <2>3. \A r \in Report : r # o =>
            UNCHANGED <<phase[r], used[r], delta[r]>>
      BY <1>2 DEF StageEnd
    <2> QED
      BY <2>1, <2>2, <2>3
  <1>3. ASSUME NEW o \in Report, NEW tokens \in Nat, phase[o] \in {"analyst", "writing"},
               RecordUsage(o, tokens), UNCHANGED <<phase, used>>
        PROVE  Charged'
    BY <1>3 DEF RecordUsage
  <1>4. ASSUME NEW o \in Report, Executed(o) PROVE Charged'
    <2>1. PICK ans \in Answer(left[o]) : RecordUsage(o, ans.tokens)
      BY <1>4 DEF Executed
    <2>2. ans.tokens \in Nat
      BY AnswerType
    <2>3. phase[o] = "analyst" /\ UNCHANGED <<phase, used>>
      BY <1>4 DEF Executed, AllowedAll, AllowedFor
    <2> QED
      BY <2>1, <2>2, <2>3, <1>3
  <1>5. ASSUME NEW o \in Report, NEW k \in Key, Answered(o, k) PROVE Charged'
    <2>1. PICK ans \in Answer(left[o]) : RecordUsage(o, ans.tokens)
      BY <1>5 DEF Answered, Allowance
    <2>2. ans.tokens \in Nat
      BY AnswerType
    <2>3. phase[o] = "writing" /\ UNCHANGED <<phase, used>>
      BY <1>5 DEF Answered, At
    <2> QED
      BY <2>1, <2>2, <2>3, <1>3
  <1>6. ASSUME NEW o \in Report, Merge(o) PROVE Charged'
    <2>1. spent[o] <= used[o] + delta[o] /\ UNCHANGED spent
      BY <1>6 DEF Merge
    <2>2. used'[o] = used[o] + delta[o] /\ phase'[o] = "done"
      BY <1>6 DEF Merge
    <2>3. \A r \in Report : r # o => UNCHANGED <<phase[r], used[r], delta[r]>>
      BY <1>6 DEF Merge
    <2> QED
      BY <2>1, <2>2, <2>3
  <1>7. ASSUME UNCHANGED <<phase, used, delta, spent>> PROVE Charged'
    BY <1>7
  <1>8. ASSUME NEW o \in Report,
               Cancel(o) \/ (\E sig \in Signature : Execute(o, sig))
               \/ (\E k \in Key : RecordResult(o, k) \/ TaskStart(o, k) \/ Acquire(o, k)
                                  \/ Saturated(o, k) \/ Send(o, k) \/ Leave(o, k))
        PROVE  UNCHANGED <<phase, used, delta, spent>>
    BY <1>8 DEF TaskStart, Acquire, Saturated, Send, Leave, RecordResult, Cancel, Execute, run
  <1>9. CASE Finish \/ UNCHANGED vars
    BY <1>9 DEF Finish, vars
  <1> QED
    BY <1>1, <1>2, <1>4, <1>5, <1>6, <1>7, <1>8, <1>9 DEF Next, GraphThread, Worker

-----------------------------------------------------------------------------
(* What is allowed. *)

\* Only Send puts a section on a call; every other step of a section leaves
\* the sections on a call as they are, or takes one off.
LEMMA AllowedMove ==
  ASSUME TypeInv, AllowedAll, NEW o \in Report, NEW k \in Key, NEW was, At(o, k, was),
         NEW to \in Entry, Goes(o, k, to), to.at = "calling" => left[o] > 0,
         UNCHANGED <<specs, phase, calls, left>>
  PROVE  AllowedAll'
  <1>1. \A r \in Report : r # o => task'[r] = task[r]
    BY DEF Goes, TypeInv, TasksType
  <1>2. \A j \in specs[o] : task'[o][j] = IF j = k THEN to ELSE task[o][j]
    BY DEF Goes, At, TypeInv, TasksType
  <1> QED
    BY <1>1, <1>2 DEF AllowedAll, AllowedFor

\* No step puts a call on its way without an allowance.
LEMMA AllowedStep ==
  ASSUME TypeInv, AllowedAll, [Next]_vars
  PROVE  AllowedAll'
  <1>1. ASSUME NEW o \in Report, NEW k \in Key,
               TaskStart(o, k) \/ Acquire(o, k) \/ Saturated(o, k) \/ Send(o, k) \/ Leave(o, k)
        PROVE  AllowedAll'
    <2>1. PICK was, to \in Entry :
            At(o, k, was) /\ Goes(o, k, to) /\ (to.at = "calling" => left[o] > 0)
      BY <1>1 DEF TaskStart, Acquire, Saturated, Send, Leave, On, As, Entry, Place, Status, Allowance
    <2>2. UNCHANGED <<specs, phase, calls, left>>
      BY <1>1 DEF TaskStart, Acquire, Saturated, Send, Leave, run
    <2> QED
      BY <2>1, <2>2, AllowedMove
  <1>2. ASSUME NEW o \in Report, NEW k \in Key, Answered(o, k) PROVE AllowedAll'
    <2>1. PICK ans \in Answer(left[o]) :
            left' = LeftAfter(o, ans.tokens) /\ Goes(o, k, As("leaving", StatusAfter(o, ans)))
      BY <1>2 DEF Answered, Allowance
    <2>2. At(o, k, On("calling")) /\ UNCHANGED <<specs, phase, calls>>
      BY <1>2 DEF Answered
    <2>3. As("leaving", StatusAfter(o, ans)) \in Entry
      BY DEF As, StatusAfter, Entry, Place, Status
    <2>4. CASE ~Inline(o)
      <3>1. left' = left
        BY <2>1, <2>4 DEF LeftAfter
      <3> QED
        BY <2>1, <2>2, <2>3, <3>1, AllowedMove DEF As
    <2>5. CASE Inline(o)
      <3>1. IsFiniteSet(specs[o])
        <4>1. specs[o] \in SUBSET UNION Tasks[o]
          BY DEF TypeInv, Control
        <4> QED
          BY <4>1, FS_Subset, SectionsAssumption
      <3>2. specs[o] = {k}
        BY <2>2, <2>5, <3>1, FS_Singleton DEF Inline, At
      <3>3. task'[o][k].at = "leaving"
        BY <2>1, <2>2 DEF Goes, At, As, TypeInv, TasksType
      <3>4. ~calls[o].open
        BY <2>2 DEF AllowedAll, AllowedFor, At
      <3>5. \A r \in Report : r # o => task'[r] = task[r] /\ left'[r] = left[r]
        BY <2>1, <2>5 DEF Goes, LeftAfter, TypeInv, TasksType, Counts
      <3> QED
        BY <2>2, <3>2, <3>3, <3>4, <3>5 DEF AllowedAll, AllowedFor
    <2> QED
      BY <2>4, <2>5
  <1>3. ASSUME NEW o \in Report, NEW k \in Key, RecordResult(o, k) PROVE AllowedAll'
    <2>1. PICK s \in Status :
            /\ At(o, k, As("finished", s))
            /\ task' = [task EXCEPT ![o] = [CancelPending(o) EXCEPT ![k] = As("recorded", s)]]
            /\ UNCHANGED <<specs, phase, calls, left>>
      BY <1>3 DEF RecordResult, run
    <2>2. \A j \in specs[o] : CancelPending(o)[j] \in {task[o][j], As("finished", "cancelled")}
      BY DEF CancelPending
    <2>3. DOMAIN CancelPending(o) = specs[o]
      BY <2>1 DEF CancelPending, At, TypeInv, TasksType
    <2>4. task'[o] = [CancelPending(o) EXCEPT ![k] = As("recorded", s)]
      BY <2>1 DEF TypeInv, TasksType
    <2>5. \A r \in Report : r # o => task'[r] = task[r]
      BY <2>1 DEF TypeInv, TasksType
    <2>6. \A j \in specs[o] : task'[o][j].at = "calling" => task[o][j].at = "calling"
      BY <2>2, <2>3, <2>4 DEF As
    <2> QED
      BY <2>1, <2>5, <2>6 DEF AllowedAll, AllowedFor
  <1> USE DEF TypeInv, Control, Counts, AllowedAll, AllowedFor
  <1>4. ASSUME NEW o \in Report, NEW sig \in Signature, Execute(o, sig) PROVE AllowedAll'
    <2>1. /\ calls' = [calls EXCEPT ![o] =
               [made |-> @.made + 1, open |-> ~cancelled[o] /\ ~Tripped(o, sig) /\ left[o] > 0]]
          /\ phase[o] = "analyst" /\ UNCHANGED <<specs, phase, left, task>>
      BY <1>4 DEF Execute
    <2>2. \A r \in Report : r # o => calls'[r] = calls[r]
      BY <2>1
    <2>3. calls'[o].open => left[o] > 0
      BY <2>1
    <2> QED
      BY <2>1, <2>2, <2>3
  <1>5. ASSUME NEW o \in Report, Executed(o) PROVE AllowedAll'
    <2>1. calls' = [calls EXCEPT ![o].open = FALSE] /\ phase[o] = "analyst"
          /\ UNCHANGED <<specs, phase, task>>
      BY <1>5 DEF Executed
    <2>2. \A r \in Report : r # o => calls'[r] = calls[r] /\ left'[r] = left[r]
      BY <1>5, <2>1 DEF Executed
    <2>3. ~calls'[o].open
      BY <2>1
    <2> QED
      BY <2>1, <2>2, <2>3
  <1>6. ASSUME NEW o \in Report, StageStart(o) \/ StageEnd(o) PROVE AllowedAll'
    <2>1. ~calls[o].open /\ specs' = specs
      BY <1>6 DEF StageStart, StageEnd
    <2>2. ~calls'[o].open
      <3>1. CASE calls' = calls
        BY <2>1, <3>1
      <3>2. CASE calls' = [calls EXCEPT ![o].made = 0]
        BY <2>1, <3>2
      <3> QED
        BY <1>6, <3>1, <3>2 DEF StageStart, StageEnd
    <2>3. \A r \in Report : r # o =>
            calls'[r] = calls[r] /\ left'[r] = left[r] /\ phase'[r] = phase[r] /\ task'[r] = task[r]
      BY <1>6 DEF StageStart, StageEnd, TasksType
    <2>4. phase'[o] = "writing" => task'[o] = [k \in specs[o] |-> On("queued")]
      BY <1>6 DEF StageStart, StageEnd, TasksType
    <2> QED
      BY <2>1, <2>2, <2>3, <2>4 DEF On
  <1>7. ASSUME NEW o \in Report, Merge(o) PROVE AllowedAll'
    BY <1>7 DEF Merge
  <1>8. ASSUME UNCHANGED <<specs, phase, calls, left, task>> PROVE AllowedAll'
    BY <1>8
  <1>9. CASE (\E o \in Report : Cancel(o)) \/ Finish \/ UNCHANGED vars
    BY <1>8, <1>9 DEF Cancel, Finish, vars, run
  <1> QED
    BY <1>1, <1>2, <1>3, <1>4, <1>5, <1>6, <1>7, <1>9 DEF Next, GraphThread, Worker

-----------------------------------------------------------------------------
(* What is spent. *)

\* A section that is over stays over.
LEMMA Shares ==
  ASSUME NEW m \in Nat, NEW n \in Nat, m <= n
  PROVE  /\ Greatest(1, m) * Share \in Nat /\ Share <= Greatest(1, m) * Share
         /\ Greatest(1, m) * Share <= Greatest(1, n) * Share
         /\ (m \in Nat \ {0}) => Greatest(1, m) * Share + Share = Greatest(1, m + 1) * Share
  <1> DEFINE g == Greatest(1, m)
             h == Greatest(1, n)
  <1>1. g \in Nat \ {0} /\ h \in Nat /\ g <= h /\ (m # 0 => Greatest(1, m + 1) = g + 1)
    BY DEF Greatest
  <1> HIDE DEF g, h
  <1>2. \A x, y, z \in Nat : x <= y => x * z \in Nat /\ x * z <= y * z
    OBVIOUS
  <1>3. \A x, z \in Nat : (x + 1) * z = x * z + z
    OBVIOUS
  <1>4. 1 * Share = Share
    BY ShareType
  <1>5. Share <= g * Share
    BY <1>1, <1>2, <1>4, ShareType
  <1>6. g * Share \in Nat /\ g * Share <= h * Share
    BY <1>1, <1>2, ShareType
  <1>7. m # 0 => g * Share + Share = (g + 1) * Share
    BY <1>1, <1>3, ShareType
  <1> QED
    BY <1>1, <1>5, <1>6, <1>7 DEF g, h

\* The sections of a report are finitely many.
LEMMA FiniteSections ==
  ASSUME NEW r \in Report, NEW all \in Tasks[r], NEW some \in SUBSET all
  PROVE  /\ IsFiniteSet(all) /\ Cardinality(all) \in Nat
         /\ IsFiniteSet(some) /\ Cardinality(some) \in Nat
         /\ Cardinality(some) <= Cardinality(all)
  <1>1. all \in SUBSET UNION Tasks[r]
    OBVIOUS
  <1>2. IsFiniteSet(all)
    BY <1>1, FS_Subset, SectionsAssumption
  <1>3. IsFiniteSet(some) /\ Cardinality(some) <= Cardinality(all)
    BY <1>2, FS_Subset
  <1> QED
    BY <1>2, <1>3, FS_CardinalityType

\* An analysis that a step does not concern has spent what it had.
LEMMA SpendsSame ==
  ASSUME NEW r \in Report, SpendsWell(r),
         UNCHANGED <<specs[r], phase[r], left[r], used[r], spent[r], task[r]>>
  PROVE  SpendsWell(r)'
  BY DEF SpendsWell, InTurn, Writing, Past

\* A step of a section that is not answered keeps the bound: sections that
\* are over stay over.
LEMMA SpendsQuiet ==
  ASSUME Control, Control', Counts, NEW r \in Report, SpendsWell(r), phase[r] = "writing",
         UNCHANGED <<specs[r], phase[r], left[r], spent[r]>>, Past(r) \subseteq Past(r)'
  PROVE  SpendsWell(r)'
  <1>1. /\ IsFiniteSet(Past(r)') /\ Cardinality(Past(r)') \in Nat
        /\ Cardinality(Past(r)) \in Nat
    <2>1. Past(r)' \in SUBSET specs'[r] /\ specs'[r] \in Tasks[r]
      BY DEF Past, Control
    <2>2. Past(r) \in SUBSET specs[r] /\ specs[r] \in Tasks[r]
      BY DEF Past, Control
    <2> QED
      BY <2>1, <2>2, FiniteSections
  <1>2. Cardinality(Past(r)) <= Cardinality(Past(r)')
    BY <1>1, FS_Subset
  <1>3. Greatest(1, Cardinality(Past(r))) * Share <= Greatest(1, Cardinality(Past(r)')) * Share
        /\ Greatest(1, Cardinality(Past(r))) * Share \in Nat
        /\ Greatest(1, Cardinality(Past(r)')) * Share \in Nat
    BY <1>1, <1>2, Shares
  <1>4. spent'[r] <= Greatest(1, Cardinality(Past(r)')) * Share
    BY <1>3 DEF SpendsWell, Writing, Counts
  <1>5. Past(r)' = {} => InTurn(r)'
    BY DEF SpendsWell, Writing, InTurn
  <1> QED
    BY <1>4, <1>5 DEF SpendsWell, Writing

\* An answer is worth at most what was left and one prompt.
LEMMA AnswerBound ==
  ASSUME NEW budget \in 0 .. Limit, budget > 0, NEW ans \in Answer(budget)
  PROVE  ans.tokens <= budget + Input
  BY SectionsAssumption DEF Answer, Failed, Usage, Clamp, Least, Greatest

\* A call leaves what was used and what is left within the total, or uses up
\* the allowance and one prompt.
LEMMA TurnBound ==
  ASSUME NEW before \in Nat, NEW budget \in 0 .. Limit, budget > 0,
         before + budget <= Limit, NEW ans \in Answer(budget)
  PROVE  /\ before + ans.tokens <= Share
         /\ Consume(budget, ans.tokens) > 0 =>
              before + ans.tokens + Consume(budget, ans.tokens) <= Limit
  <1>1. ans.tokens \in Nat /\ ans.tokens <= budget + Input
    BY AnswerType, AnswerBound
  <1> QED
    BY <1>1, SectionsAssumption DEF Share, Consume, Greatest

\* One section more is answered.
LEMMA SpendsAnswered ==
  ASSUME BInv, Control', NEW o \in Report, NEW k \in Key, Answered(o, k)
  PROVE  SpendsWell(o)'
  <1> USE DEF BInv, TypeInv
  <1>1. PICK ans \in Answer(left[o]) :
          RecordUsage(o, ans.tokens) /\ Goes(o, k, As("leaving", StatusAfter(o, ans)))
    BY DEF Answered, Allowance
  <1>2. At(o, k, On("calling")) /\ UNCHANGED <<specs, phase>>
    BY DEF Answered
  <1>3. left[o] \in 0 .. Limit /\ left[o] > 0 /\ spent[o] \in Nat
    BY <1>2 DEF At, On, AllowedAll, AllowedFor, Counts
  <1>4. ans.tokens \in Nat /\ ans.tokens <= left[o] + Input /\ left[o] + Input <= Share
    BY <1>3, AnswerType, AnswerBound, SectionsAssumption DEF Share
  <1>5. spent'[o] = spent[o] + ans.tokens
    BY <1>1, <1>3 DEF RecordUsage, Counts
  <1>6. k \notin Past(o) /\ Past(o)' = Past(o) \cup {k}
    BY <1>1, <1>2 DEF Past, At, On, As, Goes, Pending, TasksType
  <1>7. /\ Past(o) \in SUBSET specs[o] /\ specs[o] \in Tasks[o]
    BY DEF Past, Control
  <1>8. IsFiniteSet(Past(o)) /\ Cardinality(Past(o)) \in Nat
    BY <1>7, FiniteSections
  <1>9. Cardinality(Past(o)') = Cardinality(Past(o)) + 1
    BY <1>6, <1>8, FS_AddElement
  <1>10. Writing(o) /\ phase[o] = "writing"
    BY <1>2 DEF At, Spending, SpendsWell
  <1>11. spent'[o] <= Greatest(1, Cardinality(Past(o)')) * Share
    <2> DEFINE m == Cardinality(Past(o))
    <2>1. CASE m = 0
      <3>1. Past(o) = {}
        BY <1>8, <2>1, FS_EmptySet
      <3>2. spent[o] + left[o] <= Limit
        BY <1>3, <1>10, <3>1 DEF Writing, InTurn
      <3>3. spent'[o] <= Share
        BY <1>3, <1>4, <1>5, <3>2, SectionsAssumption DEF Share
      <3>4. Greatest(1, Cardinality(Past(o)')) = 1
        BY <1>9, <2>1 DEF Greatest
      <3> QED
        BY <3>3, <3>4, ShareType
    <2>2. CASE m # 0
      <3>1. Greatest(1, m) * Share + Share = Greatest(1, m + 1) * Share /\ Greatest(1, m) * Share \in Nat
        BY <1>8, <2>2, Shares
      <3>2. spent[o] <= Greatest(1, m) * Share
        BY <1>10 DEF Writing
      <3> DEFINE g == Greatest(1, m) * Share
      <3>3. g \in Nat /\ spent[o] <= g
        BY <3>1, <3>2
      <3> HIDE DEF g
      <3>4. spent'[o] <= g + Share
        BY <1>3, <1>4, <1>5, <3>3, ShareType, SectionsAssumption
      <3>5. g + Share = Greatest(1, Cardinality(Past(o)')) * Share
        BY <1>9, <3>1 DEF g
      <3> QED
        BY <3>4, <3>5
    <2> QED
      BY <2>1, <2>2
  <1> QED
    BY <1>2, <1>6, <1>10, <1>11 DEF SpendsWell, Writing

\* Every step keeps the bound on what an analysis has spent.
LEMMA SpendingStep ==
  ASSUME BInv, Control', [Next]_vars
  PROVE  Spending'
  <1> USE DEF BInv, TypeInv, Spending
  <1>1. ASSUME NEW o \in Report, StageStart(o) PROVE Spending'
    <2>1. used[o] = 0 /\ spent[o] = 0
      BY <1>1 DEF StageStart, SpendsWell, Charged, ChargedFor
    <2>2. left'[o] <= Limit /\ phase'[o] = "analyst" /\ spent'[o] = 0
      BY <1>1, <2>1, BudgetType DEF StageStart, Counts, Control
    <2>3. SpendsWell(o)'
      BY <2>2, ShareType, <1>1, <2>1, BudgetType DEF SpendsWell, InTurn, StageStart, Counts
    <2>4. ASSUME NEW r \in Report, r # o PROVE SpendsWell(r)'
      BY <1>1, <2>4, SpendsSame DEF StageStart
    <2> QED
      BY <2>3, <2>4
  <1>2. ASSUME NEW o \in Report, Executed(o) PROVE Spending'
    <2>1. PICK ans \in Answer(left[o]) :
            RecordUsage(o, ans.tokens) /\ left' = [left EXCEPT ![o] = Consume(@, ans.tokens)]
      BY <1>2 DEF Executed
    <2>2. phase[o] = "analyst" /\ left[o] > 0 /\ UNCHANGED <<specs, phase, used, task>>
      BY <1>2 DEF Executed, AllowedAll, AllowedFor
    <2>3. InTurn(o) /\ left[o] \in 0 .. Limit /\ spent[o] \in Nat
      BY <2>2 DEF SpendsWell, Counts
    <2>4. spent'[o] = spent[o] + ans.tokens /\ left'[o] = Consume(left[o], ans.tokens)
      BY <2>1 DEF RecordUsage, Counts
    <2>5. InTurn(o)'
      BY <2>2, <2>3, <2>4, TurnBound DEF InTurn
    <2>6. SpendsWell(o)'
      BY <2>2, <2>5 DEF SpendsWell
    <2>7. ASSUME NEW r \in Report, r # o PROVE SpendsWell(r)'
      <3>1. UNCHANGED <<spent[r], left[r]>>
        BY <2>1, <2>7 DEF RecordUsage, Counts
      <3> QED
        BY <2>2, <3>1, SpendsSame
    <2> QED
      BY <2>6, <2>7
  <1>3. ASSUME NEW o \in Report, StageEnd(o) PROVE Spending'
    <2> DEFINE total == used[o] + delta[o]
    <2>1. total \in Nat /\ spent[o] <= total /\ spent[o] <= Share /\ spent[o] \in Nat
      BY <1>3 DEF StageEnd, Charged, ChargedFor, SpendsWell, InTurn, Counts
    <2>2. spent' = spent /\ specs' = specs
      BY <1>3 DEF StageEnd
    <2> DEFINE Same(r) == UNCHANGED <<specs[r], phase[r], left[r], used[r], spent[r], task[r]>>
    <2>3. CASE cancelled[o]
      <3>1. phase'[o] = "stopped"
        BY <1>3, <2>3 DEF StageEnd, Control
      <3> QED
        <4>1. SpendsWell(o)'
          BY <2>1, <2>2, <3>1 DEF SpendsWell
        <4>2. ASSUME NEW r \in Report, r # o PROVE SpendsWell(r)'
          <5>1. Same(r)
            BY <1>3, <2>3, <4>2 DEF StageEnd, Control, Counts, TasksType
          <5> QED
            BY <5>1, SpendsSame
        <4> QED
          BY <4>1, <4>2
    <2>4. CASE ~cancelled[o]
      <3>1. phase'[o] = "writing" /\ left'[o] = Greatest(0, Limit - total)
        BY <1>3, <2>4 DEF StageEnd, Control, Counts, LimitsForStage, Remaining
      <3>2. task'[o] = [k \in specs[o] |-> On("queued")]
        BY <1>3, <2>4 DEF StageEnd, TasksType
      <3>3. Past(o)' = {}
        BY <2>2, <3>2 DEF Past, Pending, On
      <3>4. Greatest(1, Cardinality(Past(o)')) * Share = Share
        BY <3>3, FS_EmptySet, ShareType DEF Greatest
      <3>5. InTurn(o)'
        BY <2>1, <2>2, <3>1, SectionsAssumption DEF InTurn, Greatest
      <3>6. SpendsWell(o)'
        BY <2>1, <2>2, <3>1, <3>4, <3>5 DEF SpendsWell, Writing
      <3>7. ASSUME NEW r \in Report, r # o PROVE SpendsWell(r)'
        <4>1. Same(r)
          BY <1>3, <2>4, <3>7 DEF StageEnd, Control, Counts, TasksType
        <4> QED
          BY <4>1, SpendsSame
      <3> QED
        BY <3>6, <3>7
    <2> QED
      BY <2>3, <2>4
  <1>4. ASSUME NEW o \in Report, Merge(o) PROVE Spending'
    <2>1. Past(o) = specs[o] /\ Writing(o)
      BY <1>4 DEF Merge, Complete, Past, Pending, SpendsWell
    <2>2. phase'[o] = "done" /\ UNCHANGED <<specs, spent>>
      BY <1>4 DEF Merge, Control
    <2>3. SpendsWell(o)'
      BY <2>1, <2>2 DEF SpendsWell, Writing
    <2>4. ASSUME NEW r \in Report, r # o PROVE SpendsWell(r)'
      BY <1>4, <2>4, SpendsSame DEF Merge
    <2> QED
      BY <2>3, <2>4
  <1>5. ASSUME NEW o \in Report, NEW k \in Key, Answered(o, k) PROVE Spending'
    <2>1. SpendsWell(o)'
      BY <1>5, SpendsAnswered
    <2>2. ASSUME NEW r \in Report, r # o PROVE SpendsWell(r)'
      <3>1. UNCHANGED <<specs[r], phase[r], used[r], spent[r], left[r]>>
        BY <1>5, <2>2 DEF Answered, RecordUsage, LeftAfter, Counts
      <3>2. UNCHANGED task[r]
        BY <1>5, <2>2 DEF Answered, Goes, TasksType
      <3> QED
        BY <3>1, <3>2, SpendsSame
    <2> QED
      BY <2>1, <2>2
  <1>6. ASSUME NEW o \in Report, UNCHANGED <<specs, phase, left, used, spent>>,
               \A r \in Report : r # o => task'[r] = task[r],
               phase[o] = "writing", Past(o) \subseteq Past(o)'
        PROVE  Spending'
    <2>1. SpendsWell(o)'
      BY <1>6, SpendsQuiet
    <2>2. ASSUME NEW r \in Report, r # o PROVE SpendsWell(r)'
      BY <1>6, <2>2, SpendsSame
    <2> QED
      BY <2>1, <2>2
  <1>7. ASSUME NEW o \in Report, NEW k \in Key,
               TaskStart(o, k) \/ Acquire(o, k) \/ Saturated(o, k) \/ Send(o, k) \/ Leave(o, k)
        PROVE  Spending'
    <2>1. PICK was, to \in Entry :
            /\ At(o, k, was) /\ Goes(o, k, to)
            /\ to.at \in Pending => was.at \in Pending
      BY <1>7 DEF TaskStart, Acquire, Saturated, Send, Leave, On, As, Entry, Place, Status, Pending
    <2>2. UNCHANGED <<specs, phase, left, used, spent>>
      BY <1>7 DEF TaskStart, Acquire, Saturated, Send, Leave, run
    <2>3. \A r \in Report : r # o => task'[r] = task[r]
      BY <2>1 DEF Goes, TasksType
    <2>4. Past(o) \subseteq Past(o)'
      BY <2>1, <2>2 DEF Past, At, Goes, TasksType
    <2> QED
      BY <1>6, <2>1, <2>2, <2>3, <2>4 DEF At
  <1>8. ASSUME NEW o \in Report, NEW k \in Key, RecordResult(o, k) PROVE Spending'
    <2>1. PICK s \in Status :
            /\ At(o, k, As("finished", s))
            /\ task' = [task EXCEPT ![o] = [CancelPending(o) EXCEPT ![k] = As("recorded", s)]]
            /\ UNCHANGED <<specs, phase, left, used, spent>>
      BY <1>8 DEF RecordResult, run
    <2>2. \A j \in specs[o] : CancelPending(o)[j] \in {task[o][j], As("finished", "cancelled")}
      BY DEF CancelPending
    <2>3. DOMAIN CancelPending(o) = specs[o]
      BY <2>1 DEF CancelPending, At, TasksType
    <2>4. task'[o] = [CancelPending(o) EXCEPT ![k] = As("recorded", s)]
      BY <2>1 DEF TasksType
    <2>5. \A r \in Report : r # o => task'[r] = task[r]
      BY <2>1 DEF TasksType
    <2>6. Past(o) \subseteq Past(o)'
      BY <2>1, <2>2, <2>3, <2>4 DEF Past, Pending, As
    <2> QED
      BY <1>6, <2>1, <2>5, <2>6 DEF At
  <1>9. ASSUME UNCHANGED <<specs, phase, left, used, spent, task>> PROVE Spending'
    BY <1>9, SpendsSame
  <1>10. ASSUME NEW o \in Report, Cancel(o) \/ (\E sig \in Signature : Execute(o, sig))
         PROVE  Spending'
    BY <1>9, <1>10 DEF Cancel, Execute, run
  <1>11. CASE Finish \/ UNCHANGED vars
    BY <1>9, <1>11 DEF Finish, vars
  <1> QED
    BY <1>1, <1>2, <1>3, <1>4, <1>5, <1>7, <1>8, <1>10, <1>11 DEF Next, GraphThread, Worker

-----------------------------------------------------------------------------
(* The theorem. *)

\* The invariant is inductive.
LEMMA StepBudget == BInv /\ [Next]_vars => BInv'
  <1> SUFFICES ASSUME BInv, [Next]_vars PROVE BInv'
    OBVIOUS
  <1>1. TypeInv' /\ SlotsAreCounted'
    BY TypeStep, CountStep DEF BInv
  <1>2. Charged' /\ AllowedAll' /\ Spending'
    BY <1>1, ChargedStep, AllowedStep, SpendingStep DEF BInv, TypeInv
  <1> QED
    BY <1>1, <1>2 DEF BInv

\* An analysis uses at most its total budget and a prompt for every section it
\* writes in parallel, and is charged with all of it (budget.py, executor.py):
\* for any analyses, sections, slots and budgets.
THEOREM BudgetTheorem == Spec => []BudgetHolds
  <1>1. BInv => BudgetHolds
    <2> SUFFICES ASSUME BInv, NEW r \in Report
                 PROVE  /\ spent[r] <= Greatest(1, Cardinality(specs[r])) * Share
                        /\ phase[r] \in {"done", "stopped"} => used[r] >= spent[r]
      BY DEF BudgetHolds, Share
    <2> USE DEF BInv, TypeInv
    <2>1. Past(r) \in SUBSET specs[r] /\ specs[r] \in Tasks[r]
      BY DEF Past, Control
    <2>2. /\ Cardinality(specs[r]) \in Nat /\ Cardinality(Past(r)) \in Nat
          /\ Cardinality(Past(r)) <= Cardinality(specs[r])
      BY <2>1, FiniteSections
    <2> DEFINE all == Greatest(1, Cardinality(specs[r])) * Share
               past == Greatest(1, Cardinality(Past(r))) * Share
    <2>3. all \in Nat /\ past \in Nat /\ Share <= all /\ past <= all
      BY <2>2, Shares
    <2>4. phase[r] \in Phase /\ spent[r] \in Nat /\ SpendsWell(r) /\ ChargedFor(r) /\ used[r] \in Nat
      BY DEF Control, Counts, Spending, Charged
    <2>5. \/ spent[r] = 0 \/ spent[r] <= Share \/ spent[r] <= past \/ spent[r] <= all
      BY <2>4 DEF Phase, SpendsWell, ChargedFor, InTurn, Writing
    <2> HIDE DEF all, past
    <2>6. spent[r] <= all
      BY <2>3, <2>4, <2>5, ShareType
    <2> QED
      BY <2>4, <2>6 DEF all, ChargedFor
  <1> QED
    BY InitBudget, StepBudget, <1>1, PTL DEF Spec

-----------------------------------------------------------------------------
(* VersionTree: the inductive invariant. *)

Version == [number : 1 .. MaxVersions, parent : 0 .. MaxVersions, content : 1 .. MaxVersions + 1,
            approved : BOOLEAN]
Checkpoint == [parent : Nat, vals : [Field -> Score], forked : BOOLEAN]

\* The contents that a row has or will have.  Each was made for one row, which is
\* why there are no more rows than contents.
Unsaved(a) == IF writer[a].content = 0 THEN 0 ELSE 1

RowsShape ==
  /\ rows \in Seq(Version)
  /\ from \in Seq(Nat) /\ Len(from) <= MaxVersions + 1
  /\ Len(rows) + Unsaved("edit") + Unsaved("rework") <= Len(from)
  /\ report \in 0 .. Len(from) /\ forkMark \in 0 .. MaxVersions

WriterState ==
  [pc : {"idle", "run", "save", "insert"}, parent : 0 .. MaxVersions,
   content : 0 .. MaxVersions + 1, number : 0 .. MaxVersions]

WritersShape ==
  /\ writer \in [Actor -> WriterState]
  /\ writer["edit"].pc # "run"
  /\ \A a \in Actor : /\ writer[a].pc \in {"save", "insert"} <=> writer[a].content # 0
                      /\ writer[a].pc = "insert" => writer[a].number # 0
  /\ writer["edit"].pc = "save" => writer["edit"].parent = 0
  /\ writer["edit"].pc = "insert" => writer["edit"].parent < writer["edit"].number

\* The latest version exists, so the next number is one.
HasLatest == \E n \in Numbers : \A m \in Numbers : m <= n

\* Whatever is going to be a parent is the number of a row.
ParentsExist ==
  /\ forkMark # 0 => forkMark \in Numbers
  /\ \A a \in Actor : writer[a].parent # 0 => writer[a].parent \in Numbers

RowsKnown ==
  \A i \in 1 .. Len(rows) :
    rows[i].parent # 0 => \E j \in 1 .. i - 1 : rows[j].number = rows[i].parent

ReportsInv == RowsShape /\ WritersShape /\ HasLatest /\ ParentsExist /\ RowsKnown

TreeShape ==
  /\ ck \in Seq(Checkpoint) /\ Len(ck) > 0
  /\ \A i \in 1 .. Len(ck) : ck[i].parent \in 0 .. i
  /\ cache \in [built : BOOLEAN, ids : SUBSET (1 .. Len(ck))]
  /\ faults \in 0 .. MaxFaults

CacheKnown == cache.built => \A i \in 1 .. Len(ck) : ck[i].forked => i \in cache.ids

AgentRecord ==
  agent = [op |-> agent.op, pc |-> agent.pc, base |-> agent.base, branches |-> agent.branches,
           todo |-> agent.todo, made |-> agent.made]

\* An operation of AgentBranchOps refers to checkpoints that are there.
AgentShape ==
  /\ AgentRecord
  /\ agent.op \in Op /\ agent.pc \in {"fork", "tag"} /\ agent.base \in 0 .. Len(ck)
  /\ agent.branches \in Seq(Nat) /\ agent.made \in Seq(Nat)
  /\ agent.op # "none" => agent.base # 0
  /\ agent.op = "none" => agent = NoOp
  /\ \A i \in 1 .. Len(agent.branches) : agent.branches[i] \in 1 .. Len(ck)
  /\ \A i \in 1 .. Len(agent.made) : agent.made[i] \in 1 .. Len(ck)
  /\ agent.pc = "tag" => agent.made # <<>>
  /\ agent.op = "pick" => Len(agent.branches) = 1
  /\ agent.op \in {"overall", "fields"} => Len(agent.branches) = 2
  /\ agent.op \in {"explore", "test"} => agent.todo \in Seq(Score)
  /\ agent.op \in {"pick", "overall", "fields"} => agent.todo \in Seq(Field)

\* A merge of fields goes through them in order, and the fields behind it have
\* their best value in the checkpoint it has come to.
Dominates(i, f) == \A j \in 1 .. Len(agent.branches) : ck[i].vals[f] >= ck[agent.branches[j]].vals[f]
FieldsMerged ==
  agent.op = "fields" =>
    /\ agent.todo \in {<<"coverage", "data">>, <<"data">>, <<>>}
    /\ faults = 0 => \A f \in Field : (\A i \in 1 .. Len(agent.todo) : agent.todo[i] # f) => Dominates(Merged, f)

TreeInv == TreeShape /\ CacheKnown /\ AgentShape /\ FieldsMerged

TreeIInv == half \in {"reports", "checkpoints"} /\ ReportsInv /\ TreeInv

-----------------------------------------------------------------------------
(* Report versions. *)

\* What a row of the thread is.
LEMMA RowIs ==
  ASSUME ReportsInv
  PROVE  /\ rows \in Seq(Version) /\ Len(rows) \in Nat
         /\ \A i \in 1 .. Len(rows) : rows[i] \in Version
  BY ElementOfSeq DEF ReportsInv, RowsShape

\* _persist_report_version finds the highest number of the thread.
LEMMA LatestIs ==
  ASSUME ReportsInv
  PROVE  /\ Numbers \subseteq 1 .. MaxVersions
         /\ Latest \in Numbers /\ \A m \in Numbers : m <= Latest
  <1>1. Numbers \subseteq 1 .. MaxVersions
    BY RowIs DEF Numbers, Version
  <1>2. Latest \in Numbers /\ \A m \in Numbers : m <= Latest
    BY DEF ReportsInv, HasLatest, Latest
  <1> QED
    BY <1>1, <1>2

\* While no row is written the versions of the rows stays what it is.
LEMMA SameRows ==
  ASSUME ReportsInv, rows' = rows, RowsShape', WritersShape', ParentsExist'
  PROVE  ReportsInv'
  BY DEF ReportsInv, HasLatest, RowsKnown, Numbers

\* A new report is one more content.
LEMMA ContentIsNew ==
  ASSUME ReportsInv, NewContent(report)
  PROVE  /\ from' \in Seq(Nat) /\ Len(from) \in Nat /\ Len(from') = Len(from) + 1
         /\ report' = Len(from) + 1
  <1>1. from \in Seq(Nat) /\ report \in Nat
    BY DEF ReportsInv, RowsShape
  <1> QED
    BY <1>1 DEF NewContent

LEMMA EditKeeps ==
  ASSUME BoundAssumption, ReportsInv, Edit
  PROVE  ReportsInv'
  <1>1. /\ from' \in Seq(Nat) /\ Len(from) \in Nat /\ Len(from') = Len(from) + 1
        /\ report' = Len(from) + 1
    BY ContentIsNew DEF Edit
  <1>2. /\ writer'["edit"] = [pc |-> "save", parent |-> 0, content |-> Len(from) + 1, number |-> 0]
        /\ writer'["rework"] = writer["rework"] /\ writer["edit"].pc = "idle"
    BY DEF ReportsInv, WritersShape, WriterState, Edit, Actor, Rest
  <1>3. writer["edit"].content = 0
    BY <1>2 DEF ReportsInv, WritersShape, WriterState, Actor
  <1>4. RowsShape'
    <2>1. Unsaved("edit") = 0 /\ Unsaved("edit")' = 1 /\ Unsaved("rework")' = Unsaved("rework")
      BY <1>1, <1>2, <1>3 DEF Unsaved
    <2>2. rows' = rows /\ forkMark' = forkMark /\ Len(from) <= MaxVersions
      BY DEF Edit
    <2>3. Unsaved("rework") \in Nat
      BY DEF Unsaved
    <2> QED
      BY <1>1, <2>1, <2>2, <2>3, RowIs DEF BoundAssumption, ReportsInv, RowsShape
  <1>5. WritersShape'
    <2>1. writer' \in [Actor -> WriterState]
      <3>1. Len(from) + 1 \in 0 .. MaxVersions + 1
        BY <1>1 DEF Edit, BoundAssumption
      <3>2. [pc |-> "save", parent |-> 0, content |-> Len(from) + 1, number |-> 0] \in WriterState
        BY <3>1 DEF BoundAssumption, WriterState
      <3> QED
        BY <3>2 DEF ReportsInv, WritersShape, WriterState, Edit, Rest, Actor
    <2> QED
      BY <1>1, <1>2, <2>1 DEF ReportsInv, WritersShape, WriterState, Actor
  <1>6. ParentsExist'
    BY DEF ReportsInv, WritersShape, WriterState, ParentsExist, Edit, Actor, Rest, Numbers
  <1> QED
    BY <1>4, <1>5, <1>6, SameRows DEF Edit

LEMMA DecideKeeps ==
  ASSUME BoundAssumption, ReportsInv, NEW v \in 0 .. MaxVersions, Decide(v)
  PROVE  ReportsInv'
  <1>1. RowsShape'
    BY DEF BoundAssumption, ReportsInv, RowsShape, WritersShape, WriterState, Decide, Unsaved, Actor
  <1>2. WritersShape'
    BY DEF BoundAssumption, ReportsInv, RowsShape, WritersShape, WriterState, Decide, Actor
  <1>3. ParentsExist'
    BY DEF ReportsInv, WritersShape, WriterState, ParentsExist, Decide, Actor, Numbers
  <1> QED
    BY <1>1, <1>2, <1>3, SameRows DEF Decide

LEMMA ReworkKeeps ==
  ASSUME BoundAssumption, ReportsInv, Rework
  PROVE  ReportsInv'
  <1>1. /\ from' \in Seq(Nat) /\ Len(from) \in Nat /\ Len(from') = Len(from) + 1
        /\ report' = Len(from) + 1
    BY ContentIsNew DEF Rework
  <1>2. /\ writer'["rework"] = [pc |-> "save", parent |-> forkMark, content |-> Len(from) + 1, number |-> 0]
        /\ writer'["edit"] = writer["edit"] /\ writer["rework"].pc = "run"
    BY DEF ReportsInv, WritersShape, WriterState, Rework, Actor, Rest
  <1>3. writer["rework"].content = 0
    BY <1>2 DEF ReportsInv, WritersShape, WriterState, Actor
  <1>4. forkMark \in 0 .. MaxVersions /\ forkMark' = 0
    BY DEF ReportsInv, RowsShape, Rework
  <1>5. RowsShape'
    <2>1. Unsaved("rework") = 0 /\ Unsaved("rework")' = 1 /\ Unsaved("edit")' = Unsaved("edit")
      BY <1>1, <1>2, <1>3 DEF Unsaved
    <2>2. rows' = rows /\ Len(from) <= MaxVersions
      BY DEF Rework
    <2>3. Unsaved("edit") \in Nat
      BY DEF Unsaved
    <2> QED
      BY <1>1, <1>4, <2>1, <2>2, <2>3, RowIs DEF BoundAssumption, ReportsInv, RowsShape
  <1>6. WritersShape'
    <2>1. writer' \in [Actor -> WriterState]
      <3>1. Len(from) + 1 \in 0 .. MaxVersions + 1
        BY <1>1 DEF Rework, BoundAssumption
      <3>2. [pc |-> "save", parent |-> forkMark, content |-> Len(from) + 1, number |-> 0] \in WriterState
        BY <1>4, <3>1 DEF BoundAssumption, WriterState
      <3> QED
        BY <3>2 DEF ReportsInv, WritersShape, WriterState, Rework, Rest, Actor
    <2> QED
      BY <1>1, <1>2, <2>1 DEF ReportsInv, WritersShape, WriterState, Actor
  <1>7. ParentsExist'
    BY DEF ReportsInv, WritersShape, WriterState, ParentsExist, Rework, Actor, Rest, Numbers
  <1> QED
    BY <1>5, <1>6, <1>7, SameRows DEF Rework

LEMMA ReworkStopsKeeps ==
  ASSUME BoundAssumption, ReportsInv, ReworkStops
  PROVE  ReportsInv'
  <1>1. /\ writer'["rework"] = Rest /\ writer'["edit"] = writer["edit"]
        /\ writer["rework"].pc = "run" /\ forkMark' = 0
    BY DEF ReportsInv, WritersShape, WriterState, ReworkStops, Actor
  <1>2. writer["rework"].content = 0
    BY <1>1 DEF ReportsInv, WritersShape, WriterState, Actor
  <1>3. RowsShape'
    <2>1. Unsaved("rework") = 0 /\ Unsaved("rework")' = 0 /\ Unsaved("edit")' = Unsaved("edit")
      BY <1>1, <1>2 DEF Unsaved, Rest
    <2>2. UNCHANGED <<rows, from, report>>
      BY DEF ReworkStops
    <2> QED
      BY <1>1, <2>1, <2>2 DEF BoundAssumption, ReportsInv, RowsShape
  <1>4. WritersShape'
    BY DEF BoundAssumption, ReportsInv, WritersShape, WriterState, ReworkStops, Actor, Rest
  <1>5. ParentsExist'
    BY <1>1 DEF ReportsInv, ParentsExist, ReworkStops, Actor, Rest, Numbers
  <1> QED
    BY <1>3, <1>4, <1>5, SameRows DEF ReworkStops

LEMMA SelectKeeps ==
  ASSUME BoundAssumption, ReportsInv, NEW a \in Actor, Select(a)
  PROVE  ReportsInv'
  <1>1. RowsShape'
    BY DEF BoundAssumption, ReportsInv, RowsShape, WritersShape, WriterState, Select, Unsaved, Actor
  <1>2. WritersShape'
    <2>1. Latest \in 1 .. MaxVersions - 1
      BY LatestIs DEF Select, BoundAssumption
    <2>2. /\ writer'[a] = [pc |-> "insert", content |-> writer[a].content, number |-> Latest + 1,
                           parent |-> IF writer[a].parent = 0 THEN Latest ELSE writer[a].parent]
          /\ \A b \in Actor : b # a => writer'[b] = writer[b]
          /\ writer[a].pc = "save"
      BY DEF ReportsInv, WritersShape, WriterState, Select
    <2>3. writer' \in [Actor -> WriterState]
      <3>1. writer[a] \in WriterState
        BY DEF ReportsInv, WritersShape, WriterState
      <3>2. Latest \in 0 .. MaxVersions /\ Latest + 1 \in 0 .. MaxVersions
        BY <2>1 DEF BoundAssumption
      <3>3. (IF writer[a].parent = 0 THEN Latest ELSE writer[a].parent) \in 0 .. MaxVersions
        BY <3>1, <3>2 DEF WriterState
      <3>4. writer'[a] \in WriterState
        BY <2>2, <3>1, <3>2, <3>3 DEF WriterState
      <3>5. writer' = [writer EXCEPT ![a] = writer'[a]]
        BY DEF ReportsInv, WritersShape, Select
      <3> QED
        BY <3>4, <3>5 DEF ReportsInv, WritersShape
    <2>4. writer[a].content # 0 /\ (a = "edit" => writer[a].parent = 0)
      BY <2>2 DEF ReportsInv, WritersShape, WriterState
    <2> QED
      BY <2>1, <2>2, <2>3, <2>4 DEF ReportsInv, WritersShape, WriterState, Actor
  <1>3. ParentsExist'
    <2>1. Numbers' = Numbers /\ forkMark' = forkMark
      BY DEF Select, Numbers
    <2>2. /\ writer'[a].parent = IF writer[a].parent = 0 THEN Latest ELSE writer[a].parent
          /\ \A b \in Actor : b # a => writer'[b] = writer[b]
      BY DEF ReportsInv, WritersShape, WriterState, Select
    <2>3. ParentsExist /\ Latest \in Numbers
      BY LatestIs DEF ReportsInv
    <2> QED
      BY <2>1, <2>2, <2>3 DEF ParentsExist
  <1> QED
    BY <1>1, <1>2, <1>3, SameRows DEF Select

\* An approval changes no number and no parent.
LEMMA ApproveKeeps ==
  ASSUME BoundAssumption, ReportsInv, NEW v \in 0 .. MaxVersions, Approve(v)
  PROVE  ReportsInv'
  <1>1. /\ rows' \in Seq(Version) /\ Len(rows') = Len(rows)
        /\ \A i \in 1 .. Len(rows) : rows'[i].number = rows[i].number /\ rows'[i].parent = rows[i].parent
    <2>1. rows' = [i \in 1 .. Len(rows) |->
                     IF rows[i].number = Latest THEN [rows[i] EXCEPT !.approved = TRUE] ELSE rows[i]]
      BY DEF Approve
    <2>2. \A i \in 1 .. Len(rows) : rows'[i] \in Version
      BY <2>1, RowIs DEF Version
    <2>3. rows' \in Seq(Version) /\ Len(rows') = Len(rows)
      BY <2>1, <2>2, RowIs, SeqDef
    <2>4. \A i \in 1 .. Len(rows) : rows'[i].number = rows[i].number /\ rows'[i].parent = rows[i].parent
      BY <2>1, RowIs DEF Version
    <2> QED
      BY <2>3, <2>4
  <1>2. Numbers' = Numbers
    BY <1>1 DEF Numbers
  <1>3. RowsShape' /\ WritersShape'
    BY <1>1 DEF ReportsInv, RowsShape, WritersShape, WriterState, Approve, Unsaved
  <1>4. ParentsExist' /\ HasLatest'
    BY <1>2 DEF ReportsInv, ParentsExist, HasLatest, Approve
  <1>5. RowsKnown'
    <2> SUFFICES ASSUME NEW i \in 1 .. Len(rows), rows'[i].parent # 0
                 PROVE  \E j \in 1 .. i - 1 : rows'[j].number = rows'[i].parent
      BY <1>1 DEF RowsKnown
    <2>1. PICK j \in 1 .. i - 1 : rows[j].number = rows[i].parent
      BY <1>1 DEF ReportsInv, RowsKnown
    <2>2. j \in 1 .. Len(rows)
      BY RowIs
    <2> QED
      BY <1>1, <2>1, <2>2
  <1> QED
    BY <1>3, <1>4, <1>5 DEF ReportsInv

\* The new row comes behind the one it grew from.
LEMMA InsertKeeps ==
  ASSUME BoundAssumption, ReportsInv, NEW a \in Actor, Insert(a)
  PROVE  ReportsInv'
  <1>1. Row(a) \in Version /\ Row(a).number = writer[a].number /\ Row(a).parent = writer[a].parent
    BY DEF ReportsInv, WritersShape, WriterState, Insert, Row, Version
  <1>2. /\ rows' \in Seq(Version) /\ Len(rows') = Len(rows) + 1 /\ rows'[Len(rows) + 1] = Row(a)
        /\ \A i \in 1 .. Len(rows) : rows'[i] = rows[i]
    BY <1>1 DEF ReportsInv, RowsShape, Insert
  <1>3. Numbers' = Numbers \cup {Row(a).number}
    <2>1. Len(rows) \in Nat /\ 1 .. Len(rows) + 1 = (1 .. Len(rows)) \cup {Len(rows) + 1}
      BY RowIs
    <2>2. Numbers' = {rows'[i].number : i \in 1 .. Len(rows) + 1}
      BY <1>2 DEF Numbers
    <2> QED
      BY <1>2, <2>1, <2>2 DEF Numbers
  <1>4. /\ writer'[a] = Rest
        /\ \A b \in Actor : b # a => writer'[b] = writer[b]
        /\ writer[a].content # 0
    BY DEF ReportsInv, WritersShape, WriterState, Insert
  <1>5. Unsaved(a) = 1 /\ Unsaved(a)' = 0 /\ \A b \in Actor : b # a => Unsaved(b)' = Unsaved(b)
    BY <1>4 DEF Unsaved, Rest
  <1>6. RowsShape'
    <2>1. UNCHANGED <<from, report, forkMark>>
      BY DEF Insert
    <2>2. Unsaved("edit") + Unsaved("rework") \in Nat
          /\ Unsaved("edit")' + Unsaved("rework")' = Unsaved("edit") + Unsaved("rework") - 1
      <3>1. CASE a = "edit"
        BY <1>5, <3>1 DEF Actor, Unsaved
      <3>2. CASE a = "rework"
        BY <1>5, <3>2 DEF Actor, Unsaved
      <3> QED
        BY <3>1, <3>2 DEF Actor
    <2>3. Unsaved("edit") \in Nat /\ Unsaved("rework") \in Nat
      BY DEF Unsaved
    <2>4. Unsaved("edit")' \in Nat /\ Unsaved("rework")' \in Nat
      BY DEF Unsaved
    <2> QED
      BY SMTT(30), <1>2, <2>1, <2>2, <2>3, <2>4, RowIs DEF ReportsInv, RowsShape
  <1>7. WritersShape'
    BY DEF BoundAssumption, ReportsInv, WritersShape, WriterState, Insert, Actor, Rest
  <1>8. HasLatest'
    <2>1. PICK n \in Numbers : \A m \in Numbers : m <= n
      BY DEF ReportsInv, HasLatest
    <2>2. n \in Nat /\ Row(a).number \in Nat
      BY <1>1, LatestIs DEF Version
    <2>3. CASE Row(a).number <= n
      BY <1>3, <2>1, <2>3 DEF HasLatest
    <2>4. CASE n < Row(a).number
      BY <1>3, <2>1, <2>2, <2>4, LatestIs DEF HasLatest
    <2> QED
      BY <2>2, <2>3, <2>4
  <1>9. ParentsExist'
    BY <1>3, <1>4 DEF ReportsInv, ParentsExist, Insert, Rest
  <1>10. RowsKnown'
    <2> SUFFICES ASSUME NEW i \in 1 .. Len(rows) + 1, rows'[i].parent # 0
                 PROVE  \E j \in 1 .. i - 1 : rows'[j].number = rows'[i].parent
      BY <1>2 DEF RowsKnown
    <2>1. CASE i \in 1 .. Len(rows)
      BY SMTT(30), <1>2, <2>1 DEF ReportsInv, RowsShape, RowsKnown
    <2>2. CASE i = Len(rows) + 1
      <3>1. writer[a].parent \in Numbers
        BY <1>1, <1>2, <2>2 DEF ReportsInv, ParentsExist
      <3>2. PICK j \in 1 .. Len(rows) : rows[j].number = writer[a].parent
        BY <3>1 DEF Numbers
      <3> QED
        BY <1>1, <1>2, <2>2, <3>2 DEF ReportsInv, RowsShape
    <2> QED
      BY SMTT(30), <2>1, <2>2 DEF ReportsInv, RowsShape
  <1> QED
    BY <1>6, <1>7, <1>8, <1>9, <1>10 DEF ReportsInv

LEMMA ReportsStep ==
  ASSUME BoundAssumption, ReportsInv, Reports
  PROVE  ReportsInv' /\ UNCHANGED <<half, tree>>
  <1>1. ReportsInv'
    BY EditKeeps, DecideKeeps, ReworkKeeps, ReworkStopsKeeps, SelectKeeps, ApproveKeeps, InsertKeeps DEF Reports
  <1>2. UNCHANGED <<half, tree>>
    BY DEF Reports, Edit, Decide, Rework, ReworkStops, Select, Approve, Insert
  <1> QED
    BY <1>1, <1>2

-----------------------------------------------------------------------------
(* Checkpoints. *)

\* What a checkpoint of the thread is.
LEMMA CheckpointIs ==
  ASSUME TreeInv
  PROVE  /\ ck \in Seq(Checkpoint) /\ Len(ck) \in Nat \ {0}
         /\ \A i \in 1 .. Len(ck) : /\ ck[i] \in Checkpoint /\ ck[i].parent \in 0 .. i
                                   /\ ck[i].vals \in [Field -> Score] /\ ck[i].forked \in BOOLEAN
         /\ Last(ck) \in Checkpoint /\ Last(ck).vals \in [Field -> Score]
  <1>1. ck \in Seq(Checkpoint) /\ Len(ck) \in Nat \ {0}
    BY DEF TreeInv, TreeShape
  <1>2. \A i \in 1 .. Len(ck) : ck[i] \in Checkpoint /\ ck[i].parent \in 0 .. i
    BY <1>1, ElementOfSeq DEF TreeInv, TreeShape
  <1> QED
    BY <1>1, <1>2 DEF Last, Checkpoint

\* A checkpoint more, below one that is there.
More(p, vals, forked) ==
  /\ p \in 0 .. Len(ck) /\ vals \in [Field -> Score] /\ forked \in BOOLEAN
  /\ ck' = Append(ck, [parent |-> p, vals |-> vals, forked |-> forked])

LEMMA MoreIs ==
  ASSUME TreeInv, NEW p, NEW vals, NEW forked, More(p, vals, forked)
  PROVE  /\ ck' \in Seq(Checkpoint) /\ Len(ck') = Len(ck) + 1
         /\ \A i \in 1 .. Len(ck) : ck'[i] = ck[i]
         /\ ck'[Len(ck) + 1] = [parent |-> p, vals |-> vals, forked |-> forked]
         /\ \A i \in 1 .. Len(ck') : ck'[i].parent \in 0 .. i
  <1>1. [parent |-> p, vals |-> vals, forked |-> forked] \in Checkpoint
    BY CheckpointIs DEF More, Checkpoint
  <1>2. /\ ck' \in Seq(Checkpoint) /\ Len(ck') = Len(ck) + 1
        /\ \A i \in 1 .. Len(ck) : ck'[i] = ck[i]
        /\ ck'[Len(ck) + 1] = [parent |-> p, vals |-> vals, forked |-> forked]
    BY <1>1, CheckpointIs DEF More
  <1> QED
    BY <1>2, CheckpointIs DEF More

\* Checkpoints may get another parent; they stay the checkpoints they are.
Reparented ==
  /\ ck' \in Seq(Checkpoint) /\ Len(ck') = Len(ck)
  /\ \A i \in 1 .. Len(ck) : /\ ck'[i].parent \in 0 .. i
                            /\ ck'[i].vals = ck[i].vals /\ ck'[i].forked = ck[i].forked

LEMMA TagIs ==
  ASSUME TreeInv, NEW i \in 1 .. Len(ck), Tag(i)
  PROVE  Reparented
  <1>1. PICK e : e = [ck[i] EXCEPT !.parent = i]
    OBVIOUS
  <1>2. e \in Checkpoint /\ e.parent = i /\ e.vals = ck[i].vals /\ e.forked = ck[i].forked
    BY SMTT(30), <1>1, CheckpointIs DEF Checkpoint
  <1>3. ck' = [ck EXCEPT ![i] = e]
    BY <1>1 DEF Tag
  <1>4. /\ ck' \in Seq(Checkpoint) /\ Len(ck') = Len(ck)
        /\ \A j \in 1 .. Len(ck) : ck'[j] = IF j = i THEN e ELSE ck[j]
    BY <1>2, <1>3, CheckpointIs, ExceptSeq
  <1> QED
    BY <1>2, <1>4, CheckpointIs DEF Reparented

\* What the agent does leaves its operation in good shape when checkpoints are
\* added or get other parents.
LEMMA SameAgent ==
  ASSUME TreeInv, agent' = agent, Len(ck') \in Nat, Len(ck) <= Len(ck'), faults' = faults,
         \A i \in 1 .. Len(ck) : ck'[i].vals = ck[i].vals
  PROVE  AgentShape' /\ FieldsMerged'
  <1>1. AgentShape'
    <2>1. AgentRecord'
      BY DEF TreeInv, AgentShape, AgentRecord
    <2> QED
      BY SMTT(30), <2>1, CheckpointIs DEF TreeInv, AgentShape
  <1>2. FieldsMerged'
    <2>1. Merged' = Merged /\ (agent.op # "none" => Merged \in 1 .. Len(ck))
      BY CheckpointIs DEF TreeInv, AgentShape, Merged, Last
    <2>2. agent.op # "none" => \A f \in Field : Dominates(Merged, f)' <=> Dominates(Merged, f)
      BY <2>1 DEF TreeInv, AgentShape, Dominates
    <2> QED
      BY <2>2 DEF TreeInv, FieldsMerged
  <1> QED
    BY <1>1, <1>2

\* A fork drops the cache; what the graph writes was not forked.
LEMMA MoreKeeps ==
  ASSUME TreeInv, NEW p, NEW vals, NEW forked, More(p, vals, forked), faults' \in 0 .. MaxFaults,
         cache' = [built |-> FALSE, ids |-> {}] \/ (forked = FALSE /\ cache' = cache)
  PROVE  TreeShape' /\ CacheKnown'
  <1>1. /\ ck' \in Seq(Checkpoint) /\ Len(ck') = Len(ck) + 1 /\ Len(ck) \in Nat
        /\ \A i \in 1 .. Len(ck') : ck'[i].parent \in 0 .. i
        /\ \A i \in 1 .. Len(ck) : ck'[i] = ck[i]
        /\ ck'[Len(ck) + 1].forked = forked
    <2>1. /\ ck' \in Seq(Checkpoint) /\ Len(ck') = Len(ck) + 1
          /\ \A i \in 1 .. Len(ck) : ck'[i] = ck[i]
          /\ ck'[Len(ck) + 1] = [parent |-> p, vals |-> vals, forked |-> forked]
          /\ \A i \in 1 .. Len(ck') : ck'[i].parent \in 0 .. i
      BY MoreIs, Zenon
    <2> QED
      BY <2>1, CheckpointIs
  <1>2. 1 .. Len(ck) \subseteq 1 .. Len(ck')
    BY <1>1
  <1>3. cache' \in [built : BOOLEAN, ids : SUBSET (1 .. Len(ck'))]
    <2>1. cache \in [built : BOOLEAN, ids : SUBSET (1 .. Len(ck))]
      BY DEF TreeInv, TreeShape
    <2>2. CASE cache' = [built |-> FALSE, ids |-> {}]
      BY <2>2
    <2>3. CASE cache' = cache
      BY <1>2, <2>1, <2>3
    <2> QED
      BY <2>2, <2>3
  <1>4. TreeShape'
    BY <1>1, <1>3 DEF TreeShape
  <1>5. CacheKnown'
    BY <1>1 DEF TreeInv, CacheKnown
  <1> QED
    BY <1>4, <1>5

LEMMA ReparentedKeeps ==
  ASSUME TreeInv, Reparented, faults' \in 0 .. MaxFaults, cache' = cache
  PROVE  TreeShape' /\ CacheKnown'
  BY CheckpointIs DEF TreeInv, TreeShape, CacheKnown, Reparented

LEMMA GraphWritesKeeps ==
  ASSUME TreeInv, NEW f \in Field, GraphWrites(f)
  PROVE  TreeInv'
  <1>1. More(Len(ck), [Last(ck).vals EXCEPT ![f] = 1 - @], FALSE)
    <2>1. Len(ck) \in 0 .. Len(ck) /\ [Last(ck).vals EXCEPT ![f] = 1 - @] \in [Field -> Score]
      BY CheckpointIs DEF Score
    <2> QED
      BY <2>1 DEF GraphWrites, More
  <1>2. agent' = agent /\ faults' = faults /\ cache' = cache /\ faults' \in 0 .. MaxFaults
    BY DEF GraphWrites, TreeInv, TreeShape
  <1>3. TreeShape' /\ CacheKnown'
    BY <1>1, <1>2, MoreKeeps
  <1>4. AgentShape' /\ FieldsMerged'
    <2>1. /\ Len(ck') = Len(ck) + 1 /\ \A i \in 1 .. Len(ck) : ck'[i] = ck[i]
      BY <1>1, MoreIs, Zenon
    <2>2. Len(ck') \in Nat /\ Len(ck) <= Len(ck') /\ \A i \in 1 .. Len(ck) : ck'[i].vals = ck[i].vals
      BY <2>1, CheckpointIs
    <2> QED
      BY <1>2, <2>2, SameAgent
  <1> QED
    BY <1>3, <1>4 DEF TreeInv

LEMMA UpdateStateKeeps ==
  ASSUME TreeInv, NEW f \in Field, UpdateState(f)
  PROVE  TreeInv'
  <1>1. More(Len(ck), [Last(ck).vals EXCEPT ![f] = 1 - @], TRUE)
    <2>1. Len(ck) \in 0 .. Len(ck) /\ [Last(ck).vals EXCEPT ![f] = 1 - @] \in [Field -> Score]
      BY CheckpointIs DEF Score
    <2> QED
      BY <2>1 DEF UpdateState, Fork, More
  <1>2. /\ agent' = agent /\ faults' = faults /\ faults' \in 0 .. MaxFaults
        /\ cache' = [built |-> FALSE, ids |-> {}]
    BY DEF UpdateState, Fork, TreeInv, TreeShape
  <1>3. TreeShape' /\ CacheKnown'
    BY <1>1, <1>2, MoreKeeps
  <1>4. AgentShape' /\ FieldsMerged'
    <2>1. /\ Len(ck') = Len(ck) + 1 /\ \A i \in 1 .. Len(ck) : ck'[i] = ck[i]
      BY <1>1, MoreIs, Zenon
    <2>2. Len(ck') \in Nat /\ Len(ck) <= Len(ck') /\ \A i \in 1 .. Len(ck) : ck'[i].vals = ck[i].vals
      BY <2>1, CheckpointIs
    <2> QED
      BY <1>2, <2>2, SameAgent
  <1> QED
    BY <1>3, <1>4 DEF TreeInv

LEMMA EnsureCacheKeeps ==
  ASSUME TreeInv, EnsureCache
  PROVE  TreeInv'
  <1>1. ck' = ck /\ agent' = agent /\ faults' = faults /\ cache' = [built |-> TRUE, ids |-> 1 .. Len(ck)]
    BY DEF EnsureCache
  <1>2. TreeShape' /\ CacheKnown'
    BY <1>1 DEF TreeInv, TreeShape, CacheKnown
  <1>3. AgentShape' /\ FieldsMerged'
    BY <1>1, CheckpointIs, SameAgent
  <1> QED
    BY <1>2, <1>3 DEF TreeInv

\* The checkpoints stay as they are while the agent goes on.
LEMMA SameTree ==
  ASSUME TreeInv, ck' = ck, cache' = cache, faults' \in 0 .. MaxFaults
  PROVE  TreeShape' /\ CacheKnown'
  BY DEF TreeInv, TreeShape, CacheKnown

LEMMA BeginKeeps ==
  ASSUME TreeInv, NEW op, NEW b \in 1 .. Len(ck), Begin(op, b)
  PROVE  TreeInv'
  <1>1. /\ ck' = ck /\ cache' = cache /\ faults' = faults /\ op \in {"explore", "test"}
        /\ agent' = [op |-> op, pc |-> "fork", base |-> b, branches |-> <<>>, todo |-> <<1, 0>>,
                     made |-> <<>>]
    BY DEF Begin, NoOp
  <1>2. TreeShape' /\ CacheKnown'
    BY <1>1, SameTree DEF TreeInv, TreeShape
  <1>3. AgentShape'
    BY <1>1, CheckpointIs DEF AgentShape, AgentRecord, Op, Score
  <1>4. FieldsMerged'
    BY <1>1 DEF FieldsMerged
  <1> QED
    BY <1>2, <1>3, <1>4 DEF TreeInv

LEMMA BeginPickKeeps ==
  ASSUME TreeInv, NEW b \in 1 .. Len(ck), NEW c \in 1 .. Len(ck), NEW f \in Field, BeginPick(b, c, f)
  PROVE  TreeInv'
  <1>1. /\ ck' = ck /\ cache' = cache /\ faults' = faults
        /\ agent' = [op |-> "pick", pc |-> "fork", base |-> b, branches |-> <<c>>, todo |-> <<f>>,
                     made |-> <<>>]
    BY DEF BeginPick, NoOp
  <1>2. TreeShape' /\ CacheKnown'
    BY <1>1, SameTree DEF TreeInv, TreeShape
  <1>3. AgentShape'
    BY <1>1, CheckpointIs DEF AgentShape, AgentRecord, Op
  <1>4. FieldsMerged'
    BY <1>1 DEF FieldsMerged
  <1> QED
    BY <1>2, <1>3, <1>4 DEF TreeInv

\* One of two branches is the best in a field.
LEMMA BestIs ==
  ASSUME TreeInv, NEW branches \in Seq(Nat), Len(branches) = 2,
         branches[1] \in 1 .. Len(ck), branches[2] \in 1 .. Len(ck), NEW f \in Field
  PROVE  /\ BestOf(branches, f) \in 1 .. 2
         /\ branches[BestOf(branches, f)] \in 1 .. Len(ck)
         /\ \A j \in 1 .. 2 : ck[branches[BestOf(branches, f)]].vals[f] >= ck[branches[j]].vals[f]
  <1> DEFINE X(i) == ck[branches[i]].vals[f]
             Leads(i) == \A j \in 1 .. Len(branches) : X(i) > X(j) \/ (X(i) = X(j) /\ i <= j)
  <1>1. X(1) \in Int /\ X(2) \in Int
    BY CheckpointIs DEF Score
  <1>2. \E i \in 1 .. Len(branches) : Leads(i)
    <2>1. CASE X(1) >= X(2)
      <3>1. Leads(1)
        BY <1>1, <2>1
      <3> QED
        BY <3>1
    <2>2. CASE X(1) < X(2)
      <3>1. Leads(2)
        BY <1>1, <2>2
      <3> QED
        BY <3>1
    <2> QED
      BY <1>1, <2>1, <2>2
  <1>3. BestOf(branches, f) = CHOOSE i \in 1 .. Len(branches) : Leads(i)
    BY DEF BestOf
  <1>4. BestOf(branches, f) \in 1 .. 2 /\ Leads(BestOf(branches, f))
    BY <1>2, <1>3
  <1> QED
    BY <1>1, <1>4

LEMMA BeginMergeKeeps ==
  ASSUME TreeInv, NEW op, NEW b \in 1 .. Len(ck), NEW c \in 1 .. Len(ck), BeginMerge(op, b, c)
  PROVE  TreeInv'
  <1>1. ck' = ck /\ cache' = cache /\ faults' = faults /\ op \in {"overall", "fields"}
    BY DEF BeginMerge
  <1>2. PICK base : /\ base \in 1 .. Len(ck)
                    /\ agent' = [op |-> op, pc |-> "fork", base |-> base, branches |-> <<b, c>>,
                                 todo |-> IF op = "fields" THEN <<"coverage", "data">> ELSE <<"data">>,
                                 made |-> <<>>]
    <2>1. BestOf(<<b, c>>, "coverage") \in 1 .. 2
      <3>1. <<b, c>> \in Seq(Nat) /\ Len(<<b, c>>) = 2 /\ <<b, c>>[1] = b /\ <<b, c>>[2] = c
        BY CheckpointIs
      <3>2. "coverage" \in Field
        BY DEF Field
      <3> QED
        BY <3>1, <3>2, BestIs
    <2>2. (IF op = "fields" THEN b ELSE <<b, c>>[BestOf(<<b, c>>, "coverage")]) \in 1 .. Len(ck)
      BY <2>1
    <2> QED
      BY <2>2 DEF BeginMerge, NoOp
  <1>3. TreeShape' /\ CacheKnown'
    BY <1>1, SameTree DEF TreeInv, TreeShape
  <1>4. AgentShape'
    <2>1. AgentRecord'
      BY <1>2 DEF AgentRecord
    <2>2. /\ agent'.branches = <<b, c>> /\ agent'.branches \in Seq(Nat) /\ Len(agent'.branches) = 2
          /\ \A i \in 1 .. 2 : agent'.branches[i] \in 1 .. Len(ck)
      BY <1>2, CheckpointIs
    <2>3. agent'.todo \in Seq(Field)
      <3>1. <<"coverage", "data">> \in Seq(Field) /\ <<"data">> \in Seq(Field)
        BY DEF Field
      <3> QED
        BY <1>2, <3>1
    <2>4. /\ agent'.op = op /\ agent'.pc = "fork" /\ agent'.made = <<>> /\ agent'.base = base
          /\ base \in 1 .. Len(ck)
      BY <1>2
    <2> QED
      BY <1>1, <2>1, <2>2, <2>3, <2>4, CheckpointIs DEF AgentShape, Op
  <1>5. FieldsMerged'
    <2>1. CASE op = "fields"
      <3>1. agent'.todo = <<"coverage", "data">>
        BY <1>2, <2>1
      <3>2. \A f \in Field : \E i \in 1 .. Len(agent'.todo) : agent'.todo[i] = f
        BY <3>1 DEF Field
      <3> QED
        BY <3>1, <3>2 DEF FieldsMerged
    <2>2. CASE op # "fields"
      BY <1>2, <2>2 DEF FieldsMerged
    <2> QED
      BY <2>1, <2>2
  <1> QED
    BY <1>3, <1>4, <1>5 DEF TreeInv

\* The checkpoint a merge has come to is there.
LEMMA MergedIs ==
  ASSUME TreeInv, agent.op # "none"
  PROVE  /\ Merged \in 1 .. Len(ck)
         /\ agent.made # <<>> => Last(agent.made) \in 1 .. Len(ck)
  BY CheckpointIs DEF TreeInv, AgentShape, Merged, Last

\* In a merge of fields the source of a field is its best branch.
LEMMA SourceIs ==
  ASSUME TreeInv, agent.op = "fields", NEW f \in Field
  PROVE  Source(f) \in 1 .. Len(ck) /\ Dominates(Source(f), f)
  <1>1. /\ agent.branches \in Seq(Nat) /\ Len(agent.branches) = 2
        /\ agent.branches[1] \in 1 .. Len(ck) /\ agent.branches[2] \in 1 .. Len(ck)
    BY DEF TreeInv, AgentShape
  <1> QED
    BY <1>1, BestIs DEF Source, Dominates

\* What is left of the operation.
LEMMA TodoGoesOn ==
  ASSUME TreeInv, agent.todo # <<>>, agent.op # "none"
  PROVE  /\ agent.op \in {"explore", "test"} => Head(agent.todo) \in Score /\ Tail(agent.todo) \in Seq(Score)
         /\ agent.op \in {"pick", "overall", "fields"} =>
              Head(agent.todo) \in Field /\ Tail(agent.todo) \in Seq(Field)
         /\ agent.op = "fields" =>
              \/ /\ agent.todo = <<"coverage", "data">> /\ Head(agent.todo) = "coverage"
                 /\ Tail(agent.todo) = <<"data">>
              \/ agent.todo = <<"data">> /\ Head(agent.todo) = "data" /\ Tail(agent.todo) = <<>>
  <1>1. agent.op \in {"explore", "test"} => agent.todo \in Seq(Score)
    BY DEF TreeInv, AgentShape
  <1>2. agent.op \in {"pick", "overall", "fields"} => agent.todo \in Seq(Field)
    BY DEF TreeInv, AgentShape
  <1>3. agent.op = "fields" => agent.todo \in {<<"coverage", "data">>, <<"data">>}
    BY DEF TreeInv, FieldsMerged
  <1>4. ASSUME NEW S, agent.todo \in Seq(S)
        PROVE  Head(agent.todo) \in S /\ Tail(agent.todo) \in Seq(S)
    BY <1>4, HeadTailProperties
  <1>5. CASE agent.op = "fields" /\ agent.todo = <<"coverage", "data">>
    <2>1. Head(<<"coverage", "data">>) = "coverage" /\ Tail(<<"coverage", "data">>) = <<"data">>
      OBVIOUS
    <2> QED
      BY <1>2, <1>4, <1>5, <2>1
  <1>6. CASE agent.op = "fields" /\ agent.todo = <<"data">>
    <2>1. Head(<<"data">>) = "data" /\ Tail(<<"data">>) = <<>>
      OBVIOUS
    <2> QED
      BY <1>2, <1>4, <1>6, <2>1
  <1>7. CASE agent.op # "fields"
    BY <1>1, <1>2, <1>4, <1>7
  <1> QED
    BY <1>3, <1>5, <1>6, <1>7

\* A field with its best value is left behind.
LEMMA NextField ==
  ASSUME TreeInv, agent.op = "fields", agent.todo # <<>>, agent'.op = "fields",
         agent'.todo = Tail(agent.todo),
         faults = 0 => \A f \in Field : (f = Head(agent.todo) \/ Dominates(Merged, f)) => Dominates(Merged, f)'
  PROVE  faults' = faults => FieldsMerged'
  <1>1. ASSUME faults = 0, NEW f \in Field, \A i \in 1 .. Len(agent'.todo) : agent'.todo[i] # f
        PROVE  Dominates(Merged, f)'
    <2>1. CASE agent.todo = <<"coverage", "data">> /\ agent'.todo = <<"data">> /\ Head(agent.todo) = "coverage"
      <3>1. f = "coverage"
        BY <1>1, <2>1 DEF Field
      <3> QED
        BY <1>1, <2>1, <3>1
    <2>2. CASE agent.todo = <<"data">> /\ agent'.todo = <<>> /\ Head(agent.todo) = "data"
      <3>1. CASE f = "data"
        BY <1>1, <2>2, <3>1
      <3>2. CASE f # "data"
        <4>1. Dominates(Merged, f)
          BY <1>1, <2>2, <3>2 DEF TreeInv, FieldsMerged
        <4> QED
          BY <1>1, <4>1
      <3> QED
        BY <3>1, <3>2
    <2> QED
      BY <2>1, <2>2, TodoGoesOn
  <1>2. agent'.todo \in {<<"coverage", "data">>, <<"data">>, <<>>}
    BY TodoGoesOn
  <1> QED
    BY <1>1, <1>2 DEF FieldsMerged

LEMMA SkipKeeps ==
  ASSUME TreeInv, Skip
  PROVE  TreeInv'
  <1>1. /\ ck' = ck /\ cache' = cache /\ faults' = faults /\ faults' \in 0 .. MaxFaults
        /\ agent.op = "fields" /\ agent.pc = "fork" /\ agent.todo # <<>>
        /\ Source(Head(agent.todo)) = Merged
    BY DEF Skip, TreeInv, TreeShape
  <1>2. agent' = [op |-> "fields", pc |-> "fork", base |-> agent.base, branches |-> agent.branches,
                  todo |-> Tail(agent.todo), made |-> agent.made]
    BY <1>1 DEF Skip, TreeInv, AgentShape, AgentRecord
  <1>3. TreeShape' /\ CacheKnown'
    BY <1>1, SameTree
  <1>4. AgentShape'
    <2>1. AgentRecord'
      BY <1>2 DEF AgentRecord
    <2>2. agent'.todo \in Seq(Field)
      BY <1>1, <1>2, TodoGoesOn
    <2> QED
      BY <1>1, <1>2, <2>1, <2>2 DEF TreeInv, AgentShape
  <1>5. FieldsMerged'
    <2>1. Merged' = Merged
      BY <1>2 DEF Merged, Last
    <2>2. \A f \in Field : Dominates(Merged, f)' <=> Dominates(Merged, f)
      BY <1>1, <1>2, <2>1 DEF Dominates
    <2>3. Head(agent.todo) \in Field /\ Dominates(Merged, Head(agent.todo))
      BY <1>1, SourceIs, TodoGoesOn
    <2>4. agent'.op = "fields" /\ agent'.todo = Tail(agent.todo)
      BY <1>2
    <2> QED
      BY <1>1, <2>2, <2>3, <2>4, NextField
  <1> QED
    BY <1>3, <1>4, <1>5 DEF TreeInv

\* What the next checkpoint of the operation holds is the value of every field.
LEMMA NextValsIs ==
  ASSUME TreeInv, agent.op # "none", agent.todo # <<>>
  PROVE  NextVals \in [Field -> Score]
  <1>1. agent.base \in 1 .. Len(ck) /\ ck[agent.base].vals \in [Field -> Score]
    BY CheckpointIs DEF TreeInv, AgentShape
  <1>2. CASE agent.op \in {"explore", "test"}
    <2>1. NextVals = [ck[agent.base].vals EXCEPT !["coverage"] = Head(agent.todo)]
      BY <1>2 DEF NextVals
    <2> QED
      BY <1>1, <1>2, <2>1, TodoGoesOn
  <1>3. CASE agent.op = "pick"
    <2>1. agent.branches[1] \in 1 .. Len(ck)
      BY <1>3 DEF TreeInv, AgentShape
    <2>2. NextVals = [ck[agent.base].vals EXCEPT ![Head(agent.todo)] =
                        ck[agent.branches[1]].vals[Head(agent.todo)]]
      BY <1>3 DEF NextVals
    <2>3. ck[agent.branches[1]].vals[Head(agent.todo)] \in Score
      BY <1>3, <2>1, CheckpointIs, TodoGoesOn
    <2> QED
      BY <1>1, <2>2, <2>3
  <1>4. CASE agent.op = "overall"
    <2>1. NextVals = ck[agent.base].vals
      BY <1>4 DEF NextVals
    <2> QED
      BY <1>1, <2>1
  <1>5. CASE agent.op = "fields"
    <2>1. Head(agent.todo) \in Field /\ Source(Head(agent.todo)) \in 1 .. Len(ck) /\ Merged \in 1 .. Len(ck)
      BY <1>5, TodoGoesOn, SourceIs, MergedIs
    <2>2. NextVals = [ck[Merged].vals EXCEPT ![Head(agent.todo)] =
                        ck[Source(Head(agent.todo))].vals[Head(agent.todo)]]
      BY <1>5 DEF NextVals
    <2>3. ck[Source(Head(agent.todo))].vals[Head(agent.todo)] \in Score /\ ck[Merged].vals \in [Field -> Score]
      BY <2>1, CheckpointIs
    <2> QED
      BY <2>2, <2>3
  <1>6. agent.op \in Op
    BY DEF TreeInv, AgentShape
  <1> QED
    BY <1>2, <1>3, <1>4, <1>5, <1>6 DEF Op

LEMMA ForkStepKeeps ==
  ASSUME TreeInv, ForkStep
  PROVE  TreeInv'
  <1>1. /\ agent.op # "none" /\ agent.pc = "fork" /\ agent.todo # <<>>
        /\ faults' = faults /\ faults' \in 0 .. MaxFaults /\ cache' = [built |-> FALSE, ids |-> {}]
    BY DEF ForkStep, Fork, TreeInv, TreeShape
  <1>2. PICK p : p = IF agent.op = "fields" THEN Merged ELSE agent.base
    OBVIOUS
  <1>3. More(p, NextVals, TRUE)
    <2>1. p \in 0 .. Len(ck)
      BY <1>1, <1>2, MergedIs, CheckpointIs DEF TreeInv, AgentShape
    <2>2. NextVals \in [Field -> Score]
      BY <1>1, NextValsIs
    <2> QED
      BY <1>2, <2>1, <2>2 DEF ForkStep, Fork, More
  <1>4. TreeShape' /\ CacheKnown'
    BY <1>1, <1>3, MoreKeeps
  <1>5. /\ ck' \in Seq(Checkpoint) /\ Len(ck') = Len(ck) + 1
        /\ \A i \in 1 .. Len(ck) : ck'[i] = ck[i]
        /\ ck'[Len(ck) + 1] = [parent |-> p, vals |-> NextVals, forked |-> TRUE]
    BY <1>3, MoreIs, Zenon
  <1>6. agent' = [op |-> agent.op, pc |-> IF agent.op = "test" THEN "fork" ELSE "tag",
                  base |-> agent.base, branches |-> agent.branches,
                  todo |-> Tail(agent.todo), made |-> Append(agent.made, Len(ck) + 1)]
    BY DEF ForkStep, TreeInv, AgentShape, AgentRecord
  <1>7. /\ agent.made \in Seq(Nat) /\ Len(agent'.made) = Len(agent.made) + 1 /\ agent'.made \in Seq(Nat)
        /\ agent'.made # <<>> /\ agent'.made[Len(agent'.made)] = Len(ck) + 1
        /\ \A i \in 1 .. Len(agent.made) : agent'.made[i] = agent.made[i]
    <2>1. agent.made \in Seq(Nat) /\ Len(ck) + 1 \in Nat
      BY CheckpointIs DEF TreeInv, AgentShape
    <2>2. agent'.made = Append(agent.made, Len(ck) + 1)
      BY <1>6
    <2>3. /\ Append(agent.made, Len(ck) + 1) \in Seq(Nat)
          /\ Len(Append(agent.made, Len(ck) + 1)) = Len(agent.made) + 1
          /\ Append(agent.made, Len(ck) + 1)[Len(agent.made) + 1] = Len(ck) + 1
          /\ \A i \in 1 .. Len(agent.made) : Append(agent.made, Len(ck) + 1)[i] = agent.made[i]
      BY <2>1
    <2> QED
      BY <2>1, <2>2, <2>3
  <1>8. AgentShape'
    <2>1. AgentRecord'
      BY <1>6 DEF AgentRecord
    <2>2. \A i \in 1 .. Len(agent'.made) : agent'.made[i] \in 1 .. Len(ck')
      <3>1. \A i \in 1 .. Len(agent.made) : agent.made[i] \in 1 .. Len(ck)
        BY DEF TreeInv, AgentShape
      <3>2. Len(agent.made) \in Nat /\ Len(ck) \in Nat
        BY <1>7, CheckpointIs
      <3>3. \A i \in 1 .. Len(agent'.made) : i \in 1 .. Len(agent.made) \/ i = Len(agent'.made)
        BY <1>7, <3>2
      <3>4. 1 .. Len(ck) \subseteq 1 .. Len(ck') /\ Len(ck) + 1 \in 1 .. Len(ck')
        BY <1>5, <3>2
      <3> QED
        BY <1>7, <3>1, <3>3, <3>4
    <2>3. /\ agent.op \in {"explore", "test"} => agent'.todo \in Seq(Score)
          /\ agent.op \in {"pick", "overall", "fields"} => agent'.todo \in Seq(Field)
      BY <1>1, <1>6, TodoGoesOn
    <2>4. /\ agent'.op = agent.op /\ agent'.pc \in {"fork", "tag"} /\ agent'.base = agent.base
          /\ agent'.branches = agent.branches
      BY <1>6
    <2>5. /\ Len(ck) \in Nat /\ Len(ck') = Len(ck) + 1
          /\ \A i \in 1 .. Len(agent.branches) : agent.branches[i] \in 1 .. Len(ck')
          /\ agent.base \in 0 .. Len(ck') /\ agent.base # 0
      BY <1>1, <1>5, CheckpointIs DEF TreeInv, AgentShape
    <2> QED
      BY <1>1, <1>7, <2>1, <2>2, <2>3, <2>4, <2>5 DEF TreeInv, AgentShape
  <1>9. FieldsMerged'
    <2>1. CASE agent.op = "fields"
      <3>1. Merged' = Len(ck) + 1
        BY <1>6, <1>7 DEF Merged, Last
      <3>2. NextVals = [ck[Merged].vals EXCEPT ![Head(agent.todo)] =
                          ck[Source(Head(agent.todo))].vals[Head(agent.todo)]]
        BY <2>1 DEF NextVals
      <3>3. ASSUME NEW f \in Field, f = Head(agent.todo) \/ Dominates(Merged, f)
            PROVE  Dominates(Merged, f)'
        <4>1. PICK i \in 1 .. Len(ck) : NextVals[f] = ck[i].vals[f] /\ Dominates(i, f)
          <5>1. Merged \in 1 .. Len(ck) /\ ck[Merged].vals \in [Field -> Score]
            BY <1>1, MergedIs, CheckpointIs
          <5>2. CASE f = Head(agent.todo)
            BY <2>1, <3>2, <5>1, <5>2, SourceIs
          <5>3. CASE f # Head(agent.todo)
            BY <3>2, <3>3, <5>1, <5>3
          <5> QED
            BY <5>2, <5>3
        <4>2. \A j \in 1 .. Len(agent.branches) : /\ agent.branches[j] \in 1 .. Len(ck)
                                                /\ NextVals[f] >= ck[agent.branches[j]].vals[f]
          BY <4>1 DEF Dominates, TreeInv, AgentShape
        <4>3. ck'[Merged'].vals[f] = NextVals[f] /\ agent'.branches = agent.branches
          BY <1>5, <1>6, <3>1
        <4> QED
          BY <1>5, <4>2, <4>3 DEF Dominates
      <3>4. agent'.op = "fields" /\ agent'.todo = Tail(agent.todo)
        BY <1>6, <2>1
      <3> QED
        BY <1>1, <2>1, <3>3, <3>4, NextField
    <2>2. CASE agent.op # "fields"
      BY <1>6, <2>2 DEF FieldsMerged
    <2> QED
      BY <2>1, <2>2
  <1> QED
    BY <1>4, <1>8, <1>9 DEF TreeInv

\* The operation goes on in good shape when only what is left of it changes.
LEMMA TagStepKeeps ==
  ASSUME TreeInv, TagStep
  PROVE  TreeInv'
  <1>1. /\ agent.op # "none" /\ agent.pc = "tag" /\ agent.made # <<>>
        /\ cache' = cache /\ faults' = faults /\ faults' \in 0 .. MaxFaults
    BY DEF TagStep, TreeInv, TreeShape, AgentShape
  <1>2. Reparented
    BY <1>1, MergedIs, TagIs DEF TagStep
  <1>3. TreeShape' /\ CacheKnown'
    BY <1>1, <1>2, ReparentedKeeps
  <1>4. agent' = [op |-> agent.op, pc |-> "fork", base |-> agent.base, branches |-> agent.branches,
                  todo |-> agent.todo, made |-> agent.made]
    BY DEF TagStep, TreeInv, AgentShape, AgentRecord
  <1>5. AgentShape'
    <2>1. AgentRecord'
      BY <1>4 DEF AgentRecord
    <2> QED
      BY <1>1, <1>2, <1>4, <2>1 DEF TreeInv, AgentShape, Reparented
  <1>6. FieldsMerged'
    <2>1. Merged' = Merged /\ Merged \in 1 .. Len(ck)
      BY <1>1, <1>4, MergedIs DEF Merged, Last
    <2>2. \A f \in Field : Dominates(Merged, f)' <=> Dominates(Merged, f)
      BY <1>2, <1>4, <2>1 DEF TreeInv, AgentShape, Dominates, Reparented
    <2> QED
      BY <1>1, <1>4, <2>2 DEF TreeInv, FieldsMerged
  <1> QED
    BY <1>3, <1>5, <1>6 DEF TreeInv

\* No operation is in progress.
LEMMA NoOpIs ==
  ASSUME TreeInv, agent' = NoOp
  PROVE  AgentShape' /\ FieldsMerged'
  BY CheckpointIs DEF AgentShape, AgentRecord, FieldsMerged, NoOp, Op

LEMMA ForkFailsKeeps ==
  ASSUME BoundAssumption, TreeInv, ForkFails
  PROVE  TreeInv'
  <1>1. /\ ck' = ck /\ cache' = cache /\ faults' \in 1 .. MaxFaults
        /\ agent.op # "none" /\ agent.pc = "fork" /\ agent.todo # <<>>
    BY DEF ForkFails, BoundAssumption, TreeInv, TreeShape
  <1>2. TreeShape' /\ CacheKnown'
    BY <1>1, SameTree
  <1>3. CASE agent.op \in {"explore", "fields"}
    <2>1. agent' = [op |-> agent.op, pc |-> agent.pc, base |-> agent.base, branches |-> agent.branches,
                    todo |-> Tail(agent.todo), made |-> agent.made]
      BY <1>3 DEF ForkFails, TreeInv, AgentShape, AgentRecord
    <2>2. AgentRecord'
      BY <2>1 DEF AgentRecord
    <2>3. /\ agent.op = "explore" => Tail(agent.todo) \in Seq(Score)
          /\ agent.op = "fields" => /\ Tail(agent.todo) \in Seq(Field)
                                    /\ Tail(agent.todo) \in {<<"coverage", "data">>, <<"data">>, <<>>}
      BY <1>1, TodoGoesOn
    <2>4. AgentShape'
      BY <1>1, <1>3, <2>1, <2>2, <2>3 DEF TreeInv, AgentShape
    <2>5. FieldsMerged'
      BY <1>1, <1>3, <2>1, <2>3 DEF FieldsMerged
    <2> QED
      BY <1>2, <2>4, <2>5 DEF TreeInv
  <1>4. CASE agent.op \notin {"explore", "fields"}
    BY <1>2, <1>4, NoOpIs DEF ForkFails, TreeInv
  <1> QED
    BY <1>3, <1>4

LEMMA FinishKeeps ==
  ASSUME TreeInv, FinishStep
  PROVE  TreeInv'
  <1>1. agent' = NoOp /\ cache' = cache /\ faults' = faults /\ faults' \in 0 .. MaxFaults
    BY DEF FinishStep, TreeInv, TreeShape
  <1>2. Reparented
    <2>1. /\ ck' = [i \in 1 .. Len(ck) |-> ck'[i]]
          /\ \A i \in 1 .. Len(ck) : ck'[i] = [ck[i] EXCEPT !.parent = i] \/ ck'[i] = ck[i]
      BY DEF FinishStep
    <2>2. \A i \in 1 .. Len(ck) : /\ ck'[i] \in Checkpoint /\ ck'[i].parent \in 0 .. i
                                /\ ck'[i].vals = ck[i].vals /\ ck'[i].forked = ck[i].forked
      <3> SUFFICES ASSUME NEW i \in 1 .. Len(ck)
                   PROVE  /\ ck'[i] \in Checkpoint /\ ck'[i].parent \in 0 .. i
                          /\ ck'[i].vals = ck[i].vals /\ ck'[i].forked = ck[i].forked
        OBVIOUS
      <3>1. ck[i] \in Checkpoint /\ ck[i].parent \in 0 .. i /\ i \in 0 .. i
        BY CheckpointIs
      <3>2. CASE ck'[i] = ck[i]
        BY <3>1, <3>2
      <3>3. CASE ck'[i] = [ck[i] EXCEPT !.parent = i]
        BY <3>1, <3>3 DEF Checkpoint
      <3> QED
        BY <2>1, <3>2, <3>3
    <2>3. ck' \in Seq(Checkpoint) /\ Len(ck') = Len(ck)
      <3>1. ck' \in [1 .. Len(ck) -> Checkpoint] /\ Len(ck) \in Nat
        BY <2>1, <2>2, CheckpointIs
      <3> QED
        BY <3>1, SeqDef
    <2> QED
      BY <2>2, <2>3 DEF Reparented
  <1>3. TreeShape' /\ CacheKnown'
    BY <1>1, <1>2, ReparentedKeeps
  <1>4. AgentShape' /\ FieldsMerged'
    <2>1. Len(ck') \in Nat
      BY <1>2, CheckpointIs DEF Reparented
    <2> QED
      BY <1>1, <2>1 DEF AgentShape, AgentRecord, FieldsMerged, NoOp, Op
  <1> QED
    BY <1>3, <1>4 DEF TreeInv

LEMMA CheckpointsStep ==
  ASSUME BoundAssumption, TreeInv, Checkpoints
  PROVE  TreeInv' /\ UNCHANGED <<half, versions>>
  <1>1. TreeInv'
    BY GraphWritesKeeps, UpdateStateKeeps, EnsureCacheKeeps, BeginKeeps, BeginPickKeeps, BeginMergeKeeps,
       SkipKeeps, ForkStepKeeps, TagStepKeeps, ForkFailsKeeps, FinishKeeps DEF Checkpoints
  <1>2. UNCHANGED <<half, versions>>
    BY DEF Checkpoints, GraphWrites, UpdateState, EnsureCache, Begin, BeginPick, BeginMerge, Skip, ForkStep,
           TagStep, ForkFails, FinishStep
  <1> QED
    BY <1>1, <1>2

-----------------------------------------------------------------------------
(* The theorems. *)

LEMMA TreeInitInv ==
  ASSUME BoundAssumption, TreeInit
  PROVE  TreeIInv
  <1>1. half \in {"reports", "checkpoints"}
    BY DEF TreeInit
  <1>2. rows = <<[number |-> 1, parent |-> 0, content |-> 1, approved |-> FALSE]>>
    BY DEF TreeInit
  <1>3. rows \in Seq(Version) /\ Len(rows) = 1 /\ rows[1].number = 1 /\ rows[1].parent = 0
    <2>1. [number |-> 1, parent |-> 0, content |-> 1, approved |-> FALSE] \in Version
      BY DEF BoundAssumption, Version
    <2> QED
      BY <1>2, <2>1
  <1>4. writer = [a \in Actor |-> Rest] /\ from = <<0>> /\ report = 1 /\ forkMark = 0
    BY DEF TreeInit
  <1>5. \A a \in Actor : Unsaved(a) = 0
    BY <1>4 DEF Unsaved, Rest
  <1>6. RowsShape
    BY <1>3, <1>4, <1>5 DEF RowsShape, BoundAssumption, Actor
  <1>7. WritersShape /\ ParentsExist
    BY <1>4 DEF WritersShape, WriterState, ParentsExist, Rest, Actor, BoundAssumption
  <1>8. HasLatest /\ RowsKnown
    BY <1>3 DEF HasLatest, Numbers, RowsKnown
  <1>9. TreeShape /\ CacheKnown
    <2>1. PICK x \in [Field -> Score] :
                 ck = <<[parent |-> 0, vals |-> [f \in Field |-> 0], forked |-> FALSE],
                        [parent |-> 1, vals |-> x, forked |-> FALSE]>>
      BY DEF TreeInit
    <2>2. /\ [parent |-> 0, vals |-> [f \in Field |-> 0], forked |-> FALSE] \in Checkpoint
          /\ [parent |-> 1, vals |-> x, forked |-> FALSE] \in Checkpoint
      BY DEF Checkpoint, Score
    <2>3. /\ ck \in Seq(Checkpoint) /\ Len(ck) = 2
          /\ \A i \in 1 .. Len(ck) : ck[i].parent \in 0 .. i
      BY <2>1, <2>2
    <2> QED
      BY <2>3 DEF TreeShape, CacheKnown, BoundAssumption, TreeInit
  <1>10. AgentShape /\ FieldsMerged
    <2>1. agent = NoOp /\ Len(ck) \in Nat
      BY <1>9 DEF TreeInit, TreeShape
    <2> QED
      BY <2>1 DEF AgentShape, AgentRecord, FieldsMerged, NoOp, Op
  <1> QED
    BY <1>1, <1>6, <1>7, <1>8, <1>9, <1>10 DEF TreeIInv, ReportsInv, TreeInv

LEMMA TreeStepInv ==
  ASSUME BoundAssumption, TreeIInv, [TreeNext]_treeVars
  PROVE  TreeIInv'
  <1>1. CASE Reports
    <2>1. ReportsInv' /\ UNCHANGED <<half, ck, cache, agent, faults>>
      BY <1>1, ReportsStep DEF TreeIInv, tree
    <2>2. TreeInv'
      BY <2>1 DEF TreeIInv, TreeInv, TreeShape, CacheKnown, AgentShape, AgentRecord, FieldsMerged, Dominates, Merged, Last
    <2> QED
      BY <2>1, <2>2 DEF TreeIInv
  <1>2. CASE Checkpoints
    <2>1. TreeInv' /\ UNCHANGED <<half, rows, from, report, forkMark, writer>>
      BY <1>2, CheckpointsStep DEF TreeIInv, versions
    <2>2. ReportsInv'
      BY ZenonT(30), <2>1 DEF TreeIInv, ReportsInv, RowsShape, WritersShape, HasLatest, ParentsExist, RowsKnown, Numbers, Unsaved
    <2> QED
      BY <2>1, <2>2 DEF TreeIInv
  <1>3. CASE UNCHANGED treeVars
    <2>1. UNCHANGED <<half, rows, from, report, forkMark, writer, ck, cache, agent, faults>>
      BY <1>3 DEF treeVars, versions, tree
    <2>2. ReportsInv'
      BY ZenonT(30), <2>1 DEF TreeIInv, ReportsInv, RowsShape, WritersShape, HasLatest, ParentsExist, RowsKnown, Numbers, Unsaved
    <2>3. TreeInv'
      BY <2>1 DEF TreeIInv, TreeInv, TreeShape, CacheKnown, AgentShape, AgentRecord, FieldsMerged, Dominates, Merged, Last
    <2> QED
      BY <2>1, <2>2, <2>3 DEF TreeIInv
  <1> QED
    BY <1>1, <1>2, <1>3 DEF TreeNext

LEMMA TreeInvariance == TreeSpec => []TreeIInv
  <1>1. TreeInit => TreeIInv
    BY TreeInitInv, BoundAssumption
  <1>2. TreeIInv /\ [TreeNext]_treeVars => TreeIInv'
    BY TreeStepInv, BoundAssumption
  <1> QED
    BY <1>1, <1>2, PTL DEF TreeSpec

\* The parent of a version was there before it, of duplicate numbers too
\* (_persist_report_version), and CheckpointOps sees every checkpoint that it forked
\* itself (_ensure_cache).
THEOREM HistoryTheorem == TreeSpec => []HistoryIsKnown
  <1>1. TreeIInv => TreeTypeOK
    <2> SUFFICES ASSUME TreeIInv PROVE TreeTypeOK
      OBVIOUS
    <2>1. Len(rows) <= MaxVersions + 1
      <3>1. Unsaved("edit") \in Nat /\ Unsaved("rework") \in Nat
        BY DEF Unsaved
      <3> QED
        BY <3>1, BoundAssumption DEF TreeIInv, ReportsInv, RowsShape, BoundAssumption
    <2>2. \A i \in 1 .. Len(ck) : ck[i].parent \in 0 .. i /\ ck[i].vals \in [Field -> Score]
      BY CheckpointIs DEF TreeIInv
    <2> QED
      BY <2>1, <2>2 DEF TreeIInv, TreeTypeOK, ReportsInv, RowsShape, Version, WritersShape, WriterState, TreeInv,
                        TreeShape, AgentShape
  <1>2. TreeIInv => HistoryIsKnown
    BY <1>1 DEF TreeIInv, HistoryIsKnown, ReportsInv, RowsKnown, TreeInv, CacheKnown
  <1> QED
    BY <1>2, TreeInvariance, PTL

\* What is written is what was read: a version holds the report its writer made
\* (_build_report_snapshot), whatever an edit or a re-run does meanwhile, and a merge
\* of fields without a failure ends with the best value of each (auto_merge).
THEOREM DetachedTheorem == TreeSpec => WritesAreDetached
  <1> DEFINE Detached ==
        /\ \A a \in Actor :
             (writer[a].pc = "insert" /\ writer'[a].pc = "idle")
               => rows'[Len(rows')].content = writer[a].content
        /\ (agent.op = "fields" /\ agent'.op = "none" /\ faults = 0)
             => \A f \in Field, i \in 1 .. 2 : ck[Merged].vals[f] >= ck[agent.branches[i]].vals[f]
  <1>1. ASSUME TreeIInv, TreeNext, NEW a \in Actor, writer[a].pc = "insert", writer'[a].pc = "idle"
        PROVE  rows'[Len(rows')].content = writer[a].content
    <2>1. Insert(a)
      <3>1. Reports
        BY <1>1 DEF TreeNext, Checkpoints, GraphWrites, UpdateState, EnsureCache, Begin, BeginPick, BeginMerge, Skip,
                    ForkStep, TagStep, ForkFails, FinishStep, versions
      <3>2. writer \in [Actor -> WriterState]
        BY <1>1 DEF TreeIInv, ReportsInv, WritersShape
      <3> QED
        BY <1>1, <3>1, <3>2 DEF Reports, Edit, Decide, Rework, ReworkStops, Select, Approve, Insert, Rest, Actor
    <2>2. rows \in Seq(Version) /\ rows' = Append(rows, Row(a))
      BY <1>1, <2>1, RowIs DEF Insert, TreeIInv
    <2>3. rows'[Len(rows')] = Row(a)
      BY <2>2
    <2> QED
      BY <2>3 DEF Row
  <1>2. ASSUME TreeIInv, TreeNext, agent.op = "fields", agent'.op = "none", faults = 0,
               NEW f \in Field, NEW i \in 1 .. 2
        PROVE  ck[Merged].vals[f] >= ck[agent.branches[i]].vals[f]
    <2>1. agent.todo = <<>>
      <3>1. Checkpoints
        BY <1>2 DEF TreeNext, Reports, Edit, Decide, Rework, ReworkStops, Select, Approve, Insert, tree
      <3>2. AgentRecord
        BY <1>2 DEF TreeIInv, TreeInv, AgentShape
      <3> QED
        BY <1>2, <3>1, <3>2 DEF Checkpoints, GraphWrites, UpdateState, EnsureCache, Begin, BeginPick, BeginMerge, Skip,
                                ForkStep, TagStep, ForkFails, FinishStep, AgentRecord
    <2>2. Dominates(Merged, f) /\ Len(agent.branches) = 2
      BY <1>2, <2>1 DEF TreeIInv, TreeInv, FieldsMerged, AgentShape
    <2> QED
      BY <2>2 DEF Dominates
  <1>3. TreeIInv /\ [TreeNext]_treeVars => [Detached]_treeVars
    BY <1>1, <1>2
  <1> QED
    BY <1>3, TreeInvariance, PTL DEF TreeSpec, WritesAreDetached

-----------------------------------------------------------------------------
(* Evidence: what a gate that lets a report pass has made sure of. *)

\* The Writer's quality gate (build_quality_gate), for any run whatever: a report
\* it does not block has its pairs rated, no fact error, no claim of one domain
\* under the strict policy, and each claim left unsupported was in the gaps of
\* the review before.
THEOREM GateTheorem == GateBlocks
<1> SUFFICES ASSUME input # NoRun, Gate(input) # "blocked"
             PROVE  /\ \A pair \in Pairs(input) : \E c \in Cells(input) : Pair(c) = pair /\ c.rating = "rated"
                    /\ \A c \in GateClaims(input) :
                         input.policy = "strict_multi_source" => Cardinality(Domains(CitedBy(input, c))) # 1
                    /\ FactErrors(input) = {}
                    /\ \A c \in Claims(input) :
                         ClaimStatus(input, c) # "supported" => ClaimGaps(input) \cap input.prev # {} /\ input.round >= 2
  BY DEF GateBlocks
<1>1. /\ ReviewerBlocks(input) = {} /\ Uncovered(input) = {}
      /\ input.policy = "strict_multi_source" => SingleSource(input) = {}
  BY DEF Gate
<1>2. \A pair \in Pairs(input) : \E c \in Cells(input) : Pair(c) = pair /\ c.rating = "rated"
  BY <1>1 DEF Uncovered
<1>3. \A c \in GateClaims(input) :
        input.policy = "strict_multi_source" => Cardinality(Domains(CitedBy(input, c))) # 1
  BY <1>1 DEF SingleSource, ClaimDomains
<1>4. FactErrors(input) = {} /\ \A g \in Gaps(input) : g.severity \notin {"critical", "major"}
  BY <1>1 DEF ReviewerBlocks
<1>5. ASSUME NEW c \in Claims(input), ClaimStatus(input, c) # "supported"
      PROVE  ClaimGaps(input) \cap input.prev # {} /\ input.round >= 2
  <2> DEFINE g == Gap("claim", IF ClaimStatus(input, c) = "contradicted" THEN "source_conflict" ELSE "missing_data",
                      IF ClaimStatus(input, c) = "contradicted" THEN "critical" ELSE "major", c.ids, Pair(c))
  <2>1. g \in ClaimGaps(input) /\ g.severity \in {"critical", "major"}
    BY <1>5 DEF ClaimGaps, Gap
  <2>2. g \in Found(input)
    BY <2>1 DEF Found
  <2> HIDE DEF g
  <2>3. ~(g \in input.prev /\ input.round >= 2) => g \in Gaps(input)
    BY <2>2 DEF Gaps, FilterLoopGaps
  <2> QED
    BY <1>4, <2>1, <2>3
<1> QED
  BY <1>2, <1>3, <1>4, <1>5

-----------------------------------------------------------------------------
(* Finite sets: induction, the first of an order, and folds. *)

LEMMA LeastExists == ASSUME NEW T \in SUBSET Nat, T # {} PROVE \E x \in T : \A y \in T : x <= y
<1>1. PICK x \in T : \A y \in T : ~(<<y, x>> \in OpToRel(<, Nat))
  BY WFMin, NatLessThanWellFounded
<1>2. ASSUME NEW y \in T PROVE x <= y
  <2>1. ~(<<y, x>> \in OpToRel(<, Nat))
    BY <1>1
  <2>2. ~(y < x)
    BY <2>1 DEF OpToRel
  <2> QED
    BY <2>2
<1> QED
  BY <1>2

LEMMA SmallerSet ==
  ASSUME NEW S, IsFiniteSet(S), NEW s \in SUBSET S, NEW t \in SUBSET s, t # s
  PROVE  /\ IsFiniteSet(s) /\ Cardinality(s) \in Nat /\ Cardinality(t) \in Nat
         /\ Cardinality(t) < Cardinality(s)
<1>1. IsFiniteSet(s)
  BY FS_Subset
<1>2. IsFiniteSet(t) /\ Cardinality(t) <= Cardinality(s) /\ Cardinality(s) # Cardinality(t)
  BY <1>1, FS_Subset
<1> QED
  BY <1>1, <1>2, FS_CardinalityType

\* Induction: what holds of a subset if it holds of every smaller one holds of all.
LEMMA SetInduction ==
  ASSUME NEW S, IsFiniteSet(S), NEW Good,
         \A s \in SUBSET S : (\A t \in SUBSET s : t # s => t \in Good) => s \in Good
  PROVE  \A s \in SUBSET S : s \in Good
<1> DEFINE Bad == (SUBSET S) \ Good
           Sizes == {Cardinality(s) : s \in Bad}
<1>1. SUFFICES ASSUME Bad # {} PROVE FALSE
  OBVIOUS
<1>2. Sizes \in SUBSET Nat /\ Sizes # {}
  <2>1. \A s \in Bad : Cardinality(s) \in Nat
    BY FS_Subset, FS_CardinalityType
  <2> HIDE DEF Bad
  <2> QED
    BY <1>1, <2>1
<1>3. PICK n \in Sizes : \A m \in Sizes : n <= m
  <2> HIDE DEF Sizes
  <2> QED
    BY <1>2, LeastExists
<1>4. PICK s \in Bad : n = Cardinality(s)
  BY <1>3
<1>5. PICK t \in SUBSET s : t # s /\ t \notin Good
  BY <1>4
<1>6. t \in Bad
  BY <1>4, <1>5
<1>7. Cardinality(t) < Cardinality(s) /\ Cardinality(t) \in Nat /\ Cardinality(s) \in Nat
  BY <1>4, <1>5, SmallerSet
<1>8. n <= Cardinality(t)
  <2>1. Cardinality(t) \in Sizes
    BY <1>6
  <2> HIDE DEF Sizes
  <2> QED
    BY <2>1, <1>3
<1> QED
  BY <1>4, <1>7, <1>8

\* A strict order on a finite set has an element that nothing comes before.
LEMMA FirstExists ==
  ASSUME NEW S, IsFiniteSet(S), NEW R, \A x \in S : <<x, x>> \notin R,
         \A x, y, z \in S : <<x, y>> \in R /\ <<y, z>> \in R => <<x, z>> \in R
  PROVE  \A s \in SUBSET S : s # {} => \E x \in s : \A y \in s : <<y, x>> \notin R
<1> DEFINE First(s) == s # {} => \E x \in s : \A y \in s : <<y, x>> \notin R
           Good == {s \in SUBSET S : First(s)}
<1>1. ASSUME NEW s \in SUBSET S, \A t \in SUBSET s : t # s => t \in Good PROVE First(s)
  <2>1. SUFFICES ASSUME NEW w \in s PROVE \E x \in s : \A y \in s : <<y, x>> \notin R
    OBVIOUS
  <2> DEFINE t == {x \in s : <<x, w>> \in R}
  <2>2. CASE t = {}
    BY <2>2
  <2>3. CASE t # {}
    <3>1. t \in SUBSET s /\ t # s
      OBVIOUS
    <3>2. First(t)
      BY <3>1, <1>1
    <3>3. PICK x \in t : \A y \in t : <<y, x>> \notin R
      BY <2>3, <3>2
    <3>4. ASSUME NEW y \in s, <<y, x>> \in R PROVE FALSE
      BY <3>3, <3>4
    <3> QED
      BY <3>3, <3>4
  <2> QED
    BY <2>2, <2>3
<1> HIDE DEF First
<1>2. \A s \in SUBSET S : (\A t \in SUBSET s : t # s => t \in Good) => s \in Good
  BY <1>1
<1> HIDE DEF Good
<1>3. \A s \in SUBSET S : s \in Good
  BY <1>2, SetInduction
<1> QED
  BY <1>3 DEF Good, First

\* What a fold computes from b on a subset s of S: next is the element that it
\* takes last, F what it makes of that element and of the rest.
Picks(S, next) == \A s \in SUBSET S : s # {} => next[s] \in s
IsFold(h, S, b, F, next) ==
  \A s \in SUBSET S : h[s] = IF s = {} THEN b ELSE F[<<next[s], h[s \ {next[s]}]>>]

\* A fold over a finite set is defined.
LEMMA FoldExists ==
  ASSUME NEW S, IsFiniteSet(S), NEW A, NEW b \in A, NEW F \in [S \X A -> A],
         NEW next, Picks(S, next)
  PROVE  \E h \in [SUBSET S -> A] : IsFold(h, S, b, F, next)
<1> DEFINE Step(h, s) == IF s = {} THEN b ELSE F[<<next[s], h[s \ {next[s]}]>>]
           Until(n, h) == \A s \in SUBSET S : Cardinality(s) <= n => h[s] = Step(h, s)
           Bad == {n \in Nat : ~\E h \in [SUBSET S -> A] : Until(n, h)}
<1>1. \A s \in SUBSET S : Cardinality(s) \in Nat /\ (Cardinality(s) = 0 <=> s = {}) /\ Cardinality(s) <= Cardinality(S)
  BY FS_Subset, FS_EmptySet, FS_CardinalityType
<1>2. Bad = {}
  <2>1. SUFFICES ASSUME Bad # {} PROVE FALSE
    OBVIOUS
  <2>2. PICK n \in Bad : \A m \in Bad : n <= m
    BY <2>1, LeastExists
  <2>3. CASE n = 0
    <3> DEFINE h == [s \in SUBSET S |-> b]
    <3>1. h \in [SUBSET S -> A] /\ Until(0, h)
      BY <1>1
    <3> QED
      BY <3>1, <2>2, <2>3
  <2>4. CASE n # 0
    <3>1. n \in Nat /\ n - 1 \in Nat /\ n - 1 \notin Bad
      <4>1. n \in Nat /\ n - 1 \in Nat /\ ~(n <= n - 1)
        BY <2>2, <2>4
      <4> HIDE DEF Bad
      <4> QED
        BY <4>1, <2>2
    <3>2. PICK g \in [SUBSET S -> A] : Until(n - 1, g)
      BY <3>1
    <3> DEFINE h == [s \in SUBSET S |-> Step(g, s)]
    <3>3. h \in [SUBSET S -> A]
      <4>1. ASSUME NEW s \in SUBSET S PROVE Step(g, s) \in A
        <5>1. CASE s # {}
          <6>1. next[s] \in S /\ g[s \ {next[s]}] \in A
            BY <5>1 DEF Picks
          <6> QED
            BY <6>1, <5>1
        <5> QED
          BY <5>1
      <4> QED
        BY <4>1
    <3>4. ASSUME NEW s \in SUBSET S, Cardinality(s) <= n PROVE h[s] = Step(h, s)
      <4>1. CASE s = {}
        BY <4>1
      <4>2. CASE s # {}
        <5>1. next[s] \in s
          BY <4>2 DEF Picks
        <5> DEFINE t == s \ {next[s]}
        <5>2. t \in SUBSET S /\ Cardinality(t) <= n - 1
          <6>1. t \in SUBSET s /\ t # s
            BY <5>1
          <6>2. Cardinality(t) < Cardinality(s) /\ Cardinality(t) \in Nat /\ Cardinality(s) \in Nat
            BY <6>1, SmallerSet
          <6> QED
            BY <6>1, <6>2, <3>1, <3>4
        <5>3. h[t] = g[t]
          BY <5>2, <3>2
        <5> QED
          BY <4>2, <5>3
      <4> QED
        BY <4>1, <4>2
    <3> HIDE DEF h
    <3>5. Until(n, h)
      BY <3>4
    <3> QED
      BY <3>3, <3>5, <2>2
  <2> QED
    BY <2>3, <2>4
<1>3. Cardinality(S) \in Nat
  BY FS_CardinalityType
<1>4. PICK h \in [SUBSET S -> A] : Until(Cardinality(S), h)
  BY <1>2, <1>3
<1>5. \A s \in SUBSET S : h[s] = Step(h, s)
  BY <1>1, <1>4
<1> QED
  BY <1>5 DEF IsFold

\* ... and there is one.
Folding(g, S, A, b, F, next) ==
  /\ IsFiniteSet(S) /\ b \in A /\ F \in [S \X A -> A] /\ Picks(S, next)
  /\ g \in [SUBSET S -> A] /\ IsFold(g, S, b, F, next)
GoesBy(h, S, A, b, F, next) ==
  /\ h[{}] = b
  /\ \A s \in SUBSET S : s # {} /\ h[s \ {next[s]}] \in A => h[s] = F[<<next[s], h[s \ {next[s]}]>>]

LEMMA FoldUnique ==
  ASSUME NEW S, NEW A, NEW b, NEW F, NEW next, NEW g, NEW h,
         Folding(g, S, A, b, F, next), GoesBy(h, S, A, b, F, next)
  PROVE  \A s \in SUBSET S : h[s] = g[s]
<1> DEFINE Good == {s \in SUBSET S : h[s] = g[s]}
<1>1. ASSUME NEW s \in SUBSET S, \A t \in SUBSET s : t # s => t \in Good PROVE h[s] = g[s]
  <2>1. CASE s = {}
    BY <2>1 DEF Folding, IsFold, GoesBy
  <2>2. CASE s # {}
    <3> DEFINE t == s \ {next[s]}
    <3>1. next[s] \in s
      BY <2>2 DEF Folding, Picks
    <3>2. t \in SUBSET S /\ h[t] = g[t]
      BY <3>1, <1>1
    <3> HIDE DEF t, Good
    <3>3. g[t] \in A
      BY <3>2 DEF Folding
    <3>4. h[s] = F[<<next[s], h[t]>>] /\ g[s] = F[<<next[s], g[t]>>]
      BY <2>2, <3>2, <3>3 DEF Folding, IsFold, GoesBy, t
    <3> QED
      BY <3>2, <3>4
  <2> QED
    BY <2>1, <2>2
<1>2. \A s \in SUBSET S : (\A t \in SUBSET s : t # s => t \in Good) => s \in Good
  BY <1>1
<1> HIDE DEF Good
<1>3. IsFiniteSet(S)
  BY DEF Folding
<1>4. \A s \in SUBSET S : s \in Good
  BY <1>2, <1>3, SetInduction
<1> QED
  BY <1>4 DEF Good

LEMMA ToSetFinite == ASSUME NEW S, NEW seq \in Seq(S) PROVE IsFiniteSet(ToSet(seq)) /\ ToSet(seq) \subseteq S
<1>1. DOMAIN seq = 1 .. Len(seq) /\ Len(seq) \in Nat /\ seq \in [1 .. Len(seq) -> S]
  OBVIOUS
<1>2. seq \in Surjection(1 .. Len(seq), ToSet(seq))
  BY <1>1 DEF Surjection, ToSet
<1>3. IsFiniteSet(1 .. Len(seq))
  BY <1>1, FS_Interval
<1> QED
  BY <1>1, <1>2, <1>3, FS_Surjection DEF ToSet

LEMMA MaxOf == ASSUME NEW k \in Nat, k > 0, NEW s \in SUBSET (1 .. k), k \in s PROVE Max(s) = k
<1> DEFINE Top(x) == x \in s /\ \A y \in s : x >= y
<1>1. \A y \in s : y \in Int /\ k >= y
  OBVIOUS
<1>2. ASSUME NEW x, Top(x) PROVE x = k
  <2>1. x \in Int /\ x >= k /\ k >= x
    BY <1>1, <1>2
  <2> QED
    BY <2>1
<1>3. Top(k)
  BY <1>1
<1>4. Max(s) = CHOOSE x : Top(x)
  BY DEF Max
<1> HIDE DEF Top
<1> QED
  BY <1>2, <1>3, <1>4

LEMMA MaxIn == ASSUME NEW n \in Nat, NEW s \in SUBSET (1 .. n), s # {} PROVE Max(s) \in s
<1> DEFINE T == {n - x : x \in s}
           Top(x) == x \in s /\ \A y \in s : x >= y
<1>1. T \in SUBSET Nat /\ T # {}
  <2>1. ASSUME NEW x \in s PROVE n - x \in Nat /\ n - x \in T
    OBVIOUS
  <2> QED
    BY <2>1
<1>2. PICK m \in T : \A y \in T : m <= y
  <2> HIDE DEF T
  <2> QED
    BY <1>1, LeastExists
<1>3. PICK x \in s : m = n - x
  BY <1>2
<1>4. ASSUME NEW y \in s PROVE x >= y
  <2>1. n - x <= n - y
    BY <1>2, <1>3
  <2> QED
    BY <2>1
<1>5. Top(x)
  BY <1>4
<1>6. Max(s) = CHOOSE y : Top(y)
  BY DEF Max
<1>7. Top(Max(s))
  BY <1>5, <1>6
<1> QED
  BY <1>7

-----------------------------------------------------------------------------
(* Evidence: merging is the loop over the points that it looks like. *)

\* The function that the fold of Deduplicate chooses.  (DedupeStep is not typed yet,
\* so FoldExists does not apply.)
Start == [seen |-> <<>>, result |-> <<>>]
Folded(points, n, g) ==
  g = [s \in SUBSET (1 .. n) |-> IF s = {} THEN Start ELSE DedupeStep(g[s \ {Max(s)}], points[Max(s)])]

LEMMA DedupeFoldExists == ASSUME NEW points, NEW n \in Nat PROVE \E g : Folded(points, n, g)
<1> DEFINE Bad == {k \in Nat : ~\E g : Folded(points, k, g)}
<1>1. SUFFICES ASSUME Bad # {} PROVE FALSE
  OBVIOUS
<1>2. PICK k \in Bad : \A j \in Bad : k <= j
  BY <1>1, LeastExists
<1>3. CASE k = 0
  <2> DEFINE g == [s \in SUBSET (1 .. 0) |-> Start]
  <2>1. \A s \in SUBSET (1 .. 0) : s = {}
    OBVIOUS
  <2>2. Folded(points, 0, g)
    BY <2>1 DEF Folded
  <2> QED
    BY <2>2, <1>2, <1>3
<1>4. CASE k # 0
  <2>1. k - 1 \in Nat /\ k - 1 \notin Bad
    BY <1>2, <1>4
  <2>2. PICK f : Folded(points, k - 1, f)
    BY <2>1
  <2> DEFINE Step(h, s) == IF s = {} THEN Start ELSE DedupeStep(h[s \ {Max(s)}], points[Max(s)])
             g == [s \in SUBSET (1 .. k) |-> IF k \in s THEN DedupeStep(f[s \ {k}], points[k]) ELSE f[s]]
  <2>3. ASSUME NEW s \in SUBSET (1 .. k) PROVE g[s] = Step(g, s)
    <3>1. CASE k \in s
      <4>1. Max(s) = k
        BY <3>1, <1>4, <1>2, MaxOf
      <4>2. s \ {k} \in SUBSET (1 .. k) /\ k \notin s \ {k} /\ s # {}
        BY <3>1
      <4>3. g[s \ {k}] = f[s \ {k}] /\ g[s] = DedupeStep(f[s \ {k}], points[k])
        BY <4>2, <3>1
      <4> QED
        BY <4>1, <4>2, <4>3
    <3>2. CASE k \notin s
      <4>0. \A i \in s : i \in 1 .. (k - 1)
        BY <3>2, <1>2
      <4>1. s \in SUBSET (1 .. (k - 1)) /\ s \ {Max(s)} \in SUBSET (1 .. k)
        BY <4>0
      <4>2. g[s] = f[s] /\ g[s \ {Max(s)}] = f[s \ {Max(s)}]
        BY <4>1, <3>2
      <4>3. f[s] = Step(f, s)
        BY <4>1, <2>2 DEF Folded
      <4> QED
        BY <4>2, <4>3
    <3> QED
      BY <3>1, <3>2
  <2>4. g = [s \in SUBSET (1 .. k) |-> Step(g, s)]
    <3> DEFINE h == [s \in SUBSET (1 .. k) |-> Step(g, s)]
    <3>1. DOMAIN g = SUBSET (1 .. k) /\ DOMAIN h = SUBSET (1 .. k)
      OBVIOUS
    <3>2. \A s \in SUBSET (1 .. k) : g[s] = h[s]
      BY <2>3
    <3>3. g = [s \in DOMAIN g |-> g[s]] /\ h = [s \in DOMAIN h |-> h[s]]
      OBVIOUS
    <3> HIDE DEF g, h
    <3> QED
      BY ONLY <3>1, <3>2, <3>3 DEF h
  <2>5. Folded(points, k, g)
    BY <2>4 DEF Folded
  <2> QED
    BY <2>5, <1>2
<1> QED
  BY <1>3, <1>4

\* deduplicate_datapoints is the loop over the points that it looks like.
LEMMA DedupeLoop ==
  ASSUME NEW S, NEW points \in Seq(S)
  PROVE  \E acc : /\ acc[0] = Start /\ Deduplicate(points) = acc[Len(points)].result
                  /\ \A k \in 1 .. Len(points) : acc[k] = DedupeStep(acc[k - 1], points[k])
<1> DEFINE n == Len(points)
           g == CHOOSE h : Folded(points, n, h)
           acc == [k \in 0 .. n |-> g[1 .. k]]
<1>1. n \in Nat /\ DOMAIN points = 1 .. n
  OBVIOUS
<1>2. Folded(points, n, g)
  BY <1>1, DedupeFoldExists
<1>3. Deduplicate(points) = g[1 .. n].result
  BY <1>1 DEF Deduplicate, FoldLeft, MapThenFoldSet, Folded, Start
<1> HIDE DEF g, n
<1>4. \A s \in SUBSET (1 .. n) : g[s] = IF s = {} THEN Start ELSE DedupeStep(g[s \ {Max(s)}], points[Max(s)])
  BY <1>2 DEF Folded
<1>5. acc[0] = Start
  <2>1. 1 .. 0 = {} /\ 1 .. 0 \in SUBSET (1 .. n) /\ 0 \in 0 .. n
    BY <1>1
  <2> QED
    BY <2>1, <1>4
<1>6. ASSUME NEW k \in 1 .. n PROVE acc[k] = DedupeStep(acc[k - 1], points[k])
  <2>1. k \in Nat /\ k > 0 /\ k \in 0 .. n /\ k - 1 \in 0 .. n
    BY <1>1
  <2>2. 1 .. k \in SUBSET (1 .. n) /\ k \in 1 .. k /\ (1 .. k) \ {k} = 1 .. (k - 1)
    BY <1>1
  <2>3. Max(1 .. k) = k
    BY <2>1, <2>2, MaxOf
  <2>4. g[1 .. k] = DedupeStep(g[1 .. (k - 1)], points[k])
    BY <2>2, <2>3, <1>4
  <2> QED
    BY <2>1, <2>4
<1>7. acc[n] = g[1 .. n]
  BY <1>1
<1> QED
  BY <1>3, <1>5, <1>6, <1>7 DEF n

-----------------------------------------------------------------------------
(* Evidence: merging loses no source. *)

\* Data points whose texts and addresses are from Text.
DataPoint(Text) ==
  [id : Nat, product : Text, dim : Text, label : Seq(Text \cup {Unknown}), src : Seq(Text), val : Nat,
   conf : {"high", "low"}, date : {"none", "old", "new"}, kind : {"official", "other"},
   local : BOOLEAN, ok : BOOLEAN, cost : Nat]

\* A point of the list is of p's product and dimension and names p's pages.
Named(points, p) == \E q \in ToSet(points) : Pair(q) = Pair(p) /\ ToSet(p.src) \subseteq ToSet(q.src)

\* What seen says of the result while points are merged.
Linked(Text, acc) ==
  /\ acc = [seen |-> acc.seen, result |-> acc.result]
  /\ acc.result \in Seq(DataPoint(Text))
  /\ acc.seen = [key \in DOMAIN acc.seen |-> acc.seen[key]]
  /\ \A key \in DOMAIN acc.seen : /\ acc.seen[key] \in 1 .. Len(acc.result)
                                  /\ Pair(acc.result[acc.seen[key]]) = <<key[1], key[2]>>

LEMMA ConcatIs ==
  ASSUME NEW S, NEW a \in Seq(S), NEW b \in Seq(S)
  PROVE  a \o b \in Seq(S) /\ ToSet(a \o b) = ToSet(a) \cup ToSet(b)
<1> DEFINE c == a \o b
<1>1. /\ c \in Seq(S) /\ Len(c) = Len(a) + Len(b) /\ DOMAIN c = 1 .. Len(c)
      /\ DOMAIN a = 1 .. Len(a) /\ DOMAIN b = 1 .. Len(b) /\ Len(a) \in Nat /\ Len(b) \in Nat
  BY ConcatProperties
<1>2. \A i \in 1 .. Len(a) + Len(b) : c[i] = IF i <= Len(a) THEN a[i] ELSE b[i - Len(a)]
  BY ConcatProperties
<1> HIDE DEF c
<1>3. ASSUME NEW i \in DOMAIN a PROVE i \in DOMAIN c /\ c[i] = a[i]
  BY <1>1, <1>2
<1>4. ASSUME NEW i \in DOMAIN b PROVE Len(a) + i \in DOMAIN c /\ c[Len(a) + i] = b[i]
  <2>1. Len(a) + i \in 1 .. Len(a) + Len(b) /\ ~(Len(a) + i <= Len(a)) /\ (Len(a) + i) - Len(a) = i
    BY <1>1
  <2> QED
    BY <1>1, <1>2, <2>1
<1>5. ASSUME NEW i \in DOMAIN c PROVE (i \in DOMAIN a /\ c[i] = a[i]) \/ (i - Len(a) \in DOMAIN b /\ c[i] = b[i - Len(a)])
  BY <1>1, <1>2
<1>6. ToSet(c) = ToSet(a) \cup ToSet(b)
  BY <1>3, <1>4, <1>5 DEF ToSet
<1> QED
  BY <1>1, <1>6 DEF c

LEMMA CombinedIs ==
  ASSUME NEW Text, NEW e \in DataPoint(Text), NEW p \in DataPoint(Text)
  PROVE  /\ Combined(e, p) \in DataPoint(Text) /\ Pair(Combined(e, p)) = Pair(e)
         /\ ToSet(e.src) \subseteq ToSet(Combined(e, p).src) /\ ToSet(p.src) \subseteq ToSet(Combined(e, p).src)
<1>1. e.src \in Seq(Text) /\ p.src \in Seq(Text)
  BY DEF DataPoint
<1>2. e.src \o p.src \in Seq(Text) /\ ToSet(e.src \o p.src) = ToSet(e.src) \cup ToSet(p.src)
  BY <1>1, ConcatIs
<1>3. Combined(e, p) \in DataPoint(Text) /\ Combined(e, p).src = e.src \o p.src /\ Pair(Combined(e, p)) = Pair(e)
  BY <1>2 DEF DataPoint, Combined, Pair
<1> QED
  BY <1>2, <1>3

LEMMA MarkedIs ==
  ASSUME NEW Text, NEW p \in DataPoint(Text)
  PROVE  Marked(p) \in DataPoint(Text) /\ Pair(Marked(p)) = Pair(p) /\ Marked(p).src = p.src
<1>1. DomainOf(p) \in Text \cup {Unknown}
  BY DEF DomainOf, DataPoint
<1>2. p.label \in Seq(Text \cup {Unknown}) /\ Append(p.label, DomainOf(p)) \in Seq(Text \cup {Unknown})
  BY <1>1 DEF DataPoint
<1> QED
  BY <1>2 DEF Marked, Pair, DataPoint

LEMMA AppendIs ==
  ASSUME NEW S, NEW points \in Seq(S), NEW p \in S
  PROVE  /\ Append(points, p) \in Seq(S) /\ Len(Append(points, p)) = Len(points) + 1
         /\ ToSet(Append(points, p)) = ToSet(points) \cup {p}
         /\ \A i \in 1 .. Len(points) : Append(points, p)[i] = points[i]
         /\ Append(points, p)[Len(points) + 1] = p
<1> DEFINE more == Append(points, p)
<1>1. /\ more \in Seq(S) /\ Len(more) = Len(points) + 1 /\ DOMAIN more = 1 .. (Len(points) + 1)
      /\ \A i \in 1 .. Len(points) : more[i] = points[i]
      /\ more[Len(points) + 1] = p /\ DOMAIN points = 1 .. Len(points) /\ Len(points) \in Nat
  OBVIOUS
<1>2. DOMAIN more = DOMAIN points \cup {Len(points) + 1}
  BY <1>1
<1> HIDE DEF more
<1>3. ToSet(more) = ToSet(points) \cup {p}
  BY <1>1, <1>2 DEF ToSet
<1> QED
  BY <1>1, <1>3 DEF more

\* Replacing an entry by one that names as much.
Replaces(new, points, i, q, S) ==
  /\ new \in Seq(S) /\ Len(new) = Len(points)
  /\ new[i] = q /\ \A j \in 1 .. Len(points) : j # i => new[j] = points[j]
  /\ q \in ToSet(new) /\ \A p \in ToSet(points) : p = points[i] \/ p \in ToSet(new)
LEMMA ReplaceIs ==
  ASSUME NEW S, NEW points \in Seq(S), NEW i \in 1 .. Len(points), NEW q \in S
  PROVE  Replaces([points EXCEPT ![i] = q], points, i, q, S)
<1> DEFINE new == [points EXCEPT ![i] = q]
<1>1. new \in Seq(S) /\ Len(new) = Len(points) /\ DOMAIN points = 1 .. Len(points)
  OBVIOUS
<1>2. DOMAIN new = 1 .. Len(points) /\ new[i] = q /\ \A j \in 1 .. Len(points) : j # i => new[j] = points[j]
  BY <1>1
<1> HIDE DEF new
<1>3. q \in ToSet(new) /\ \A p \in ToSet(points) : p = points[i] \/ p \in ToSet(new)
  BY <1>1, <1>2 DEF ToSet
<1>4. Replaces(new, points, i, q, S)
  BY <1>1, <1>2, <1>3 DEF Replaces
<1> QED
  BY <1>4 DEF new

LEMMA DedupeKeeps ==
  ASSUME NEW Text, NEW acc, Linked(Text, acc), NEW p \in DataPoint(Text)
  PROVE  /\ Linked(Text, DedupeStep(acc, p)) /\ Named(DedupeStep(acc, p).result, p)
         /\ \A q \in DataPoint(Text) : Named(acc.result, q) => Named(DedupeStep(acc, p).result, q)
<1> DEFINE key == <<p.product, p.dim, p.label>>
           i == acc.seen[key]
           e == acc.result[i]
           new == DedupeStep(acc, p)
           Goal == /\ Linked(Text, new) /\ Named(new.result, p)
                   /\ \A q \in DataPoint(Text) : Named(acc.result, q) => Named(new.result, q)
<1>0. SUFFICES Goal
  OBVIOUS
<1>1. acc.result \in Seq(DataPoint(Text)) /\ DOMAIN acc.result = 1 .. Len(acc.result) /\ Len(acc.result) \in Nat
  BY DEF Linked
<1>2. Pair(p) = <<key[1], key[2]>>
  BY DEF Pair
<1>3. CASE key \notin DOMAIN acc.seen
  <2> DEFINE seen == [k \in DOMAIN acc.seen \cup {key} |-> IF k = key THEN Len(acc.result) + 1 ELSE acc.seen[k]]
             result == Append(acc.result, p)
  <2>1. new = [seen |-> seen, result |-> result]
    BY <1>3 DEF DedupeStep
  <2>2. /\ DOMAIN seen = DOMAIN acc.seen \cup {key} /\ seen = [k \in DOMAIN seen |-> seen[k]]
        /\ seen[key] = Len(acc.result) + 1 /\ \A k \in DOMAIN acc.seen : seen[k] = acc.seen[k]
    BY <1>3
  <2>3. /\ result \in Seq(DataPoint(Text)) /\ Len(result) = Len(acc.result) + 1
        /\ ToSet(result) = ToSet(acc.result) \cup {p}
        /\ \A j \in 1 .. Len(acc.result) : result[j] = acc.result[j]
        /\ result[Len(acc.result) + 1] = p
    BY <1>1, AppendIs
  <2> HIDE DEF seen, result, key
  <2>4. \A k \in DOMAIN seen : seen[k] \in 1 .. Len(result) /\ Pair(result[seen[k]]) = <<k[1], k[2]>>
    BY <2>2, <2>3, <1>1, <1>2 DEF Linked
  <2> HIDE DEF new
  <2>5. Linked(Text, new)
    BY <2>1, <2>2, <2>3, <2>4 DEF Linked
  <2>6. Named(new.result, p) /\ \A q \in DataPoint(Text) : Named(acc.result, q) => Named(new.result, q)
    BY <2>1, <2>3 DEF Named
  <2> QED
    BY <2>5, <2>6
<1>4. CASE key \in DOMAIN acc.seen
  <2>1. i \in 1 .. Len(acc.result) /\ e \in DataPoint(Text) /\ Pair(e) = Pair(p) /\ e \in ToSet(acc.result)
    <3>1. i \in 1 .. Len(acc.result) /\ Pair(acc.result[i]) = <<key[1], key[2]>>
      BY <1>4 DEF Linked
    <3> HIDE DEF i, key
    <3> QED
      BY <1>1, <1>2, <3>1 DEF ToSet
  <2>2. CASE e.src = p.src
    <3>1. new = acc
      BY <1>4, <2>2 DEF DedupeStep
    <3> QED
      BY <2>1, <2>2, <3>1 DEF Named
  <2>3. CASE e.src # p.src /\ Similar(p.val, e.val)
    <3> DEFINE c == Combined(e, p)
               result == [acc.result EXCEPT ![i] = c]
    <3>1. new = [seen |-> acc.seen, result |-> result]
      BY <1>4, <2>3 DEF DedupeStep, Linked
    <3>2. /\ c \in DataPoint(Text) /\ Pair(c) = Pair(e)
          /\ ToSet(e.src) \subseteq ToSet(c.src) /\ ToSet(p.src) \subseteq ToSet(c.src)
      BY <2>1, CombinedIs
    <3> HIDE DEF c
    <3>3. /\ result \in Seq(DataPoint(Text)) /\ Len(result) = Len(acc.result)
          /\ result[i] = c /\ \A j \in 1 .. Len(acc.result) : j # i => result[j] = acc.result[j]
          /\ c \in ToSet(result) /\ \A q \in ToSet(acc.result) : q = e \/ q \in ToSet(result)
      <4> DEFINE old == acc.result
      <4>1. old \in Seq(DataPoint(Text)) /\ i \in 1 .. Len(old) /\ c \in DataPoint(Text) /\ e = old[i]
        BY <1>1, <2>1, <3>2
      <4> HIDE DEF i, e, old
      <4>2. Replaces([old EXCEPT ![i] = c], old, i, c, DataPoint(Text))
        BY <4>1, ReplaceIs
      <4>3. Replaces(result, acc.result, i, c, DataPoint(Text))
        BY <4>2 DEF old
      <4> HIDE DEF result
      <4> QED
        BY <4>1, <4>3 DEF old, Replaces
    <3> HIDE DEF result, key, new, i, e
    <3>4. \A k \in DOMAIN acc.seen : acc.seen[k] \in 1 .. Len(result) /\ Pair(result[acc.seen[k]]) = <<k[1], k[2]>>
      BY <3>2, <3>3, <1>4 DEF Linked, e, i
    <3>5. Linked(Text, new)
      BY <3>1, <3>3, <3>4 DEF Linked
    <3>6. Named(new.result, p) /\ \A q \in DataPoint(Text) : Named(acc.result, q) => Named(new.result, q)
      BY <2>1, <3>1, <3>2, <3>3 DEF Named
    <3> QED
      BY <3>5, <3>6
  <2>4. CASE e.src # p.src /\ ~Similar(p.val, e.val)
    <3> DEFINE m == Marked(e)
               changed == [acc.result EXCEPT ![i] = m]
               result == Append(changed, Marked(p))
    <3>1. new = [seen |-> acc.seen, result |-> result]
      BY <1>4, <2>4 DEF DedupeStep, Linked
    <3>2. /\ m \in DataPoint(Text) /\ Pair(m) = Pair(e) /\ m.src = e.src
          /\ Marked(p) \in DataPoint(Text) /\ Pair(Marked(p)) = Pair(p) /\ Marked(p).src = p.src
      BY <2>1, MarkedIs
    <3> HIDE DEF m
    <3>3. /\ changed \in Seq(DataPoint(Text)) /\ Len(changed) = Len(acc.result)
          /\ changed[i] = m /\ \A j \in 1 .. Len(acc.result) : j # i => changed[j] = acc.result[j]
          /\ m \in ToSet(changed) /\ \A q \in ToSet(acc.result) : q = e \/ q \in ToSet(changed)
      <4> DEFINE old == acc.result
      <4>1. old \in Seq(DataPoint(Text)) /\ i \in 1 .. Len(old) /\ m \in DataPoint(Text) /\ e = old[i]
        BY <1>1, <2>1, <3>2
      <4> HIDE DEF i, e, old
      <4>2. Replaces([old EXCEPT ![i] = m], old, i, m, DataPoint(Text))
        BY <4>1, ReplaceIs
      <4>3. Replaces(changed, acc.result, i, m, DataPoint(Text))
        BY <4>2 DEF old
      <4> HIDE DEF changed
      <4> QED
        BY <4>1, <4>3 DEF old, Replaces
    <3> HIDE DEF changed
    <3>4. /\ result \in Seq(DataPoint(Text)) /\ Len(result) = Len(acc.result) + 1
          /\ ToSet(result) = ToSet(changed) \cup {Marked(p)}
          /\ \A j \in 1 .. Len(acc.result) : result[j] = changed[j]
      BY <3>2, <3>3, AppendIs
    <3> HIDE DEF result, key, new, i, e
    <3>5. ASSUME NEW k \in DOMAIN acc.seen
          PROVE  acc.seen[k] \in 1 .. Len(result) /\ Pair(result[acc.seen[k]]) = <<k[1], k[2]>>
      <4>1. acc.seen[k] \in 1 .. Len(acc.result) /\ Pair(acc.result[acc.seen[k]]) = <<k[1], k[2]>>
        BY DEF Linked
      <4>2. acc.seen[k] \in 1 .. Len(result) /\ result[acc.seen[k]] = changed[acc.seen[k]]
        BY <4>1, <3>4, <1>1
      <4> QED
        BY <4>1, <4>2, <3>2, <3>3 DEF e
    <3>6. Linked(Text, new)
      BY <3>1, <3>4, <3>5 DEF Linked
    <3>7. Named(new.result, p) /\ \A q \in DataPoint(Text) : Named(acc.result, q) => Named(new.result, q)
      BY <2>1, <3>1, <3>2, <3>3, <3>4 DEF Named
    <3> QED
      BY <3>6, <3>7
  <2> QED
    BY <2>2, <2>3, <2>4
<1> QED
  BY <1>3, <1>4

LEMMA DeduplicateKeeps ==
  ASSUME NEW Text, NEW points \in Seq(DataPoint(Text))
  PROVE  /\ Deduplicate(points) \in Seq(DataPoint(Text))
         /\ \A p \in ToSet(points) : Named(Deduplicate(points), p)
<1>1. PICK acc : /\ acc[0] = Start /\ Deduplicate(points) = acc[Len(points)].result
                 /\ \A k \in 1 .. Len(points) : acc[k] = DedupeStep(acc[k - 1], points[k])
  BY DedupeLoop
<1> DEFINE Good(k) == /\ Linked(Text, acc[k]) /\ \A j \in 1 .. k : Named(acc[k].result, points[j])
           Bad == {k \in 0 .. Len(points) : ~Good(k)}
<1>2. Len(points) \in Nat /\ \A k \in 1 .. Len(points) : points[k] \in DataPoint(Text)
  OBVIOUS
<1>3. Bad = {}
  <2>1. SUFFICES ASSUME Bad # {} PROVE FALSE
    OBVIOUS
  <2>2. Bad \in SUBSET Nat
    BY <1>2
  <2>3. PICK k \in Bad : \A j \in Bad : k <= j
    BY <2>1, <2>2, LeastExists
  <2>4. CASE k = 0
    <3>1. Linked(Text, Start) /\ 1 .. 0 = {}
      BY DEF Linked, Start
    <3> QED
      BY <3>1, <2>3, <2>4, <1>1
  <2>5. CASE k # 0
    <3>1. k \in 1 .. Len(points) /\ k - 1 \in 0 .. Len(points) /\ ~(k <= k - 1) /\ 1 .. k = 1 .. (k - 1) \cup {k}
      BY <1>2, <2>2, <2>3, <2>5
    <3>2. Good(k - 1)
      BY <3>1, <2>3
    <3>3. acc[k] = DedupeStep(acc[k - 1], points[k]) /\ points[k] \in DataPoint(Text)
      BY <3>1, <1>1, <1>2
    <3>4. /\ Linked(Text, acc[k]) /\ Named(acc[k].result, points[k])
          /\ \A q \in DataPoint(Text) : Named(acc[k - 1].result, q) => Named(acc[k].result, q)
      BY <3>2, <3>3, DedupeKeeps
    <3>5. \A j \in 1 .. (k - 1) : points[j] \in DataPoint(Text)
      BY <3>1, <1>2
    <3>6. Good(k)
      BY <3>1, <3>2, <3>4, <3>5
    <3> QED
      BY <3>6, <2>3
  <2> QED
    BY <2>4, <2>5
<1>4. Good(Len(points))
  BY <1>2, <1>3
<1>5. DOMAIN points = 1 .. Len(points)
  OBVIOUS
<1> QED
  BY <1>1, <1>4, <1>5 DEF Linked, ToSet

LEMMA SourcesAreKept ==
  ASSUME NEW Text, NEW own \in Seq(DataPoint(Text)), NEW fresh \in Seq(DataPoint(Text)),
         NEW p \in ToSet(own) \cup ToSet(fresh)
  PROVE  Named(Deduplicate(own \o Deduplicate(fresh)), p)
<1> DEFINE merged == Deduplicate(fresh)
           all == own \o merged
<1>1. merged \in Seq(DataPoint(Text)) /\ \A q \in ToSet(fresh) : Named(merged, q)
  BY DeduplicateKeeps
<1> HIDE DEF merged
<1>2. all \in Seq(DataPoint(Text)) /\ ToSet(all) = ToSet(own) \cup ToSet(merged)
  BY <1>1, ConcatIs
<1> HIDE DEF all
<1>3. \A q \in ToSet(all) : Named(Deduplicate(all), q)
  BY <1>2, DeduplicateKeeps
<1>4. Named(all, p)
  <2>1. CASE p \in ToSet(own)
    BY <2>1, <1>2 DEF Named
  <2>2. CASE p \in ToSet(fresh)
    BY <2>2, <1>1, <1>2 DEF Named
  <2> QED
    BY <2>1, <2>2
<1>5. Named(Deduplicate(all), p)
  BY <1>3, <1>4 DEF Named
<1> QED
  BY <1>5 DEF all, merged

-----------------------------------------------------------------------------
(* Evidence: numbers lead to it. *)

LEMMA IndexIs ==
  ASSUME NEW one, NEW S, one.data \in Seq(S), NEW id \in DOMAIN CitationIndex(one)
  PROVE  /\ CitationIndex(one)[id] \in DOMAIN one.data
         /\ one.data[CitationIndex(one)[id]].id = id
         /\ id \in Allowed(one)
<1> DEFINE at == {i \in DOMAIN one.data : one.data[i].id = id}
           First(x) == x \in at /\ \A y \in at : x <= y
<1>1. id \in IdsOf(one.data) /\ id \in Allowed(one)
  BY DEF CitationIndex
<1>2. CitationIndex(one)[id] = Min(at)
  BY DEF CitationIndex
<1>3. DOMAIN one.data \in SUBSET Nat
  OBVIOUS
<1>4. at \in SUBSET Nat /\ at # {}
  BY <1>1, <1>3 DEF IdsOf
<1>5. \E x \in at : \A y \in at : x <= y
  <2> HIDE DEF at
  <2> QED
    BY <1>4, LeastExists
<1>6. Min(at) = CHOOSE x : First(x)
  BY DEF Min
<1>7. First(Min(at))
  BY <1>5, <1>6
<1> QED
  BY <1>1, <1>2, <1>7

\* The report's numbers are those of the index, whoever wrote the narrative.
LEMMA NumbersAreIndexed ==
  ASSUME NEW one, NEW s \in DOMAIN ReportSections(one), NEW n \in ReportSections(one)[s]
  PROVE  \E id \in DOMAIN CitationIndex(one) : n = CitationIndex(one)[id]
<1> DEFINE Indexed(m) == \E id \in DOMAIN CitationIndex(one) : m = CitationIndex(one)[id]
<1>1. \A kind : \A m \in Cited(one, kind) : Indexed(m)
  BY DEF Cited, ResolveCitations
<1>2. \A m \in Range(CitationIndex(one)) : Indexed(m)
  BY DEF Range
<1> HIDE DEF Indexed
<1>3. \A m \in Summary(one) : Indexed(m)
  BY <1>1, <1>2 DEF Summary, ValidNarrative
<1>4. /\ DOMAIN ReportSections(one) = {"summary", "matrix", "swot", "blocks", "sources"}
      /\ ReportSections(one).summary = Summary(one) /\ ReportSections(one).matrix = Cited(one, "cell")
      /\ ReportSections(one).swot = Cited(one, "swot") /\ ReportSections(one).blocks = Cited(one, "block")
      /\ ReportSections(one).sources = Range(CitationIndex(one))
  BY DEF ReportSections
<1>5. Indexed(n)
  BY <1>1, <1>2, <1>3, <1>4
<1> QED
  BY <1>5 DEF Indexed

\* What EvidenceIsTraceable asks of a number, of any run: it names a source of
\* the map, and once claims are verified one that supports a claim.
LEMMA NumbersAreTraced ==
  ASSUME NEW one, NEW S, one.data \in Seq(S), NEW s \in DOMAIN ReportSections(one),
         NEW n \in ReportSections(one)[s]
  PROVE  n \in DOMAIN TraceabilityMap(one) /\ (Claims(one) # {} => n \in VerifiedSources(one))
<1>1. PICK id \in DOMAIN CitationIndex(one) : n = CitationIndex(one)[id]
  BY NumbersAreIndexed
<1>2. n \in DOMAIN one.data /\ id \in Allowed(one)
  BY <1>1, IndexIs
<1>3. ASSUME Claims(one) # {} PROVE n \in VerifiedSources(one)
  <2>1. id \in VerifiedIds(one)
    BY <1>2, <1>3 DEF Allowed
  <2>2. PICK c \in Claims(one) : \E p \in CitedBy(one, c) : Relation(c, p, TRUE) = "supports" /\ p.id = id
    BY <2>1 DEF VerifiedIds
  <2>3. PICK p \in CitedBy(one, c) : Relation(c, p, TRUE) = "supports" /\ p.id = id
    BY <2>2
  <2> DEFINE Of(d) == {CitationIndex(one)[q.id] :
                         q \in {q \in CitedBy(one, d) : q.id \in DOMAIN CitationIndex(one) /\ Relation(d, q, TRUE) = "supports"}}
  <2>4. n \in Of(c)
    BY <1>1, <2>3
  <2>5. VerifiedSources(one) = UNION {Of(d) : d \in Claims(one)}
    BY DEF VerifiedSources
  <2> HIDE DEF Of
  <2> QED
    BY <2>2, <2>4, <2>5
<1> QED
  BY <1>2, <1>3 DEF TraceabilityMap

\* deduplicate_datapoints, build_citation_index and the Writer, for any run of any
\* points: merging loses no source, and the numbers of the report lead to evidence.
\* That the parsed points are ones the schema admits is what Fresh selects them by.
THEOREM TraceTheorem ==
  ASSUME NEW Text, input.local \in Seq(DataPoint(Text)), Fresh(input) \in Seq(DataPoint(Text)),
         input.data = Collected(input)
  PROVE  EvidenceIsTraceable
<1> DEFINE sections == ReportSections(input)
           cited == UNION {sections[s] : s \in DOMAIN sections}
<1>1. input.data \in Seq(DataPoint(Text))
  <2>1. Deduplicate(Fresh(input)) \in Seq(DataPoint(Text))
    BY DeduplicateKeeps
  <2>2. input.local \o Deduplicate(Fresh(input)) \in Seq(DataPoint(Text))
    BY <2>1, ConcatIs
  <2> QED
    BY <2>2, DeduplicateKeeps DEF Collected
<1>2. ASSUME NEW p \in ToSet(input.local) \cup ToSet(Fresh(input))
      PROVE  \E q \in ToSet(input.data) : Pair(q) = Pair(p) /\ ToSet(p.src) \subseteq ToSet(q.src)
  <2>1. Named(input.data, p)
    BY SourcesAreKept DEF Collected
  <2> QED
    BY <2>1 DEF Named
<1>3. \A n \in cited : n \in DOMAIN TraceabilityMap(input) /\ (Claims(input) # {} => n \in VerifiedSources(input))
  BY <1>1, NumbersAreTraced
<1>4. SelfCheck(input) = {}
  BY <1>3 DEF SelfCheck
<1>5. ASSUME NEW n \in sections.matrix
      PROVE  \E c \in Cells(input) : TraceabilityMap(input)[n].id \in c.ids
  <2>1. n \in Cited(input, "cell")
    BY DEF ReportSections
  <2>2. PICK c \in ToSet(input.items) : c.kind = "cell" /\ n \in ResolveCitations(input, c.ids)
    BY <2>1 DEF Cited
  <2>3. PICK id \in c.ids \cap DOMAIN CitationIndex(input) : n = CitationIndex(input)[id]
    BY <2>2 DEF ResolveCitations
  <2>4. input.data[n].id = id
    BY <2>3, <1>1, IndexIs
  <2> QED
    BY <2>2, <2>3, <2>4 DEF Cells, TraceabilityMap
<1> HIDE DEF cited
<1>6. Claims(input) # {} => cited \subseteq VerifiedSources(input)
  BY <1>3
<1> QED
  BY <1>2, <1>4, <1>5, <1>6 DEF EvidenceIsTraceable, cited

-----------------------------------------------------------------------------
(* Evidence: what a set of points costs. *)

CostOf(points) == MapThenSumSet(LAMBDA p : p.cost, points)
Add(S) == [x \in S \X Nat |-> x[1].cost + x[2]]
AnyOf(S) == [s \in SUBSET S |-> CHOOSE x \in s : TRUE]
IsSum(h, S) == h \in [SUBSET S -> Nat] /\ IsFold(h, S, 0, Add(S), AnyOf(S))

LEMMA SumExists ==
  ASSUME NEW S, IsFiniteSet(S), \A p \in S : p.cost \in Nat
  PROVE  \E h : IsSum(h, S)
<1>1. Add(S) \in [S \X Nat -> Nat] /\ Picks(S, AnyOf(S))
  BY DEF Add, AnyOf, Picks
<1> QED
  BY <1>1, FoldExists DEF IsSum

LEMMA SumIs ==
  ASSUME NEW S, IsFiniteSet(S), \A p \in S : p.cost \in Nat, NEW h, IsSum(h, S), NEW T \in SUBSET S
  PROVE  CostOf(T) = h[T]
<1> DEFINE Chosen(k) == k = [s \in SUBSET T |-> IF s = {} THEN 0
                                                ELSE (CHOOSE x \in s : TRUE).cost + k[s \ {CHOOSE x \in s : TRUE}]]
           k == CHOOSE j : Chosen(j)
<1>1. IsFiniteSet(T) /\ \A p \in T : p.cost \in Nat
  BY FS_Subset
<1>2. \A s \in SUBSET T : s # {} => AnyOf(T)[s] \in s /\ AnyOf(T)[s] = (CHOOSE x \in s : TRUE) /\ AnyOf(S)[s] = AnyOf(T)[s]
  BY DEF AnyOf
<1>3. Add(T) \in [T \X Nat -> Nat] /\ \A x \in T, n \in Nat : Add(T)[<<x, n>>] = x.cost + n /\ Add(S)[<<x, n>>] = x.cost + n
  BY <1>1 DEF Add
<1>4. Picks(T, AnyOf(T))
  BY <1>2 DEF Picks
<1>5. PICK g \in [SUBSET T -> Nat] : IsFold(g, T, 0, Add(T), AnyOf(T))
  BY <1>1, <1>4, <1>3, FoldExists
<1>6. Chosen(g)
  <2>1. ASSUME NEW s \in SUBSET T
        PROVE  g[s] = IF s = {} THEN 0 ELSE (CHOOSE x \in s : TRUE).cost + g[s \ {CHOOSE x \in s : TRUE}]
    <3>1. CASE s = {}
      BY <3>1, <1>5 DEF IsFold
    <3>2. CASE s # {}
      <4>1. AnyOf(T)[s] \in T /\ g[s \ {AnyOf(T)[s]}] \in Nat
        BY <3>2, <1>2, <1>5
      <4>2. g[s] = Add(T)[<<AnyOf(T)[s], g[s \ {AnyOf(T)[s]}]>>]
        BY <3>2, <1>5 DEF IsFold
      <4>3. g[s] = AnyOf(T)[s].cost + g[s \ {AnyOf(T)[s]}]
        BY <4>1, <4>2, <1>3
      <4> QED
        BY <3>2, <4>3, <1>2
    <3> QED
      BY <3>1, <3>2
  <2>2. g = [s \in SUBSET T |-> g[s]]
    OBVIOUS
  <2> QED
    BY <2>1, <2>2
<1>7. Chosen(k)
  BY <1>6
<1>8. CostOf(T) = k[T]
  BY DEF CostOf, MapThenSumSet, MapThenFoldSet
<1> HIDE DEF k
<1>9. \A s \in SUBSET T : k[s] = IF s = {} THEN 0 ELSE (CHOOSE x \in s : TRUE).cost + k[s \ {CHOOSE x \in s : TRUE}]
  BY <1>7
<1> DEFINE r == [s \in SUBSET T |-> h[s]]
<1>10. r \in [SUBSET T -> Nat] /\ IsFold(r, T, 0, Add(T), AnyOf(T))
  <2>1. r \in [SUBSET T -> Nat]
    BY DEF IsSum
  <2>2. ASSUME NEW s \in SUBSET T PROVE r[s] = IF s = {} THEN 0 ELSE Add(T)[<<AnyOf(T)[s], r[s \ {AnyOf(T)[s]}]>>]
    <3>1. h[s] = IF s = {} THEN 0 ELSE Add(S)[<<AnyOf(S)[s], h[s \ {AnyOf(S)[s]}]>>]
      BY DEF IsSum, IsFold
    <3>2. CASE s # {}
      <4>1. AnyOf(T)[s] \in T /\ h[s \ {AnyOf(T)[s]}] \in Nat
        BY <3>2, <1>2 DEF IsSum
      <4> QED
        BY <3>1, <3>2, <4>1, <1>2, <1>3
    <3>3. CASE s = {}
      BY <3>1, <3>3
    <3> QED
      BY <3>2, <3>3
  <2> HIDE DEF r
  <2> QED
    BY <2>1, <2>2 DEF IsFold
<1>11. \A s \in SUBSET T : s # {} /\ k[s \ {AnyOf(T)[s]}] \in Nat => k[s] = Add(T)[<<AnyOf(T)[s], k[s \ {AnyOf(T)[s]}]>>]
  <2>1. SUFFICES ASSUME NEW s \in SUBSET T, s # {}, k[s \ {AnyOf(T)[s]}] \in Nat
                 PROVE  k[s] = Add(T)[<<AnyOf(T)[s], k[s \ {AnyOf(T)[s]}]>>]
    OBVIOUS
  <2> DEFINE c == AnyOf(T)[s]
  <2>2. c \in T /\ c = (CHOOSE x \in s : TRUE)
    BY <2>1, <1>2
  <2>3. k[s] = c.cost + k[s \ {c}]
    BY <2>1, <2>2, <1>9
  <2> HIDE DEF c
  <2>4. k[s \ {c}] \in Nat
    BY <2>1 DEF c
  <2>5. k[s] = Add(T)[<<c, k[s \ {c}]>>]
    BY <2>2, <2>3, <2>4, <1>3
  <2> QED
    BY <2>5 DEF c
<1>12. k[{}] = 0
  BY <1>9
<1> HIDE DEF r
<1>13. GoesBy(k, T, Nat, 0, Add(T), AnyOf(T))
  BY <1>11, <1>12 DEF GoesBy
<1>14. \A s \in SUBSET T : k[s] = r[s]
  <2>1. IsFiniteSet(T) /\ Add(T) \in [T \X Nat -> Nat] /\ r \in [SUBSET T -> Nat] /\ IsFold(r, T, 0, Add(T), AnyOf(T))
    BY <1>1, <1>3, <1>10
  <2>2. 0 \in Nat
    OBVIOUS
  <2>3. Folding(r, T, Nat, 0, Add(T), AnyOf(T))
    BY <2>1, <2>2, <1>4 DEF Folding
  <2> HIDE DEF Chosen
  <2> QED
    BY <2>3, <1>13, FoldUnique
<1> QED
  BY <1>8, <1>14 DEF r

\* Costs add up, in whichever order a fold takes the points.
LEMMA CostAdds ==
  ASSUME NEW S, IsFiniteSet(S), \A p \in S : p.cost \in Nat
  PROVE  /\ \A T \in SUBSET S : CostOf(T) \in Nat
         /\ CostOf({}) = 0
         /\ \A T \in SUBSET S : \A x \in S \ T : CostOf(T \cup {x}) = CostOf(T) + x.cost
<1>1. PICK h : IsSum(h, S)
  BY SumExists
<1>2. \A T \in SUBSET S : CostOf(T) = h[T] /\ h[T] \in Nat
  BY <1>1, SumIs DEF IsSum
<1>3. h[{}] = 0
  BY <1>1 DEF IsSum, IsFold
<1> DEFINE Adds(T) == \A x \in S \ T : h[T \cup {x}] = h[T] + x.cost
           Good == {T \in SUBSET S : Adds(T)}
<1>4. ASSUME NEW T \in SUBSET S, \A s \in SUBSET T : s # T => s \in Good, NEW x \in S \ T
      PROVE  h[T \cup {x}] = h[T] + x.cost
  <2> DEFINE U == T \cup {x}
             c == AnyOf(S)[U]
  <2>1. U \in SUBSET S /\ U # {} /\ c \in U
    BY DEF AnyOf
  <2>2. U = T \cup {x}
    OBVIOUS
  <2> HIDE DEF c, U
  <2>3. h[U] = c.cost + h[U \ {c}]
    <3>1. h[U] = Add(S)[<<c, h[U \ {c}]>>]
      BY <1>1, <2>1 DEF IsSum, IsFold, c
    <3>2. c \in S /\ h[U \ {c}] \in Nat
      BY <1>2, <2>1
    <3> QED
      BY <3>1, <3>2 DEF Add
  <2>4. CASE c = x
    <3>1. U \ {c} = T
      BY <2>4, <2>2
    <3>2. h[U] = x.cost + h[T]
      BY <3>1, <2>3, <2>4
    <3>3. h[T] \in Nat /\ x.cost \in Nat
      BY <1>2
    <3> QED
      BY <3>2, <3>3, <2>2
  <2>5. CASE c # x
    <3> DEFINE s == T \ {c}
    <3>1. c \in T /\ U \ {c} = s \cup {x} /\ x \in S \ s /\ c \in S \ s /\ T = s \cup {c} /\ s \in SUBSET T /\ s # T
      BY <2>1, <2>5, <2>2
    <3> HIDE DEF s
    <3>2. h[s \cup {x}] = h[s] + x.cost /\ h[T] = h[s] + c.cost
      BY <1>4, <3>1
    <3>3. h[s] \in Nat /\ h[T] \in Nat /\ x.cost \in Nat /\ c.cost \in Nat
      BY <1>2, <3>1
    <3>4. h[U] = c.cost + h[s \cup {x}]
      BY <2>3, <3>1
    <3> QED
      BY <3>2, <3>3, <3>4, <2>2
  <2> QED
    BY <2>4, <2>5
<1>5. \A T \in SUBSET S : (\A s \in SUBSET T : s # T => s \in Good) => T \in Good
  BY <1>4
<1> HIDE DEF Good
<1>6. \A T \in SUBSET S : T \in Good
  BY <1>5, SetInduction
<1>7. \A T \in SUBSET S : Adds(T)
  BY <1>6 DEF Good
<1>8. \A T \in SUBSET S : \A x \in S \ T : T \cup {x} \in SUBSET S
  OBVIOUS
<1> QED
  BY <1>2, <1>3, <1>7, <1>8

-----------------------------------------------------------------------------
(* Evidence: a bundle is the loop over the candidates by rank. *)

\* Candidates that Outranks orders: no two of one id.
Ranked(Text, C) ==
  /\ IsFiniteSet(C) /\ C \subseteq DataPoint(Text)
  /\ \A p, q \in C : p.id = q.id => p = q

LEMMA WeakestIs ==
  ASSUME NEW Text, NEW C, Ranked(Text, C), NEW s \in SUBSET C, s # {}
  PROVE  /\ Weakest(s) \in s
         /\ \A q \in s : ~Outranks(Weakest(s), q) /\ (q # Weakest(s) => Outranks(q, Weakest(s)))
<1> DEFINE R == {x \in C \X C : Outranks(x[2], x[1])}
<1>1. \A p \in C : p \in DataPoint(Text) /\ p.id \in Nat /\ PointScore(p) \in Nat
  <2>1. ASSUME NEW p \in C PROVE p \in DataPoint(Text) /\ p.id \in Nat /\ p.date \in {"none", "old", "new"}
    BY DEF Ranked, DataPoint
  <2>2. ASSUME NEW p \in C PROVE PointScore(p) \in Nat
    <3> DEFINE own == IF p.local THEN 60 ELSE 0
               source == IF Official(p) THEN 25 ELSE 0
               age == CASE p.date = "new" -> 15 [] p.date = "none" -> 5 [] p.date = "old" -> 0
    <3>1. own \in Nat /\ source \in Nat
      OBVIOUS
    <3>2. age \in Nat
      BY <2>1
    <3>3. PointScore(p) = own + source + age
      BY DEF PointScore
    <3> HIDE DEF own, source, age
    <3> QED
      BY <3>1, <3>2, <3>3
  <2> QED
    BY <2>1, <2>2
<1>2. \A p, q \in C : <<p, q>> \in R <=> Outranks(q, p)
  OBVIOUS
<1>3. (\A p \in C : ~Outranks(p, p)) /\ \A p, q, r \in C : Outranks(q, p) /\ Outranks(r, q) => Outranks(r, p)
  BY <1>1 DEF Outranks
<1> HIDE DEF R
<1>4. \E x \in s : \A y \in s : <<y, x>> \notin R
  <2>1. (\A x \in C : <<x, x>> \notin R) /\ \A x, y, z \in C : <<x, y>> \in R /\ <<y, z>> \in R => <<x, z>> \in R
    BY <1>2, <1>3
  <2>2. IsFiniteSet(C)
    BY DEF Ranked
  <2> QED
    BY <2>1, <2>2, FirstExists
<1>5. \E p \in s : \A q \in s : ~Outranks(p, q)
  BY <1>2, <1>4
<1>6. Weakest(s) \in s /\ \A q \in s : ~Outranks(Weakest(s), q)
  BY <1>5 DEF Weakest
<1>7. ASSUME NEW p \in C, NEW q \in C, p # q, ~Outranks(p, q) PROVE Outranks(q, p)
  <2>1. p.id # q.id
    BY <1>7 DEF Ranked
  <2> QED
    BY <1>1, <1>7, <2>1 DEF Outranks
<1> QED
  BY <1>6, <1>7

\* What has been taken of the strongest candidates s.
Fits(C, budget, s, acc) ==
  /\ acc.taken \in SUBSET s
  /\ acc.used = CostOf(acc.taken) /\ acc.used <= budget
  /\ \A p \in s \ acc.taken : CostOf({q \in acc.taken : Outranks(q, p)}) + p.cost > budget

LEMMA TakeFits ==
  ASSUME NEW Text, NEW C, Ranked(Text, C), NEW budget \in Nat, NEW s \in SUBSET C, s # {},
         NEW acc \in [used : Nat, taken : SUBSET C, full : BOOLEAN],
         Fits(C, budget, s \ {Weakest(s)}, acc)
  PROVE  Fits(C, budget, s, Take(budget, acc, Weakest(s)))
<1> DEFINE w == Weakest(s)
           new == Take(budget, acc, w)
<1>1. w \in s /\ \A q \in s : ~Outranks(w, q) /\ (q # w => Outranks(q, w))
  BY WeakestIs
<1> HIDE DEF w
<1>2. acc.taken \in SUBSET (s \ {w}) /\ acc.used = CostOf(acc.taken) /\ acc.used <= budget
  BY DEF Fits, w
<1>3. ASSUME NEW p \in s \ {w}, p \notin acc.taken PROVE CostOf({q \in acc.taken : Outranks(q, p)}) + p.cost > budget
  BY <1>3 DEF Fits, w
<1>4. \A p \in C : p.cost \in Nat
  BY DEF Ranked, DataPoint
<1>5. acc.taken \in SUBSET C /\ w \in C \ acc.taken /\ acc.used \in Nat
  BY <1>1, <1>2
<1>6. CASE acc.used + w.cost > budget
  <2>1. new = acc
    BY <1>6 DEF Take
  <2>2. {q \in acc.taken : Outranks(q, w)} = acc.taken
    BY <1>1, <1>2
  <2>3. ASSUME NEW p \in s \ acc.taken PROVE CostOf({q \in acc.taken : Outranks(q, p)}) + p.cost > budget
    BY <2>2, <1>2, <1>3, <1>6
  <2>4. Fits(C, budget, s, acc)
    BY <1>2, <2>3 DEF Fits
  <2> QED
    BY <2>1, <2>4 DEF w
<1>7. CASE ~(acc.used + w.cost > budget)
  <2>1. new.used = acc.used + w.cost /\ new.taken = acc.taken \cup {w}
    BY <1>7 DEF Take
  <2>2. CostOf(acc.taken \cup {w}) = CostOf(acc.taken) + w.cost
    BY <1>4, <1>5, CostAdds DEF Ranked
  <2>3. new.used <= budget
    BY <1>4, <1>5, <1>7, <2>1
  <2>4. ASSUME NEW p \in s \ new.taken PROVE CostOf({q \in new.taken : Outranks(q, p)}) + p.cost > budget
    <3>1. p \in s \ {w} /\ p \notin acc.taken
      BY <2>1
    <3>2. {q \in new.taken : Outranks(q, p)} = {q \in acc.taken : Outranks(q, p)}
      BY <1>1, <2>1
    <3> QED
      BY <1>3, <3>1, <3>2
  <2> HIDE DEF new
  <2>5. Fits(C, budget, s, new)
    BY <1>1, <1>2, <2>1, <2>2, <2>3, <2>4 DEF Fits
  <2> QED
    BY <2>5 DEF new, w
<1> QED
  BY <1>6, <1>7

LEMMA BundleIs ==
  ASSUME NEW one, NEW Text, Ranked(Text, Candidates(one)), one.budget \in Nat
  PROVE  \E acc : Bundle(one) = acc.taken /\ Fits(Candidates(one), one.budget, Candidates(one), acc)
<1> DEFINE C == Candidates(one)
           A == [used : Nat, taken : SUBSET C, full : BOOLEAN]
           b == [used |-> 0, taken |-> {}, full |-> FALSE]
           F == [x \in C \X A |-> Take(one.budget, x[2], x[1])]
           next == [s \in SUBSET C |-> Weakest(s)]
           Chosen(k) == k = [s \in SUBSET C |-> IF s = {} THEN b ELSE Take(one.budget, k[s \ {Weakest(s)}], Weakest(s))]
           k == CHOOSE j : Chosen(j)
<1>1. Bundle(one) = k[C].taken
  BY DEF Bundle, MapThenFoldSet
<1> HIDE DEF C, k
<1>2. \A s \in SUBSET C : s # {} => next[s] \in s /\ next[s] = Weakest(s)
  BY WeakestIs DEF C
<1>3. \A x \in C, acc \in A : Take(one.budget, acc, x) \in A /\ F[<<x, acc>>] = Take(one.budget, acc, x)
  <2>1. ASSUME NEW x \in C, NEW acc \in A PROVE Take(one.budget, acc, x) \in A
    <3>1. x.cost \in Nat /\ acc.used + x.cost \in Nat /\ acc.taken \cup {x} \in SUBSET C
      BY DEF Ranked, DataPoint, C
    <3>2. [acc EXCEPT !.used = @ + x.cost, !.taken = @ \cup {x}] \in A
      BY <3>1
    <3> HIDE DEF A
    <3> QED
      BY <3>2 DEF Take
  <2> QED
    BY <2>1
<1>4. F \in [C \X A -> A] /\ Picks(C, next) /\ b \in A /\ IsFiniteSet(C)
  BY <1>2, <1>3 DEF Picks, Ranked, C
<1>5. PICK g \in [SUBSET C -> A] : IsFold(g, C, b, F, next)
  <2> HIDE DEF A, b, F, next
  <2> QED
    BY <1>4, FoldExists
<1>6. ASSUME NEW s \in SUBSET C, s # {}
      PROVE  g[s] = Take(one.budget, g[s \ {Weakest(s)}], Weakest(s)) /\ g[s \ {Weakest(s)}] \in A
  <2>1. g[s] = F[<<next[s], g[s \ {next[s]}]>>]
    BY <1>5, <1>6 DEF IsFold
  <2>2. Weakest(s) \in C /\ next[s] = Weakest(s) /\ g[s \ {Weakest(s)}] \in A
    BY <1>2, <1>5, <1>6
  <2> HIDE DEF A, F, next
  <2> QED
    BY <2>1, <2>2, <1>3
<1>7. g[{}] = b
  BY <1>5 DEF IsFold
<1>8. Chosen(g)
  <2> HIDE DEF A, b, F, next
  <2>1. g = [s \in SUBSET C |-> g[s]]
    BY <1>5
  <2>2. \A s \in SUBSET C : g[s] = IF s = {} THEN b ELSE Take(one.budget, g[s \ {Weakest(s)}], Weakest(s))
    BY <1>6, <1>7
  <2> QED
    BY <2>1, <2>2
<1>9. Chosen(k)
  BY <1>8 DEF k
<1>10. \A s \in SUBSET C : k[s] = IF s = {} THEN b ELSE Take(one.budget, k[s \ {Weakest(s)}], Weakest(s))
  BY <1>9
<1> HIDE DEF Chosen
<1> DEFINE Good == {s \in SUBSET C : k[s] \in A /\ Fits(C, one.budget, s, k[s])}
<1>11. ASSUME NEW s \in SUBSET C, \A t \in SUBSET s : t # s => t \in Good
       PROVE  k[s] \in A /\ Fits(C, one.budget, s, k[s])
  <2>1. CASE s = {}
    <3>1. k[s] = b /\ b.taken = {} /\ b.used = 0 /\ b \in A
      BY <2>1, <1>10
    <3>2. CostOf({}) = 0
      <4>1. \A p \in C : p.cost \in Nat
        BY DEF Ranked, DataPoint, C
      <4> QED
        BY <4>1, <1>4, CostAdds
    <3> HIDE DEF b
    <3> QED
      BY <3>1, <3>2, <2>1 DEF Fits
  <2>2. CASE s # {}
    <3> DEFINE t == s \ {Weakest(s)}
    <3>1. Weakest(s) \in s
      BY <2>2, <1>2
    <3>2. k[t] \in A /\ Fits(C, one.budget, t, k[t])
      BY <3>1, <1>11
    <3>3. k[s] = Take(one.budget, k[t], Weakest(s))
      BY <2>2, <1>10
    <3>4. k[s] \in A
      BY <3>1, <3>2, <3>3, <1>3
    <3>5. k[t] \in [used : Nat, taken : SUBSET C, full : BOOLEAN]
      BY <3>2
    <3>6. Ranked(Text, C)
      BY DEF C
    <3> HIDE DEF Good, A, b, F, next
    <3>7. Fits(C, one.budget, s, Take(one.budget, k[t], Weakest(s)))
      BY <2>2, <3>2, <3>5, <3>6, TakeFits
    <3>8. Fits(C, one.budget, s, k[s])
      BY <3>3, <3>7
    <3> QED
      BY <3>4, <3>8
  <2> QED
    BY <2>1, <2>2
<1>12. \A s \in SUBSET C : (\A t \in SUBSET s : t # s => t \in Good) => s \in Good
  BY <1>11
<1>13. \A s \in SUBSET C : s \in Good
  <2> HIDE DEF Good
  <2> QED
    BY <1>4, <1>12, SetInduction
<1>14. Fits(C, one.budget, C, k[C])
  BY <1>13
<1> QED
  BY <1>1, <1>14 DEF C

-----------------------------------------------------------------------------
(* Evidence: what there is to choose from. *)

LEMMA LastOfIs ==
  ASSUME NEW S, NEW data \in Seq(S), NEW id \in IdsOf(data)
  PROVE  LastOf(data, id) \in ToSet(data) /\ LastOf(data, id) \in S /\ LastOf(data, id).id = id
<1> DEFINE at == {i \in DOMAIN data : data[i].id = id}
<1>1. DOMAIN data = 1 .. Len(data) /\ Len(data) \in Nat
  OBVIOUS
<1>2. at \in SUBSET (1 .. Len(data)) /\ at # {}
  BY <1>1 DEF IdsOf
<1>3. Max(at) \in at
  <2> HIDE DEF at
  <2> QED
    BY <1>1, <1>2, MaxIn
<1>4. PICK i \in DOMAIN data : i = Max(at) /\ data[i].id = id
  BY <1>3
<1>5. LastOf(data, id) = data[i]
  BY <1>4 DEF LastOf
<1>6. data[i] \in S
  <2> HIDE DEF at
  <2>1. data \in [1 .. Len(data) -> S] /\ i \in 1 .. Len(data)
    BY <1>1
  <2> QED
    BY <2>1
<1>7. data[i] \in ToSet(data)
  BY DEF ToSet
<1> QED
  BY <1>4, <1>5, <1>6, <1>7

LEMMA CandidatesAre ==
  ASSUME NEW one, NEW Text, one.data \in Seq(DataPoint(Text)), one.durable \in Seq(DataPoint(Text)),
         \A i, j \in DOMAIN one.durable : one.durable[i].id = one.durable[j].id => i = j
  PROVE  /\ Ranked(Text, Candidates(one))
         /\ \A p \in Candidates(one) : p.id \in IdsOf(one.data) => p \in ToSet(one.data)
<1> DEFINE C == Candidates(one)
           all == one.durable \o one.data
<1>1. all \in Seq(DataPoint(Text)) /\ ToSet(all) = ToSet(one.durable) \cup ToSet(one.data)
  BY ConcatIs
<1>2. ASSUME NEW p \in PackItems(one) PROVE p \in ToSet(one.durable) \cup ToSet(one.data)
  <2>1. p \in ToSet(all)
    BY DEF PackItems, ToSet
  <2> QED
    BY <1>1, <2>1
<1>3. \A p \in ToSet(one.data) : p.id \in IdsOf(one.data)
  BY DEF ToSet, IdsOf
<1>4. ASSUME NEW p \in C
      PROVE  \/ p.id \in IdsOf(one.data) /\ p = LastOf(one.data, p.id) /\ p \in ToSet(one.data)
             \/ p.id \notin IdsOf(one.data) /\ p \in ToSet(one.durable)
  <2>1. CASE p \in {LastOf(one.data, id) : id \in IdsOf(one.data)}
    BY <2>1, LastOfIs
  <2>2. CASE p \in {q \in PackItems(one) : q.id \notin IdsOf(one.data)}
    BY <2>2, <1>2, <1>3
  <2> QED
    BY <2>1, <2>2 DEF Candidates
<1> HIDE DEF C
<1>5. ASSUME NEW p \in C, NEW q \in C, p.id = q.id PROVE p = q
  <2>1. CASE p.id \in IdsOf(one.data)
    BY <2>1, <1>4, <1>5
  <2>2. CASE p.id \notin IdsOf(one.data)
    <3>1. p \in ToSet(one.durable) /\ q \in ToSet(one.durable)
      BY <2>2, <1>4, <1>5
    <3>2. PICK i, j \in DOMAIN one.durable : p = one.durable[i] /\ q = one.durable[j]
      BY <3>1 DEF ToSet
    <3> QED
      BY <3>2, <1>5
  <2> QED
    BY <2>1, <2>2
<1>6. /\ IsFiniteSet(ToSet(one.data)) /\ ToSet(one.data) \subseteq DataPoint(Text)
      /\ IsFiniteSet(ToSet(one.durable)) /\ ToSet(one.durable) \subseteq DataPoint(Text)
  BY ToSetFinite
<1>7. IsFiniteSet(ToSet(one.data) \cup ToSet(one.durable)) /\ C \in SUBSET (ToSet(one.data) \cup ToSet(one.durable))
  BY <1>4, <1>6, FS_Union
<1>8. IsFiniteSet(C) /\ C \subseteq DataPoint(Text)
  BY <1>6, <1>7, FS_Subset
<1>9. Ranked(Text, C)
  BY <1>5, <1>8 DEF Ranked
<1> QED
  BY <1>4, <1>9 DEF C

\* build_agent_evidence_bundle, for any run and any budget: the bundle keeps to the
\* budget, leaves out no candidate that would have fitted at its turn, holds one
\* item of an id, and the run's own before a stored one.  Stored items have ids of
\* their own, the primary key of intelligence_items.
THEOREM BundleTheorem ==
  ASSUME NEW Text, input.budget \in Nat,
         input.data \in Seq(DataPoint(Text)), input.durable \in Seq(DataPoint(Text)),
         \A i, j \in DOMAIN input.durable : input.durable[i].id = input.durable[j].id => i = j
  PROVE  BundleFits
<1> DEFINE C == Candidates(input)
           bundle == Bundle(input)
<1>1. Ranked(Text, C) /\ \A p \in C : p.id \in IdsOf(input.data) => p \in ToSet(input.data)
  BY CandidatesAre
<1>2. PICK acc : bundle = acc.taken /\ Fits(C, input.budget, C, acc)
  BY <1>1, BundleIs
<1> HIDE DEF C, bundle
<1>3. bundle \in SUBSET C /\ CostOf(bundle) <= input.budget
  BY <1>2 DEF Fits
<1>4. \A p \in C \ bundle : CostOf({q \in bundle : Outranks(q, p)}) + p.cost > input.budget
  BY <1>2 DEF Fits
<1>5. /\ \A p, q \in bundle : p.id = q.id => p = q
      /\ \A p \in bundle : p.id \in IdsOf(input.data) => p \in ToSet(input.data)
  BY <1>1, <1>3 DEF Ranked
<1> QED
  BY <1>3, <1>4, <1>5 DEF BundleFits, CostOf, C, bundle

-----------------------------------------------------------------------------
(* Search: the two loops over the pages that were found. *)

\* Induction over the turns of a loop.
LEMMA TurnByTurn ==
  ASSUME NEW n \in Nat, NEW Good, 0 \in Good, \A k \in 1 .. n : k - 1 \in Good => k \in Good
  PROVE  n \in Good
<1> DEFINE Bad == {k \in 0 .. n : k \notin Good}
<1>1. SUFFICES ASSUME Bad # {} PROVE FALSE
  BY n \in 0 .. n
<1>2. PICK k \in Bad : \A j \in Bad : k <= j
  <2>1. Bad \in SUBSET Nat
    OBVIOUS
  <2> HIDE DEF Bad
  <2> QED
    BY <1>1, <2>1, LeastExists
<1>3. k \in 1 .. n /\ k - 1 \in 0 .. n /\ ~(k <= k - 1)
  BY <1>2
<1>4. k - 1 \in Good
  BY <1>2, <1>3
<1> QED
  BY <1>2, <1>3, <1>4

\* A fold over the indices of a sequence of length n is the loop over them.
LatestOf(n) == [s \in SUBSET (1 .. n) |-> Max(s)]
IsLoop(g, n, b, F) ==
  \A s \in SUBSET (1 .. n) : g[s] = IF s = {} THEN b ELSE F[<<Max(s), g[s \ {Max(s)}]>>]
LEMMA LoopExists ==
  ASSUME NEW n \in Nat, NEW A, NEW b \in A, NEW F \in [(1 .. n) \X A -> A]
  PROVE  \E g \in [SUBSET (1 .. n) -> A] : IsLoop(g, n, b, F)
<1>1. Picks(1 .. n, LatestOf(n)) /\ \A s \in SUBSET (1 .. n) : LatestOf(n)[s] = Max(s)
  BY MaxIn DEF Picks, LatestOf
<1>2. IsFiniteSet(1 .. n)
  BY FS_Interval
<1>3. PICK g \in [SUBSET (1 .. n) -> A] : IsFold(g, 1 .. n, b, F, LatestOf(n))
  BY <1>1, <1>2, FoldExists
<1>4. ASSUME NEW s \in SUBSET (1 .. n)
      PROVE  g[s] = IF s = {} THEN b ELSE F[<<Max(s), g[s \ {Max(s)}]>>]
  <2>1. g[s] = IF s = {} THEN b ELSE F[<<LatestOf(n)[s], g[s \ {LatestOf(n)[s]}]>>]
    BY <1>3 DEF IsFold
  <2> QED
    BY <1>1, <2>1
<1>5. IsLoop(g, n, b, F)
  BY <1>4 DEF IsLoop
<1> QED
  BY <1>3, <1>5

LEMMA IntervalIs ==
  ASSUME NEW n \in Nat, NEW k \in 1 .. n
  PROVE  /\ 1 .. k \in SUBSET (1 .. n) /\ 1 .. k # {} /\ 1 .. (k - 1) \in SUBSET (1 .. n)
         /\ Max(1 .. k) = k /\ (1 .. k) \ {k} = 1 .. (k - 1)
<1>1. 1 .. k \in SUBSET (1 .. n) /\ k \in 1 .. k /\ (1 .. k) \ {k} = 1 .. (k - 1) /\ 1 .. (k - 1) \in SUBSET (1 .. n)
  OBVIOUS
<1>2. Max(1 .. k) = k
  <2>1. k \in Nat /\ k > 0 /\ 1 .. k \in SUBSET (1 .. k)
    OBVIOUS
  <2> QED
    BY <1>1, <2>1, MaxOf
<1> QED
  BY <1>1, <1>2

\* A page as a backend finds it, and what the list of pages is while it grows.
WebPage(Url, Product) == [url : Url, about : [Product -> Nat], full : Nat, text : Nat, snippet : BOOLEAN]
Distinct(pages) == \A i, j \in DOMAIN pages : pages[i].url = pages[j].url => i = j
Grows(P, pages, more) ==
  /\ more \in Seq(P) /\ Distinct(more)
  /\ \A q : SameUrl(pages, q) => SameUrl(more, q)

LEMMA AddNewGrows ==
  ASSUME NEW P, NEW pages \in Seq(P), Distinct(pages), NEW p \in P
  PROVE  Grows(P, pages, AddNew(pages, p)) /\ SameUrl(AddNew(pages, p), p)
<1>1. CASE SameUrl(pages, p)
  BY <1>1 DEF AddNew, Grows
<1>2. CASE ~SameUrl(pages, p)
  <2> DEFINE more == Append(pages, p)
             n == Len(pages)
  <2>1. /\ more \in Seq(P) /\ ToSet(more) = ToSet(pages) \cup {p} /\ Len(more) = n + 1
        /\ (\A i \in 1 .. n : more[i] = pages[i]) /\ more[n + 1] = p
    BY AppendIs
  <2>2. n \in Nat /\ DOMAIN pages = 1 .. n /\ DOMAIN more = 1 .. (n + 1)
    BY <2>1
  <2> HIDE DEF more, n
  <2>3. \A i \in 1 .. n : pages[i] \in ToSet(pages)
    BY <2>2 DEF ToSet
  <2>4. ASSUME NEW i \in DOMAIN more, NEW j \in DOMAIN more, more[i].url = more[j].url PROVE i = j
    <3>1. \A k \in 1 .. n : more[k].url # p.url
      BY <1>2, <2>1, <2>3 DEF SameUrl
    <3>2. CASE i \in 1 .. n /\ j \in 1 .. n
      BY <3>2, <2>1, <2>2, <2>4 DEF Distinct
    <3>3. CASE i = n + 1 \/ j = n + 1
      BY <3>1, <3>3, <2>1, <2>2, <2>4
    <3> QED
      BY <3>2, <3>3, <2>2
  <2>5. \A q : SameUrl(pages, q) => SameUrl(more, q)
    BY <2>1 DEF SameUrl
  <2>6. SameUrl(more, p)
    BY <2>1 DEF SameUrl
  <2>7. AddNew(pages, p) = more
    BY <1>2 DEF AddNew, more
  <2>8. Distinct(more)
    BY <2>4 DEF Distinct
  <2> QED
    BY <2>1, <2>5, <2>6, <2>7, <2>8 DEF Grows
<1> QED
  BY <1>1, <1>2

\* The inner loop: the pages of one answer.
LEMMA AddAllGrows ==
  ASSUME NEW P, NEW pages \in Seq(P), Distinct(pages), NEW found \in Seq(P)
  PROVE  Grows(P, pages, AddAll(pages, found)) /\ \A p \in ToSet(found) : SameUrl(AddAll(pages, found), p)
<1> DEFINE n == Len(found)
           A == Seq(P)
           F == [x \in (1 .. n) \X A |-> AddNew(x[2], found[x[1]])]
           Chosen(k) == k = [s \in SUBSET (1 .. n) |-> IF s = {} THEN pages ELSE AddNew(k[s \ {Max(s)}], found[Max(s)])]
           g == CHOOSE j : Chosen(j)
           Good == {k \in 0 .. n : /\ Grows(P, pages, g[1 .. k])
                                   /\ \A i \in 1 .. k : SameUrl(g[1 .. k], found[i])}
<1>1. n \in Nat /\ DOMAIN found = 1 .. n /\ found \in [1 .. n -> P]
  OBVIOUS
<1>2. AddAll(pages, found) = g[1 .. n]
  BY <1>1 DEF AddAll, FoldLeft, MapThenFoldSet
<1> HIDE DEF n, A, g
<1>3. \A i \in 1 .. n, acc \in A : AddNew(acc, found[i]) \in A /\ F[<<i, acc>>] = AddNew(acc, found[i])
  <2>1. ASSUME NEW i \in 1 .. n, NEW acc \in A PROVE AddNew(acc, found[i]) \in A
    <3>1. found[i] \in P /\ acc \in Seq(P)
      BY <1>1 DEF A
    <3>2. Append(acc, found[i]) \in Seq(P)
      BY <3>1
    <3> QED
      BY <3>1, <3>2 DEF AddNew, A
  <2> QED
    BY <2>1
<1>4. F \in [(1 .. n) \X A -> A] /\ pages \in A
  BY <1>3 DEF A
<1>5. PICK h \in [SUBSET (1 .. n) -> A] : IsLoop(h, n, pages, F)
  <2> HIDE DEF F
  <2> QED
    BY <1>1, <1>4, LoopExists
<1>6. Chosen(h)
  <2>1. ASSUME NEW s \in SUBSET (1 .. n)
        PROVE  h[s] = IF s = {} THEN pages ELSE AddNew(h[s \ {Max(s)}], found[Max(s)])
    <3>1. CASE s = {}
      BY <3>1, <1>5 DEF IsLoop
    <3>2. CASE s # {}
      <4>1. Max(s) \in 1 .. n /\ h[s \ {Max(s)}] \in A
        BY <3>2, <1>1, <1>5, MaxIn
      <4> HIDE DEF F
      <4> QED
        BY <3>2, <4>1, <1>3, <1>5 DEF IsLoop
    <3> QED
      BY <3>1, <3>2
  <2>2. h = [s \in SUBSET (1 .. n) |-> h[s]]
    BY <1>5
  <2> QED
    BY <2>1, <2>2
<1>7. Chosen(g)
  BY <1>6 DEF g
<1>8. \A s \in SUBSET (1 .. n) : g[s] = IF s = {} THEN pages ELSE AddNew(g[s \ {Max(s)}], found[Max(s)])
  BY <1>7
<1> HIDE DEF Chosen
<1>9. 0 \in Good
  <2>1. 1 .. 0 = {} /\ 1 .. 0 \in SUBSET (1 .. n) /\ 0 \in 0 .. n
    BY <1>1
  <2>2. g[1 .. 0] = pages
    BY <2>1, <1>8
  <2> QED
    BY <2>1, <2>2 DEF Grows
<1>10. ASSUME NEW k \in 1 .. n, k - 1 \in Good PROVE k \in Good
  <2> DEFINE old == g[1 .. (k - 1)]
             new == g[1 .. k]
  <2>1. new = AddNew(old, found[k])
    BY <1>1, <1>8, IntervalIs
  <2>2. found[k] \in P /\ Grows(P, pages, old) /\ \A i \in 1 .. (k - 1) : SameUrl(old, found[i])
    BY <1>1, <1>10
  <2> HIDE DEF old, new, Good
  <2>3. old \in Seq(P) /\ Distinct(old)
    BY <2>2 DEF Grows
  <2>4. Grows(P, old, new) /\ SameUrl(new, found[k])
    BY <2>1, <2>2, <2>3, AddNewGrows
  <2>5. Grows(P, pages, new)
    BY <2>2, <2>4 DEF Grows
  <2>6. \A i \in 1 .. (k - 1) : SameUrl(new, found[i])
    BY <2>2, <2>4 DEF Grows
  <2>7. \A i \in 1 .. k : i = k \/ i \in 1 .. (k - 1)
    BY <1>1
  <2>8. k \in 0 .. n /\ \A i \in 1 .. k : SameUrl(new, found[i])
    BY <1>1, <2>4, <2>6, <2>7
  <2> QED
    BY <2>5, <2>8 DEF Good, new
<1>11. n \in Good
  <2> HIDE DEF Good
  <2> QED
    BY <1>1, <1>9, <1>10, TurnByTurn
<1> QED
  BY <1>1, <1>2, <1>11 DEF ToSet

\* The outer loop: the answers in the order in which their queries end.
LEMMA PagesAre ==
  ASSUME NEW P, NEW s, NEW Q, s.order \in Seq(Q), \A q \in Q : SearchOf(s, s.reply[q]) \in Seq(P)
  PROVE  /\ Pages(s) \in Seq(P) /\ Distinct(Pages(s))
         /\ \A q \in ToSet(s.order) : \A p \in ToSet(SearchOf(s, s.reply[q])) : SameUrl(Pages(s), p)
<1> DEFINE n == Len(s.order)
           answer == [i \in 1 .. n |-> SearchOf(s, s.reply[s.order[i]])]
           A == {pages \in Seq(P) : Distinct(pages)}
           F == [x \in (1 .. n) \X A |-> AddAll(x[2], answer[x[1]])]
           Chosen(k) == k = [t \in SUBSET (1 .. n) |-> IF t = {} THEN <<>>
                              ELSE AddAll(k[t \ {Max(t)}], SearchOf(s, s.reply[s.order[Max(t)]]))]
           g == CHOOSE j : Chosen(j)
           Kept(pages, k) == \A i \in 1 .. k : \A p \in ToSet(answer[i]) : SameUrl(pages, p)
           Good == {k \in 0 .. n : g[1 .. k] \in A /\ Kept(g[1 .. k], k)}
<1>1. n \in Nat /\ DOMAIN s.order = 1 .. n /\ s.order \in [1 .. n -> Q]
  OBVIOUS
<1>2. Pages(s) = g[1 .. n]
  BY <1>1 DEF Pages, FoldLeft, MapThenFoldSet
<1>3. ASSUME NEW i \in 1 .. n PROVE answer[i] = SearchOf(s, s.reply[s.order[i]]) /\ answer[i] \in Seq(P)
  BY <1>1
<1> HIDE DEF n, A, g, answer
<1>4. \A i \in 1 .. n, acc \in A : AddAll(acc, answer[i]) \in A /\ F[<<i, acc>>] = AddAll(acc, answer[i])
  <2>1. ASSUME NEW i \in 1 .. n, NEW acc \in A PROVE AddAll(acc, answer[i]) \in A
    <3>1. answer[i] \in Seq(P) /\ acc \in Seq(P) /\ Distinct(acc)
      BY <1>3 DEF A
    <3>2. Grows(P, acc, AddAll(acc, answer[i]))
      BY <3>1, AddAllGrows
    <3> QED
      BY <3>2 DEF Grows, A
  <2> QED
    BY <2>1
<1>5. F \in [(1 .. n) \X A -> A] /\ <<>> \in A
  <2>1. <<>> \in Seq(P) /\ DOMAIN <<>> = {}
    OBVIOUS
  <2> QED
    BY <1>4, <2>1 DEF A, Distinct
<1>6. PICK h \in [SUBSET (1 .. n) -> A] : IsLoop(h, n, <<>>, F)
  <2> HIDE DEF F
  <2> QED
    BY <1>1, <1>5, LoopExists
<1>7. Chosen(h)
  <2>1. ASSUME NEW t \in SUBSET (1 .. n)
        PROVE  h[t] = IF t = {} THEN <<>> ELSE AddAll(h[t \ {Max(t)}], SearchOf(s, s.reply[s.order[Max(t)]]))
    <3>1. CASE t = {}
      BY <3>1, <1>6 DEF IsLoop
    <3>2. CASE t # {}
      <4>1. Max(t) \in 1 .. n /\ h[t \ {Max(t)}] \in A
        BY <3>2, <1>1, <1>6, MaxIn
      <4> HIDE DEF F
      <4> QED
        BY <3>2, <4>1, <1>3, <1>4, <1>6 DEF IsLoop
    <3> QED
      BY <3>1, <3>2
  <2>2. h = [t \in SUBSET (1 .. n) |-> h[t]]
    BY <1>6
  <2> QED
    BY <2>1, <2>2
<1>8. Chosen(g)
  BY <1>7 DEF g
<1>9. \A t \in SUBSET (1 .. n) : g[t] = IF t = {} THEN <<>> ELSE AddAll(g[t \ {Max(t)}], SearchOf(s, s.reply[s.order[Max(t)]]))
  BY <1>8
<1> HIDE DEF Chosen
<1>10. 0 \in Good
  <2>1. 1 .. 0 = {} /\ 1 .. 0 \in SUBSET (1 .. n) /\ 0 \in 0 .. n
    BY <1>1
  <2>2. g[1 .. 0] = <<>>
    BY <2>1, <1>9
  <2> QED
    BY <2>1, <2>2, <1>5
<1>11. ASSUME NEW k \in 1 .. n, k - 1 \in Good PROVE k \in Good
  <2> DEFINE old == g[1 .. (k - 1)]
             new == g[1 .. k]
  <2>1. new = AddAll(old, answer[k])
    <3>1. 1 .. k \in SUBSET (1 .. n) /\ 1 .. k # {} /\ Max(1 .. k) = k /\ (1 .. k) \ {k} = 1 .. (k - 1)
      BY <1>1, IntervalIs
    <3>2. new = AddAll(g[(1 .. k) \ {Max(1 .. k)}], SearchOf(s, s.reply[s.order[Max(1 .. k)]]))
      BY <3>1, <1>9
    <3> QED
      BY <3>1, <3>2, <1>3
  <2>2. answer[k] \in Seq(P) /\ old \in A /\ Kept(old, k - 1)
    BY <1>3, <1>11
  <2> HIDE DEF old, new, Good
  <2>3. old \in Seq(P) /\ Distinct(old)
    BY <2>2 DEF A
  <2>4. Grows(P, old, new) /\ \A p \in ToSet(answer[k]) : SameUrl(new, p)
    BY <2>1, <2>2, <2>3, AddAllGrows
  <2>5. new \in A
    BY <2>4 DEF Grows, A
  <2>6. \A i \in 1 .. k : i = k \/ i \in 1 .. (k - 1)
    BY <1>1
  <2>7. k \in 0 .. n /\ Kept(new, k)
    BY <1>1, <2>2, <2>4, <2>6 DEF Grows
  <2> QED
    BY <2>5, <2>7 DEF Good, new
<1>12. n \in Good
  <2> HIDE DEF Good
  <2> QED
    BY <1>1, <1>10, <1>11, TurnByTurn
<1>13. g[1 .. n] \in Seq(P) /\ Distinct(g[1 .. n]) /\ Kept(g[1 .. n], n)
  BY <1>12 DEF A
<1>14. ASSUME NEW q \in ToSet(s.order), NEW p \in ToSet(SearchOf(s, s.reply[q])) PROVE SameUrl(g[1 .. n], p)
  <2>1. PICK i \in 1 .. n : q = s.order[i]
    BY <1>1 DEF ToSet
  <2> QED
    BY <2>1, <1>3, <1>13, <1>14
<1> QED
  BY <1>2, <1>13, <1>14

-----------------------------------------------------------------------------
(* Search: what the model is shown. *)

LEMMA SearchedAre ==
  ASSUME NEW Url, NEW Product, NEW s, NEW Q, s.order \in Seq(Q),
         \A q \in Q : SearchOf(s, s.reply[q]) \in Seq(WebPage(Url, Product))
  PROVE  /\ MultiSearch(s) \in Seq(WebPage(Url, Product)) /\ Distinct(MultiSearch(s))
         /\ \A q \in ToSet(s.order) : \A p \in ToSet(SearchOf(s, s.reply[q])) : SameUrl(MultiSearch(s), p)
<1> DEFINE P == WebPage(Url, Product)
           found == Pages(s)
           pages == MultiSearch(s)
<1>1. /\ found \in Seq(P) /\ Distinct(found)
      /\ \A q \in ToSet(s.order) : \A p \in ToSet(SearchOf(s, s.reply[q])) : SameUrl(found, p)
  BY PagesAre
<1>2. \A p \in P : Fetch(s, p) \in P /\ Fetch(s, p).url = p.url
  <2>1. ASSUME NEW p \in P PROVE Fetch(s, p) \in P /\ Fetch(s, p).url = p.url
    BY DEF Fetch, WebPage
  <2> QED
    BY <2>1
<1>3. pages = [i \in DOMAIN found |-> IF i <= s.top * Len(s.order) THEN Fetch(s, found[i]) ELSE found[i]]
  BY DEF MultiSearch
<1> HIDE DEF P, found, pages
<1>4. Len(found) \in Nat /\ DOMAIN found = 1 .. Len(found) /\ found \in [1 .. Len(found) -> P]
  BY <1>1
<1>5. \A i \in 1 .. Len(found) : pages[i] \in P /\ pages[i].url = found[i].url
  BY <1>2, <1>3, <1>4
<1>6. pages \in [1 .. Len(found) -> P] /\ DOMAIN pages = DOMAIN found
  BY <1>3, <1>4, <1>5
<1>7. pages \in Seq(P)
  BY <1>4, <1>6
<1>8. Distinct(pages)
  BY <1>1, <1>4, <1>5, <1>6 DEF Distinct
<1>9. \A p : SameUrl(found, p) => SameUrl(pages, p)
  <2>1. ASSUME NEW p, SameUrl(found, p) PROVE SameUrl(pages, p)
    <3>1. PICK i \in DOMAIN found : found[i].url = p.url
      BY <2>1 DEF SameUrl, ToSet
    <3>2. pages[i].url = p.url /\ i \in DOMAIN pages
      BY <3>1, <1>4, <1>5, <1>6
    <3> QED
      BY <3>2 DEF SameUrl, ToSet
  <2> QED
    BY <2>1
<1> QED
  BY <1>1, <1>7, <1>8, <1>9 DEF P, found, pages

\* A share that has a page with content puts one of its pages into the context.
LEMMA ContextHas ==
  ASSUME NEW Url, NEW Product, NEW s, s.most \in Nat \ {0}, NEW pages \in Seq(WebPage(Url, Product)),
         NEW share \in SUBSET DOMAIN pages, NEW dealt, NEW i \in share, HasContent(pages[i])
  PROVE  \E x \in share : pages[x] \in FormatContext(s, pages, share, dealt)
<1> DEFINE full == {j \in share : HasContent(pages[j])}
           Sooner(j, k) == IF (j \in dealt) = (k \in dealt) THEN j < k ELSE k \in dealt
           Ahead(j, k) == \/ pages[j].text > pages[k].text
                          \/ pages[j].text = pages[k].text /\ Sooner(j, k)
           R == {x \in full \X full : Ahead(x[1], x[2])}
<1>1. Len(pages) \in Nat /\ DOMAIN pages = 1 .. Len(pages) /\ pages \in [1 .. Len(pages) -> WebPage(Url, Product)]
  OBVIOUS
<1>2. full \in SUBSET (1 .. Len(pages)) /\ i \in full
  BY <1>1
<1>3. IsFiniteSet(full)
  <2>1. IsFiniteSet(1 .. Len(pages))
    BY <1>1, FS_Interval
  <2> HIDE DEF full
  <2> QED
    BY <1>2, <2>1, FS_Subset
<1>4. \A j \in full : pages[j].text \in Nat /\ j \in Nat
  BY <1>1, <1>2 DEF WebPage
<1> HIDE DEF full
<1>5. \A j, k \in full : <<j, k>> \in R <=> Ahead(j, k)
  OBVIOUS
<1>6. \A j \in full : ~Ahead(j, j)
  BY <1>4
<1>7. \A j, k, l \in full : Ahead(j, k) /\ Ahead(k, l) => Ahead(j, l)
  <2>1. \A j, k, l \in full : Sooner(j, k) /\ Sooner(k, l) => Sooner(j, l)
    BY <1>4
  <2> HIDE DEF Sooner
  <2> QED
    BY <1>4, <2>1
<1> HIDE DEF R, Ahead
<1>8. \E x \in full : \A y \in full : <<y, x>> \notin R
  <2>1. (\A j \in full : <<j, j>> \notin R) /\ \A j, k, l \in full : <<j, k>> \in R /\ <<k, l>> \in R => <<j, l>> \in R
    BY <1>5, <1>6, <1>7
  <2>2. full \in SUBSET full /\ full # {}
    BY <1>2
  <2>3. \A t \in SUBSET full : t # {} => \E x \in t : \A y \in t : <<y, x>> \notin R
    BY <1>3, <2>1, FirstExists
  <2> QED
    BY <2>2, <2>3
<1>9. PICK x \in full : \A y \in full : ~Ahead(y, x)
  BY <1>5, <1>8
<1>10. {j \in full : Ahead(j, x)} = {}
  BY <1>9
<1>11. Cardinality({j \in full : Ahead(j, x)}) < s.most
  <2>1. Cardinality({}) = 0 /\ 0 < s.most
    BY FS_EmptySet
  <2> QED
    BY <1>10, <2>1
<1>12. FormatContext(s, pages, share, dealt) = {pages[j] : j \in {j \in full : Cardinality({k \in full : Ahead(k, j)}) < s.most}}
  BY DEF FormatContext, full, Ahead
<1> QED
  BY <1>9, <1>11, <1>12 DEF full

\* multi_search and the context made of it, for any products and queries that end
\* in any order: every page of an answer is kept, once, and a product that some
\* page with content matches best has one of its share's pages in the context.
THEOREM ProductsTheorem ==
  ASSUME NEW Url, NEW Product, asked.products \in Seq(Product), asked.most \in Nat \ {0},
         asked.order \in Seq(Queries(asked)), ToSet(asked.order) = Queries(asked),
         \A q \in Queries(asked) : SearchOf(asked, asked.reply[q]) \in Seq(WebPage(Url, Product))
  PROVE  ProductsAreShown
<1> DEFINE P == WebPage(Url, Product)
           pages == MultiSearch(asked)
           n == Len(asked.products)
           m == Len(pages)
           ShareOf(k) == {pages[i] : i \in Assigned(asked, pages, k)}
<1>1. /\ pages \in Seq(P) /\ Distinct(pages)
      /\ \A q \in Queries(asked) : \A p \in ToSet(SearchOf(asked, asked.reply[q])) : SameUrl(pages, p)
  BY SearchedAre
<1> HIDE DEF pages
<1>2. /\ m \in Nat /\ DOMAIN pages = 1 .. m /\ pages \in [1 .. m -> P]
      /\ n \in Nat /\ DOMAIN asked.products = 1 .. n /\ asked.products \in [1 .. n -> Product]
  BY <1>1
<1> HIDE DEF m, n, P
<1>3. ASSUME NEW k \in DOMAIN asked.products, NEW p \in ToSet(pages), HasContent(p), Best(asked, p) = k
      PROVE  SearchContext(asked) \cap ShareOf(k) # {}
  <2>1. PICK i \in DOMAIN pages : p = pages[i]
    BY DEF ToSet
  <2>2. i \notin Unassigned(asked, pages) /\ i \in Assigned(asked, pages, k)
    BY <1>2, <1>3, <2>1 DEF Unassigned, Assigned
  <2>3. pages # <<>>
    BY <2>1
  <2>4. \A j : Assigned(asked, pages, j) \in SUBSET DOMAIN pages
    BY DEF Assigned
  <2>5. CASE n > 1
    <3>1. PICK x \in Assigned(asked, pages, k) :
             pages[x] \in FormatContext(asked, pages, Assigned(asked, pages, k), Unassigned(asked, pages))
      BY <1>1, <1>3, <2>1, <2>2, <2>4, ContextHas DEF P
    <3>2. SearchContext(asked) = PerProductContext(asked, pages)
      BY <2>3, <2>5 DEF SearchContext, pages, n
    <3>3. pages[x] \in PerProductContext(asked, pages)
      BY <3>1 DEF PerProductContext
    <3> QED
      BY <3>1, <3>2, <3>3
  <2>6. CASE ~(n > 1)
    <3>1. n = 1 /\ k = 1 /\ DOMAIN asked.products = {1}
      BY <1>2, <2>6
    <3>2. PICK x \in DOMAIN pages : pages[x] \in FormatContext(asked, pages, DOMAIN pages, {})
      BY <1>1, <1>3, <2>1, ContextHas DEF P
    <3>3. SearchContext(asked) = FormatContext(asked, pages, DOMAIN pages, {})
      BY <2>3, <2>6 DEF SearchContext, pages, n
    <3>4. x \in Assigned(asked, pages, 1)
      <4>1. CASE x \in Unassigned(asked, pages)
        <5> DEFINE before == {j \in Unassigned(asked, pages) : j < x}
        <5>1. before \in SUBSET (1 .. m)
          BY <1>2 DEF Unassigned
        <5> HIDE DEF before
        <5>2. Cardinality(before) \in Nat
          <6>1. IsFiniteSet(1 .. m)
            BY <1>2, FS_Interval
          <6> QED
            BY <5>1, <6>1, FS_Subset, FS_CardinalityType
        <5>3. 1 + (Cardinality(before) % 1) = 1
          BY <5>2
        <5> QED
          BY <4>1, <5>3, <3>1 DEF Assigned, before, n
      <4>2. CASE x \notin Unassigned(asked, pages)
        <5> DEFINE y == pages[x]
                   Better(j, l) == y.about[asked.products[j]] > y.about[asked.products[l]]
                   Top(j) == j \in DOMAIN asked.products /\ \A l \in DOMAIN asked.products : ~Better(l, j) /\ (l < j => Better(j, l))
        <5>1. y.about[asked.products[1]] \in Nat
          BY <1>2, <3>1 DEF P, WebPage
        <5>2. Top(1) /\ \A j : Top(j) => j = 1
          BY <3>1, <5>1
        <5>3. Best(asked, y) = IF y.about[asked.products[CHOOSE j : Top(j)]] = 0 THEN 0 ELSE CHOOSE j : Top(j)
          BY DEF Best
        <5> HIDE DEF Top, Better
        <5>4. (CHOOSE j : Top(j)) = 1
          BY <5>2
        <5>5. Best(asked, y) = 1
          BY <4>2, <5>3, <5>4 DEF Unassigned
        <5> QED
          BY <4>2, <5>5 DEF Assigned
      <4> QED
        BY <4>1, <4>2
    <3> QED
      BY <3>1, <3>2, <3>3, <3>4
  <2> QED
    BY <2>5, <2>6
<1> QED
  BY <1>1, <1>3 DEF ProductsAreShown, Distinct, pages
=============================================================================
