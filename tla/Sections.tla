------------------------------ MODULE Sections ------------------------------
(***************************************************************************)
(* The model calls of an analysis (competition/executor.py), the token     *)
(* budget of its stages (competition/budget.py, graph.py) and the parallel *)
(* sections of its report (competition/nodes/writer.py).                   *)
(*                                                                         *)
(* An analysis makes calls one after the other in its first stages, here   *)
(* one stage "analyst", then writes its sections in a pool of its own.     *)
(* All analyses of the process share the slots for sections and the usage  *)
(* counters, from whose growth a stage takes what it has used.             *)
(*                                                                         *)
(* A call that fails, is refused at the stage's deadline, or answers       *)
(* nothing usable gives no text; text is not told apart further.           *)
(***************************************************************************)
EXTENDS Integers, Sequences, FiniteSets, SequencesExt

CONSTANTS
  Report,       \* analyses of the process
  Tasks,        \* task sets each report may have: narrative, sections of its industry
  Slots,        \* WRITER_MAX_PARALLEL_PROCESS (6)
  MaxParallel,  \* WRITER_MAX_PARALLEL_PER_REPORT (3)
  Limit,        \* budget_policy.total_tokens
  StageLimit,   \* budget_policy.stage_tokens["analyst"]
  Input,        \* bound on the prompt tokens of a call
  Output,       \* max_tokens of a call
  Repeats,      \* identical calls in a row before the breaker trips (3)
  MaxCalls      \* bound on the calls of a stage that makes them in turn

ASSUME SectionsAssumption ==
  /\ IsFiniteSet(Report) /\ \A r \in Report : IsFiniteSet(UNION Tasks[r])
  /\ {Slots, MaxParallel, Limit, StageLimit, Repeats} \subseteq Nat \ {0}
  /\ {Input, Output, MaxCalls} \subseteq Nat

VARIABLES
  specs,      \* tasks of each report
  phase,      \* stage of each analysis
  left,       \* _tl.stage_token_budget_remaining of its thread
  used,       \* tokens its stage_results add up to
  delta,      \* growth of the stage's usage counter since the stage began
  spent,      \* tokens its own calls have been answered with
  history,    \* _tl.call_history of its thread
  calls,      \* calls of the stage so far, and whether one is open
  cancelled,  \* _cancel_flags
  open,       \* tasks without an answer when the flag was raised
  task,       \* state of each task of the report
  free        \* value of _writer_process_slots

vars == <<specs, phase, left, used, delta, spent, history, calls, cancelled, open, task, free>>
run == <<phase, left, used, history, calls>>

Key == UNION {UNION Tasks[r] : r \in Report}
Phase == {"idle", "analyst", "writing", "done", "stopped"}
Status == {"success", "fallback", "saturated", "cancelled"}
Signature == {"first", "retry"}
Place == {"queued", "waiting", "slot", "calling", "leaving", "finished", "recorded"}
Holding == {"slot", "calling", "leaving"}
On(place) == [at |-> place, status |-> "none"]
As(place, status) == [at |-> place, status |-> status]

Least(a, b) == IF a < b THEN a ELSE b
Greatest(a, b) == IF a > b THEN a ELSE b

(***************************************************************************)
(* The budget.                                                             *)
(***************************************************************************)
\* Tokens the run may still use.
Remaining(total, stage) == Greatest(0, Limit - total)
LimitsForStage(total, stage) ==
  IF stage = "analyst" THEN Least(Remaining(total, stage), Greatest(0, StageLimit - total))
  ELSE Remaining(total, stage)

Clamp(budget) == Greatest(1, Least(Output, budget))
\* What a call may be answered with; one that fails, or that the deadline of
\* the stage refuses, uses nothing.
Failed == [text |-> FALSE, tokens |-> 0]
Usage(budget) == 1 .. Clamp(budget) + Input
Answer(budget) == {Failed} \cup [text : BOOLEAN, tokens : Usage(budget)]

\* Mutant: the allowance is not reduced.
ConsumeNothing(budget, tokens) == budget
Consume(budget, tokens) == Greatest(0, budget - tokens)

\* The answer is charged to its agent: every analysis in that stage sees it.
RecordUsage(r, tokens) ==
  /\ spent' = [spent EXCEPT ![r] = @ + tokens]
  /\ delta' = [o \in Report |-> IF phase[o] = phase[r] THEN delta[o] + tokens ELSE delta[o]]

Init ==
  /\ specs \in {f \in [Report -> SUBSET Key] : \A r \in Report : f[r] \in Tasks[r]}
  /\ phase = [r \in Report |-> "idle"]
  /\ left = [r \in Report |-> 0] /\ used = [r \in Report |-> 0]
  /\ delta = [r \in Report |-> 0] /\ spent = [r \in Report |-> 0]
  /\ history = [r \in Report |-> <<>>]
  /\ calls = [r \in Report |-> [made |-> 0, open |-> FALSE]]
  /\ cancelled = [r \in Report |-> FALSE] /\ open = [r \in Report |-> {}]
  /\ task = [r \in Report |-> <<>>]
  /\ free = Slots

(***************************************************************************)
(* Stages with calls in turn.                                              *)
(***************************************************************************)
StageStart(r) ==
  /\ phase[r] = "idle"
  /\ phase' = [phase EXCEPT ![r] = "analyst"]
  /\ left' = [left EXCEPT ![r] = LimitsForStage(used[r], "analyst")]
  /\ delta' = [delta EXCEPT ![r] = 0]
  /\ UNCHANGED <<specs, used, spent, history, calls, cancelled, open, task, free>>

Tripped(r, sig) == Len(history[r]) = Repeats /\ \A i \in 1 .. Repeats : history[r][i] = sig
RecordCall(r, sig) ==
  history' = [history EXCEPT ![r] = LET h == Append(@, sig) IN IF Len(h) > Repeats THEN Tail(h) ELSE h]

\* A call is not sent when the flag is up, the breaker has tripped or
\* nothing is left of the allowance.
Execute(r, sig) ==
  /\ phase[r] = "analyst" /\ ~calls[r].open /\ calls[r].made < MaxCalls
  /\ IF cancelled[r] \/ Tripped(r, sig) THEN UNCHANGED history ELSE RecordCall(r, sig)
  /\ calls' = [calls EXCEPT ![r] =
       [made |-> @.made + 1, open |-> ~cancelled[r] /\ ~Tripped(r, sig) /\ left[r] > 0]]
  /\ UNCHANGED <<specs, phase, left, used, delta, spent, cancelled, open, task, free>>

Executed(r) ==
  /\ calls[r].open
  /\ \E a \in Answer(left[r]) :
       /\ RecordUsage(r, a.tokens)
       /\ left' = [left EXCEPT ![r] = Consume(@, a.tokens)]
  /\ calls' = [calls EXCEPT ![r].open = FALSE]
  /\ UNCHANGED <<specs, phase, used, history, cancelled, open, task, free>>

\* The graph loop looks at the flag before it goes on to the next node.  The
\* threads of a pool are new, and the agent of the next stage is another.
StageEnd(r) ==
  /\ phase[r] = "analyst" /\ ~calls[r].open
  /\ LET total == used[r] + delta[r] IN
     /\ used' = [used EXCEPT ![r] = total]
     /\ IF cancelled[r]
          THEN /\ phase' = [phase EXCEPT ![r] = "stopped"]
               /\ UNCHANGED <<left, task>>
          ELSE /\ phase' = [phase EXCEPT ![r] = "writing"]
               /\ left' = [left EXCEPT ![r] = LimitsForStage(total, "writer")]
               /\ task' = [task EXCEPT ![r] = [k \in specs[r] |-> On("queued")]]
  /\ delta' = [delta EXCEPT ![r] = 0]
  /\ history' = [history EXCEPT ![r] = <<>>]
  /\ calls' = [calls EXCEPT ![r].made = 0]
  /\ UNCHANGED <<specs, spent, cancelled, open, free>>

(***************************************************************************)
(* One section in a thread of the report's pool.                           *)
(***************************************************************************)
At(r, k, pc) == phase[r] = "writing" /\ k \in specs[r] /\ task[r][k] = pc
Goes(r, k, pc) == task' = [task EXCEPT ![r][k] = pc]
Busy(r) == {k \in specs[r] : task[r][k].at \in Holding \cup {"waiting"}}

TaskStart(r, k) ==
  /\ At(r, k, On("queued")) /\ Cardinality(Busy(r)) < MaxParallel
  /\ Goes(r, k, IF cancelled[r] THEN As("finished", "cancelled") ELSE On("waiting"))
  /\ UNCHANGED <<specs, run, delta, spent, cancelled, open, free>>

Acquire(r, k) ==
  /\ At(r, k, On("waiting")) /\ free > 0
  /\ free' = free - 1
  /\ Goes(r, k, On("slot"))
  /\ UNCHANGED <<specs, run, delta, spent, cancelled, open>>

\* WRITER_SLOT_WAIT_SECONDS have passed without a slot.
Saturated(r, k) ==
  /\ At(r, k, On("waiting")) /\ free = 0
  /\ Goes(r, k, As("finished", "saturated"))
  /\ UNCHANGED <<specs, run, delta, spent, cancelled, open, free>>

\* The worker has the allowance its parent had when it was submitted.
Allowance(r) == left[r]
Send(r, k) ==
  /\ At(r, k, On("slot"))
  /\ Goes(r, k, IF cancelled[r] THEN As("leaving", "cancelled")
                ELSE IF Allowance(r) > 0 THEN On("calling") ELSE As("leaving", "fallback"))
  /\ UNCHANGED <<specs, run, delta, spent, cancelled, open, free>>

StatusAfter(r, a) ==
  IF cancelled[r] THEN "cancelled" ELSE IF a.text THEN "success" ELSE "fallback"

\* A report with a single section writes it on the thread of the graph.
Inline(r) == Cardinality(specs[r]) = 1
\* The hooks of a worker are a copy: the parent's allowance stays as it is.
LeftAfter(r, tokens) == IF Inline(r) THEN [left EXCEPT ![r] = Consume(@, tokens)] ELSE left
Answered(r, k) ==
  /\ At(r, k, On("calling"))
  /\ \E a \in Answer(Allowance(r)) :
       /\ RecordUsage(r, a.tokens)
       /\ left' = LeftAfter(r, a.tokens)
       /\ Goes(r, k, As("leaving", StatusAfter(r, a)))
  /\ UNCHANGED <<specs, phase, used, history, calls, cancelled, open, free>>

\* Mutant: only a section that was written gives its slot back.
ReleaseWritten(s) == IF s = "success" THEN 1 ELSE 0
Release(s) == 1
Leave(r, k) ==
  \E s \in Status :
    /\ At(r, k, As("leaving", s))
    /\ free' = free + Release(s)
    /\ Goes(r, k, As("finished", s))
    /\ UNCHANGED <<specs, run, delta, spent, cancelled, open>>

(***************************************************************************)
(* The thread of the graph.                                                *)
(***************************************************************************)
\* With the flag up, the sections that have not begun are cancelled.
CancelPending(r) ==
  IF cancelled[r]
    THEN [k \in specs[r] |-> IF task[r][k] = On("queued") THEN As("finished", "cancelled") ELSE task[r][k]]
    ELSE task[r]

RecordResult(r, k) ==
  \E s \in Status :
    /\ At(r, k, As("finished", s))
    /\ task' = [task EXCEPT ![r] = [CancelPending(r) EXCEPT ![k] = As("recorded", s)]]
    /\ UNCHANGED <<specs, run, delta, spent, cancelled, open, free>>

Complete(r) == \A k \in specs[r] : task[r][k].at = "recorded"

\* Industry sections get their text or the fallback, in the order of the
\* profile; the narrative replaces sections that are there already.
Merge(r) ==
  /\ phase[r] = "writing"
  /\ Complete(r)
  /\ phase' = [phase EXCEPT ![r] = "done"]
  /\ used' = [used EXCEPT ![r] = @ + delta[r]]
  /\ delta' = [delta EXCEPT ![r] = 0] /\ left' = [left EXCEPT ![r] = 0]
  /\ UNCHANGED <<specs, spent, history, calls, cancelled, open, task, free>>

\* The user cancels the analysis.
Cancel(r) ==
  /\ phase[r] \in {"analyst", "writing"} /\ ~cancelled[r]
  /\ cancelled' = [cancelled EXCEPT ![r] = TRUE]
  /\ open' = [open EXCEPT ![r] = IF phase[r] = "analyst" THEN {} ELSE
       {k \in specs[r] : task[r][k].at \in {"queued", "waiting", "slot", "calling"}}]
  /\ UNCHANGED <<specs, run, delta, spent, task, free>>

Finish == (\A r \in Report : phase[r] \in {"done", "stopped"}) /\ UNCHANGED vars

GraphThread(r) ==
  \/ StageStart(r) \/ \E sig \in Signature : Execute(r, sig)
  \/ Executed(r) \/ StageEnd(r) \/ Merge(r)
  \/ \E k \in Key : RecordResult(r, k)
Worker(r, k) ==
  \/ TaskStart(r, k) \/ Acquire(r, k) \/ Saturated(r, k) \/ Send(r, k)
  \/ Answered(r, k) \/ Leave(r, k)

Next ==
  \/ \E r \in Report : GraphThread(r) \/ Cancel(r)
  \/ \E r \in Report, k \in Key : Worker(r, k)
  \/ Finish

Spec == Init /\ [][Next]_vars

-----------------------------------------------------------------------------
TypeOK ==
  /\ phase \in [Report -> Phase] /\ \A r \in Report : specs[r] \in Tasks[r]
  /\ {left[r] : r \in Report} \subseteq 0 .. Limit
  /\ \A r \in Report : {used[r], delta[r], spent[r]} \subseteq Nat
  /\ \A r \in Report : Len(history[r]) <= Repeats /\ Range(history[r]) \subseteq Signature
  /\ calls \in [Report -> [made : 0 .. MaxCalls, open : BOOLEAN]]
  /\ cancelled \in [Report -> BOOLEAN] /\ open \in [Report -> SUBSET Key]
  /\ \A r \in Report :
       IF phase[r] \in {"writing", "done"}
         THEN task[r] \in [specs[r] -> [at : Place, status : Status \cup {"none"}]]
         ELSE task[r] = <<>>
  /\ free \in 0 .. Slots

Holds(r, k) == phase[r] = "writing" /\ k \in specs[r] /\ task[r][k].at \in Holding
Held == {h \in Report \X Key : Holds(h[1], h[2])}

\* The sections of all reports together never hold more slots than there
\* are, and each slot comes back however its section ends: written, failed,
\* or cancelled in between.  A section whose answer was still out when the
\* analysis was cancelled is not in the report, even if the model answers it
\* later.
SectionsEnd ==
  /\ TypeOK
  /\ free + Cardinality(Held) = Slots
  /\ \A r \in Report : cancelled[r] /\ phase[r] \in {"writing", "done"} =>
       \A k \in open[r] : task[r][k] # As("recorded", "success")

\* An analysis uses its total budget and one prompt at most once for every
\* section it writes in parallel, whatever the others use, and what its own
\* calls used is charged to it in full.
BudgetHolds ==
  \A r \in Report :
    /\ spent[r] <= Greatest(1, Cardinality(specs[r])) * (Limit + Input)
    /\ phase[r] \in {"done", "stopped"} => used[r] >= spent[r]

\* In no run, the code violates it: parallel sections are each given all
\* that is left of the total.
TotalIsKept == \A r \in Report : spent[r] <= Limit + Input

\* In no run, the code violates it: the counters belong to the process, so
\* a stage is charged with what other analyses use in the meantime.
ChargedForOwn == \A r \in Report : phase[r] = "done" => used[r] <= spent[r]
=============================================================================
