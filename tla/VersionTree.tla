---------------------------- MODULE VersionTree ----------------------------
(***************************************************************************)
(* The two histories of a thread (competition/branchtree and the version   *)
(* endpoints of competition_router.py): the report versions in             *)
(* branch_snapshots, written by the first run, by human edits and by       *)
(* re-runs, and the tree of LangGraph checkpoints behind CheckpointOps and *)
(* AgentBranchOps.  They share no state: a behaviour exercises one of      *)
(* them, `half`.                                                           *)
(*                                                                         *)
(* Report contents and checkpoints are numbered as they are made.  The     *)
(* checkpoint saver is a library, modelled from what the code asks of it:  *)
(* update_state adds a child of the checkpoint it is given, and put writes *)
(* a checkpoint under its own id with the id of the configuration as its   *)
(* parent.                                                                 *)
(***************************************************************************)
EXTENDS Integers, SequencesExt

CONSTANTS
  MaxVersions,    \* bound on report versions
  MaxCheckpoints, \* bound on checkpoints
  MaxFaults       \* bound on failures of the library

ASSUME BoundAssumption ==
  MaxVersions \in Nat \ {0} /\ MaxCheckpoints \in Nat \ {0} /\ MaxFaults \in Nat

VARIABLES
  half,
  \* Report versions.
  rows,      \* branch_snapshots of the thread, as inserted
  from,      \* from[c]: the content that content c was made from
  report,    \* content of state["report_data"]
  forkMark,  \* state["_fork_parent_version"], 0: absent
  writer,    \* writer[a]: what actor a is about to insert
  \* Checkpoints.
  ck,        \* checkpoints of the thread, oldest first
  cache,     \* what CheckpointOps has cached: the ids, or nothing yet
  agent,     \* the operation of AgentBranchOps in progress
  faults

versions == <<rows, from, report, forkMark, writer>>
tree == <<ck, cache, agent, faults>>
treeVars == <<half, versions, tree>>

Actor == {"edit", "rework"}
Field == {"coverage", "data"}
Score == 0 .. 1
Op == {"none", "explore", "test", "pick", "overall", "fields"}
Rest == [pc |-> "idle", parent |-> 0, content |-> 0, number |-> 0]
NoOp == [op |-> "none", pc |-> "fork", base |-> 0, branches |-> <<>>, todo |-> <<>>, made |-> <<>>]

TreeTypeOK ==
  /\ half \in {"reports", "checkpoints"}
  /\ rows \in Seq([number : 1 .. MaxVersions, parent : 0 .. MaxVersions, content : 1 .. MaxVersions + 1,
                   approved : BOOLEAN])
  /\ Len(rows) <= MaxVersions + 1
  /\ report \in 0 .. Len(from) /\ forkMark \in 0 .. MaxVersions
  /\ writer \in [Actor -> [pc : {"idle", "run", "save", "insert"}, parent : 0 .. MaxVersions,
                           content : 0 .. MaxVersions + 1, number : 0 .. MaxVersions]]
  /\ writer["edit"].pc = "insert" => writer["edit"].parent < writer["edit"].number
  /\ \A i \in 1 .. Len(ck) : ck[i].parent \in 0 .. i /\ ck[i].vals \in [Field -> Score]
  /\ cache \in [built : BOOLEAN, ids : SUBSET (1 .. Len(ck))]
  /\ agent.op \in Op /\ agent.pc \in {"fork", "tag"} /\ agent.base \in 0 .. Len(ck)
  /\ faults \in 0 .. MaxFaults

TreeInit ==
  /\ half \in {"reports", "checkpoints"}
  /\ rows = <<[number |-> 1, parent |-> 0, content |-> 1, approved |-> FALSE]>>
  /\ from = <<0>> /\ report = 1 /\ forkMark = 0
  /\ writer = [a \in Actor |-> Rest]
  /\ \E x \in [Field -> Score] :
       ck = <<[parent |-> 0, vals |-> [f \in Field |-> 0], forked |-> FALSE],
              [parent |-> 1, vals |-> x, forked |-> FALSE]>>
  /\ cache = [built |-> FALSE, ids |-> {}]
  /\ agent = NoOp /\ faults = 0

(***************************************************************************)
(* Report versions.                                                        *)
(***************************************************************************)
Numbers == {rows[i].number : i \in 1 .. Len(rows)}
Latest == CHOOSE n \in Numbers : \A m \in Numbers : m <= n
NewContent(c) == from' = Append(from, c) /\ report' = Len(from) + 1

\* update_sections: the edited report becomes current, then a version.
Edit ==
  /\ half = "reports" /\ writer["edit"].pc = "idle" /\ Len(from) <= MaxVersions
  /\ NewContent(report)
  /\ writer' = [writer EXCEPT !["edit"] = [Rest EXCEPT !.pc = "save", !.content = Len(from) + 1]]
  /\ UNCHANGED <<half, rows, forkMark, tree>>

\* Mutant: the version to fork from is not looked up.
DecideUnknown(v) ==
  /\ half = "reports" /\ writer["rework"].pc = "idle"
  /\ forkMark' = IF v > 0 THEN v ELSE forkMark
  /\ writer' = [writer EXCEPT !["rework"].pc = "run"]
  /\ UNCHANGED <<half, rows, from, report, tree>>

\* submit_decision: the number of the version to fork from is put aside; an
\* unknown one is ignored.
Decide(v) ==
  /\ half = "reports" /\ writer["rework"].pc = "idle"
  /\ forkMark' = IF v \in Numbers THEN v ELSE forkMark
  /\ writer' = [writer EXCEPT !["rework"].pc = "run"]
  /\ UNCHANGED <<half, rows, from, report, tree>>

\* Approving leaves the mark of an earlier or of the same decision in place.
Approve(v) ==
  /\ half = "reports"
  /\ forkMark' = IF v \in Numbers THEN v ELSE forkMark
  /\ rows' = [i \in 1 .. Len(rows) |->
                IF rows[i].number = Latest THEN [rows[i] EXCEPT !.approved = TRUE] ELSE rows[i]]
  /\ UNCHANGED <<half, from, report, writer, tree>>

\* _reanalyze_sync works on the state as it is and takes the mark with it.
Rework ==
  /\ half = "reports" /\ writer["rework"].pc = "run" /\ Len(from) <= MaxVersions
  /\ NewContent(report)
  /\ writer' = [writer EXCEPT !["rework"] =
                  [Rest EXCEPT !.pc = "save", !.parent = forkMark, !.content = Len(from) + 1]]
  /\ forkMark' = 0
  /\ UNCHANGED <<half, rows, tree>>

\* A run that fails or is cancelled saves no version.
ReworkStops ==
  /\ half = "reports" /\ writer["rework"].pc = "run"
  /\ writer' = [writer EXCEPT !["rework"] = Rest]
  /\ forkMark' = 0
  /\ UNCHANGED <<half, rows, from, report, tree>>

\* _persist_report_version up to the read of the next number.  The parent is
\* the fork, or the version that is the latest now.
Select(a) ==
  /\ writer[a].pc = "save" /\ Latest < MaxVersions
  /\ writer' = [writer EXCEPT ![a].pc = "insert", ![a].number = Latest + 1,
                              ![a].parent = IF @ = 0 THEN Latest ELSE @]
  /\ UNCHANGED <<half, rows, from, report, forkMark, tree>>

\* Mutant: the snapshot is taken from the state when the row is written.
RowLate(a) ==
  [number |-> writer[a].number, parent |-> writer[a].parent, content |-> report, approved |-> FALSE]

\* _build_report_snapshot: a detached copy of the report that was made.
Row(a) ==
  [number |-> writer[a].number, parent |-> writer[a].parent, content |-> writer[a].content,
   approved |-> FALSE]

Insert(a) ==
  /\ writer[a].pc = "insert"
  /\ rows' = Append(rows, Row(a))
  /\ writer' = [writer EXCEPT ![a] = Rest]
  /\ UNCHANGED <<half, from, report, forkMark, tree>>

(***************************************************************************)
(* Checkpoints.                                                            *)
(***************************************************************************)
\* LangGraph runs a node: a child of the latest checkpoint, one after the two
\* it starts with.  Nothing tells CheckpointOps.
GraphWrites(f) ==
  /\ half = "checkpoints" /\ Len(ck) < MaxCheckpoints
  /\ \A i \in 3 .. Len(ck) : ck[i].forked
  /\ ck' = Append(ck, [parent |-> Len(ck), vals |-> [Last(ck).vals EXCEPT ![f] = 1 - @], forked |-> FALSE])
  /\ UNCHANGED <<half, versions, cache, agent, faults>>

\* build_tree, children, lineage: the first read fills the cache.
EnsureCache ==
  /\ half = "checkpoints" /\ ~cache.built
  /\ cache' = [built |-> TRUE, ids |-> 1 .. Len(ck)]
  /\ UNCHANGED <<half, versions, ck, agent, faults>>

\* CheckpointOps.fork: a child of checkpoint p, and the cache is dropped.
Fork(p, vals) ==
  /\ Len(ck) < MaxCheckpoints
  /\ ck' = Append(ck, [parent |-> p, vals |-> vals, forked |-> TRUE])
  /\ cache' = [built |-> FALSE, ids |-> {}]

\* CheckpointOps.update_state: the same, of the latest checkpoint.
UpdateState(f) ==
  /\ half = "checkpoints" /\ agent.op = "none"
  /\ Fork(Len(ck), [Last(ck).vals EXCEPT ![f] = 1 - @])
  /\ UNCHANGED <<half, versions, agent, faults>>

\* CheckpointOps.tag puts the checkpoint under its own configuration.
Tag(i) == ck' = [ck EXCEPT ![i].parent = i]

\* explore_branches and a_b_test set coverage of two branches of a base.
Begin(op, b) ==
  /\ half = "checkpoints" /\ agent.op = "none" /\ op \in {"explore", "test"}
  /\ agent' = [NoOp EXCEPT !.op = op, !.base = b, !.todo = <<1, 0>>]
  /\ UNCHANGED <<half, versions, ck, cache, faults>>

\* cherry_pick into b from c.
BeginPick(b, c, f) ==
  /\ half = "checkpoints" /\ agent.op = "none"
  /\ agent' = [NoOp EXCEPT !.op = "pick", !.base = b, !.branches = <<c>>, !.todo = <<f>>]
  /\ UNCHANGED <<half, versions, ck, cache, faults>>

\* The first of the branches with the highest score.
BestOf(branches, f) ==
  CHOOSE i \in 1 .. Len(branches) :
     \A j \in 1 .. Len(branches) :
        LET x == ck[branches[i]].vals[f]  y == ck[branches[j]].vals[f] IN x > y \/ (x = y /\ i <= j)

\* auto_merge of two branches, by compare_branches or field by field.
BeginMerge(op, b, c) ==
  /\ half = "checkpoints" /\ agent.op = "none" /\ op \in {"overall", "fields"}
  /\ agent' = [NoOp EXCEPT !.op = op, !.branches = <<b, c>>,
                 !.base = IF op = "fields" THEN b ELSE <<b, c>>[BestOf(<<b, c>>, "coverage")],
                 !.todo = IF op = "fields" THEN <<"coverage", "data">> ELSE <<"data">>]
  /\ UNCHANGED <<half, versions, ck, cache, faults>>

\* What the next checkpoint of the operation takes over, and from where.
Source(f) == agent.branches[BestOf(agent.branches, f)]

\* merged_id: the checkpoint the last pick made.
Merged == IF agent.made = <<>> THEN agent.base ELSE Last(agent.made)

NextVals ==
  LET x == Head(agent.todo) IN
  CASE agent.op \in {"explore", "test"} -> [ck[agent.base].vals EXCEPT !["coverage"] = x]
    [] agent.op = "pick" -> [ck[agent.base].vals EXCEPT ![x] = ck[agent.branches[1]].vals[x]]
    [] agent.op = "overall" -> ck[agent.base].vals
    [] agent.op = "fields" -> [ck[Merged].vals EXCEPT ![x] = ck[Source(x)].vals[x]]

\* A pick from the merged checkpoint itself is left out.
Skip ==
  /\ agent.op = "fields" /\ agent.pc = "fork" /\ agent.todo # <<>>
  /\ Source(Head(agent.todo)) = Merged
  /\ agent' = [agent EXCEPT !.todo = Tail(@)]
  /\ UNCHANGED <<half, versions, ck, cache, faults>>

ForkStep ==
  /\ agent.op # "none" /\ agent.pc = "fork" /\ agent.todo # <<>>
  /\ agent.op = "fields" => Source(Head(agent.todo)) # Merged
  /\ Fork(IF agent.op = "fields" THEN Merged ELSE agent.base, NextVals)
  /\ agent' = [agent EXCEPT !.pc = IF agent.op = "test" THEN "fork" ELSE "tag", !.todo = Tail(@),
                            !.made = Append(@, Len(ck) + 1)]
  /\ UNCHANGED <<half, versions, faults>>

TagStep ==
  /\ agent.op # "none" /\ agent.pc = "tag"
  /\ Tag(Last(agent.made))
  /\ agent' = [agent EXCEPT !.pc = "fork"]
  /\ UNCHANGED <<half, versions, cache, faults>>

\* A fork that raises: explore and the merge of fields go on without it.
ForkFails ==
  /\ agent.op # "none" /\ agent.pc = "fork" /\ agent.todo # <<>> /\ faults < MaxFaults
  /\ faults' = faults + 1
  /\ agent' = IF agent.op \in {"explore", "fields"} THEN [agent EXCEPT !.todo = Tail(@)] ELSE NoOp
  /\ UNCHANGED <<half, versions, ck, cache>>

\* The end of an operation; a test and a merge tag their checkpoints here.
FinishStep ==
  /\ agent.op # "none" /\ agent.pc = "fork" /\ agent.todo = <<>>
  /\ ck' = [i \in 1 .. Len(ck) |->
              IF \/ agent.op = "test" /\ \E j \in 1 .. Len(agent.made) : agent.made[j] = i
                 \/ agent.op = "fields" /\ i = Merged
              THEN [ck[i] EXCEPT !.parent = i] ELSE ck[i]]
  /\ agent' = NoOp
  /\ UNCHANGED <<half, versions, cache, faults>>

-----------------------------------------------------------------------------
Reports ==
  \/ Edit \/ Rework \/ ReworkStops
  \/ \E v \in 0 .. MaxVersions : Decide(v) \/ Approve(v)
  \/ \E a \in Actor : Select(a) \/ Insert(a)

Checkpoints ==
  \/ \E f \in Field : GraphWrites(f) \/ UpdateState(f)
  \/ EnsureCache
  \/ \E b, c \in 1 .. Len(ck) :
       \/ \E op \in {"explore", "test"} : Begin(op, b)
       \/ \E f \in Field : BeginPick(b, c, f)
       \/ \E op \in {"overall", "fields"} : BeginMerge(op, b, c)
  \/ Skip \/ ForkStep \/ TagStep \/ ForkFails \/ FinishStep

TreeNext == Reports \/ Checkpoints

TreeSpec == TreeInit /\ [][TreeNext]_treeVars

(***************************************************************************)
(* Properties.                                                             *)
(***************************************************************************)
\* Both histories know what they grew from: the parent of a version was there
\* before it, of duplicate numbers too, and CheckpointOps sees every checkpoint
\* that it forked itself.
HistoryIsKnown ==
  /\ TreeTypeOK
  /\ \A i \in 1 .. Len(rows) :
       rows[i].parent # 0 => \E j \in 1 .. i - 1 : rows[j].number = rows[i].parent
  /\ cache.built => \A i \in 1 .. Len(ck) : ck[i].forked => i \in cache.ids

\* What is written is what was read.  A version holds the report its writer made,
\* whatever an edit or a re-run does to the current report before the row is
\* written ("one complete, detached report version"); a merge of fields that meets
\* no failure ends with the best value of each field, whatever the graph writes
\* meanwhile.
WritesAreDetached ==
  [][/\ \A a \in Actor :
          (writer[a].pc = "insert" /\ writer'[a].pc = "idle")
            => rows'[Len(rows')].content = writer[a].content
     /\ (agent.op = "fields" /\ agent'.op = "none" /\ faults = 0)
          => \A f \in Field, i \in 1 .. 2 : ck[Merged].vals[f] >= ck[agent.branches[i]].vals[f]]_treeVars

\* In no run, the code violates them.
\* "fork from this historical version instead of current".
ForkIsMadeFromParent ==
  \A i \in 1 .. Len(rows), j \in 1 .. Len(rows) :
     (rows[i].parent = rows[j].number) => from[rows[i].content] = rows[j].content

\* One row for each version number of the thread.
NumbersAreUnique ==
  \A i, j \in 1 .. Len(rows) : rows[i].number = rows[j].number => i = j

\* "from the root to the checkpoint": no checkpoint is its own ancestor.
LineageEnds == \A i \in 1 .. Len(ck) : ck[i].parent < i

\* The timeline endpoint shows the tree of all its checkpoints.
TimelineIsCurrent == cache.built => cache.ids = 1 .. Len(ck)
=============================================================================
