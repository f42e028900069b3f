----------------------- MODULE AnalysisLifecycleProofs -----------------------
(***************************************************************************)
(* Proofs about AnalysisLifecycle for any number of worker threads, events,*)
(* decisions, edits and restarts.                                          *)
(***************************************************************************)
EXTENDS AnalysisLifecycle, FiniteSetTheorems, SequenceTheorems, TLAPS

-----------------------------------------------------------------------------
(* The inductive invariant. *)

\* An endpoint at work and a worker have an entry, with a state dict; and an
\* entry has a row.
EntryShape ==
  /\ h # "idle" \/ Alive # {} => mem # "absent"
  /\ mem # "absent" => cur \in 1 .. Len(heap) /\ db # "absent"
  /\ db = "absent" => dbRep = NoReport /\ phase = NoReport

\* What the endpoint at work has read: a dict, or the number of a report.
ReadShape ==
  /\ h \in {"decide", "approveMem"} => hv \in 1 .. Len(heap)
  /\ h = "editDb" => hv \in 1 .. made

\* own[w] is a report while the graph runs, and a dict at its end and in a re-run,
\* which has a node left before it ends.
OwnShape ==
  \A w \in Worker :
    /\ pc[w] \in {"node", "save"} => own[w] <= made
    /\ pc[w] \in {"failMem", "failDb"} => own[w] <= Len(heap)
    /\ pc[w] \in {"end", "doneDb", "reRun", "reCheck", "rePre", "rePost", "reEnd", "reVersion"} =>
         own[w] \in 1 .. Len(heap)
    /\ pc[w] \in {"reQueued", "reRun", "reCheck", "rePre", "rePost"} => left[w] > 0

Shape == TypeOK /\ EntryShape /\ ReadShape /\ OwnShape

\* The claim is given once: what it found waiting waits no more.
Claimed ==
  /\ starts = 0 \/ db \notin {"absent", "awaiting"}
  /\ h = "start" => starts = 0 /\ db \notin {"absent", "awaiting"}

\* Where a worker has still to write the entry's status.
Writes == PCs \ {"none", "failDb", "doneDb", "version", "finalizeDb", "reVersion"}

WriterAhead == mem = "running" /\ ~restored => \E w \in Worker : pc[w] \in Writes

\* A run that is on its way to completion has a report, now in its own dict.
EndHasReport == \A w \in Worker : pc[w] \in {"end", "doneDb"} => heap[own[w]] # NoReport

\* A doomed worker is the only one, and no start is on its way that could put
\* another beside it; it has the flag ahead of it, or has seen it.
DoomedAlone ==
  /\ \A w \in doomed : Alive \subseteq {w}
  /\ doomed # {} => h # "start" /\ (h \in {"cancelMem", "cancelDb"} \/ db \notin {"absent", "awaiting"})
  /\ \A w \in doomed : pc[w] \in {"none", "finalizeMem", "finalizeDb"} \/ (flag /\ pc[w] \in CheckAhead)

IInv ==
  /\ Shape /\ Claimed /\ starts <= 1
  /\ WriterAhead /\ EndHasReport /\ CompletedIsReadable /\ DoomedAlone

-----------------------------------------------------------------------------
(* What steps do to dicts. *)

\* A check goes on or to the finalizer.
LEMMA CheckGoes ==
  ASSUME TypeOK, NEW w \in Worker, NEW from, NEW to \in PCs, Check(w, from, to)
  PROVE  pc' \in [Worker -> PCs] /\ flag' = FALSE
  <1>1. "finalizeMem" \in PCs
    BY DEF PCs, Finalize
  <1> QED
    BY <1>1 DEF Check, Step, TypeOK

\* So does one of a re-analysis, or it ends.
LEMMA StopGoes ==
  ASSUME TypeOK, NEW w \in Worker, NEW from, NEW to \in PCs, StopIfCancelled(w, from, to)
  PROVE  pc' \in [Worker -> PCs] /\ flag' = FALSE
  <1>1. "finalizeMem" \in PCs /\ "none" \in PCs
    BY DEF PCs, Finalize
  <1> QED
    BY <1>1 DEF StopIfCancelled, Step, TypeOK

\* Reports stay reports when more are made.
LEMMA LongerSeq ==
  ASSUME NEW n \in Nat, NEW m \in Nat, n <= m, NEW s \in Seq(0 .. n)
  PROVE  s \in Seq(0 .. m)
  OBVIOUS

\* A restored entry has one dict.
LEMMA LoadType ==
  ASSUME Shape, Load, UNCHANGED made
  PROVE  heap' \in Seq(0 .. made) /\ cur' \in 0 .. Len(heap')
  <1>1. Restored \in 0 .. made
    BY DEF Restored, Shape, TypeOK
  <1>2. CASE mem = "absent"
    BY <1>1, <1>2 DEF Load
  <1>3. CASE mem # "absent"
    BY <1>3 DEF Load, Shape, TypeOK
  <1> QED
    BY <1>2, <1>3

\* An edit replaces the report in the entry's dict.
LEMMA EditHeap ==
  ASSUME Shape, Edit
  PROVE  /\ heap' \in Seq(0 .. made') /\ cur' \in 1 .. Len(heap')
         /\ mem # "absent" =>
              /\ Len(heap') = Len(heap)
              /\ \A i \in 1 .. Len(heap) : heap'[i] = IF i = cur THEN made + 1 ELSE heap[i]
  <1>1. CASE mem = "absent"
    BY <1>1 DEF Edit, Shape, TypeOK
  <1>2. CASE mem # "absent"
    <2>1. heap \in Seq(0 .. made + 1)
      BY LongerSeq DEF Shape, TypeOK
    <2>2. cur \in 1 .. Len(heap) /\ made + 1 \in 0 .. made + 1
      BY <1>2 DEF Shape, EntryShape, TypeOK
    <2>3. heap' = [heap EXCEPT ![cur] = made + 1] /\ made' = made + 1 /\ cur' = cur
      BY <1>2 DEF Edit
    <2> QED
      BY <2>1, <2>2, <2>3, ExceptSeq
  <1> QED
    BY <1>1, <1>2

\* An event of the graph comes with a new dict, and may have a new report.
LEMMA EventHeap ==
  ASSUME Shape, NEW w \in Worker, Event(w)
  PROVE  /\ own' \in [Worker -> Nat] /\ own'[w] \in 0 .. made'
         /\ \A v \in Worker : v # w => own'[v] = own[v]
         /\ made' \in Nat /\ made <= made'
         /\ heap' \in Seq(0 .. made') /\ cur' \in 1 .. Len(heap') /\ Len(heap') = Len(heap) + 1
         /\ \A i \in 1 .. Len(heap) : heap'[i] = heap[i]
  <1>1. own' \in [Worker -> Nat] /\ own'[w] \in 0 .. made' /\ made' \in Nat /\ made <= made'
    BY SMTT(30) DEF Event, Check, Step, Shape, OwnShape, TypeOK
  <1>2. \A v \in Worker : v # w => own'[v] = own[v]
    BY DEF Event, Shape, TypeOK
  <1>3. heap \in Seq(0 .. made')
    BY <1>1, LongerSeq DEF Shape, TypeOK
  <1>4. heap' = Append(heap, own'[w]) /\ cur' = Len(heap')
    BY DEF Event
  <1> QED
    BY <1>1, <1>2, <1>3, <1>4

\* The last node of a re-analysis may replace the report in its dict.
LEMMA NodeHeap ==
  ASSUME Shape, NEW w \in Worker, ReNodeDone(w)
  PROVE  /\ heap' \in Seq(0 .. made') /\ Len(heap') = Len(heap)
         /\ made' \in Nat /\ made <= made'
         /\ \A i \in 1 .. Len(heap) : heap'[i] = heap[i] \/ heap'[i] = made + 1
  <1>1. CASE UNCHANGED <<heap, made>>
    BY <1>1 DEF Shape, TypeOK
  <1>2. CASE heap' = [heap EXCEPT ![own[w]] = made + 1] /\ made' = made + 1
    <2>1. heap \in Seq(0 .. made + 1)
      BY LongerSeq DEF Shape, TypeOK
    <2>2. own[w] \in 1 .. Len(heap) /\ made \in Nat
      BY DEF ReNodeDone, StopIfCancelled, Step, Shape, OwnShape, TypeOK
    <2> QED
      BY <2>1, <2>2, <1>2, ExceptSeq
  <1> QED
    BY <1>1, <1>2 DEF ReNodeDone

\* What becomes of a re-analysis after a node.
LEMMA NodeGoes ==
  ASSUME Shape, NEW w \in Worker, ReNodeDone(w)
  PROVE  /\ pc[w] = "rePost" /\ left[w] \in Nat \ {0} /\ own[w] \in 1 .. Len(heap)
         /\ \A v \in Worker : v # w => pc'[v] = pc[v] /\ left'[v] = left[v]
         /\ \/ pc'[w] \in {"none", "finalizeMem"}
            \/ ~flag /\ pc'[w] = "rePre" /\ left[w] > 1
            \/ ~flag /\ pc'[w] = "reEnd"
         /\ left'[w] = left[w] - 1 /\ UNCHANGED own
  <1>1. pc[w] = "rePost" /\ left[w] \in Nat \ {0} /\ own[w] \in 1 .. Len(heap)
    BY DEF ReNodeDone, StopIfCancelled, Step, Shape, OwnShape, TypeOK
  <1>2. left' = [left EXCEPT ![w] = left[w] - 1] /\ UNCHANGED own
    BY DEF ReNodeDone
  <1>3. pc' = [pc EXCEPT ![w] = IF ~flag THEN IF left[w] > 1 THEN "rePre" ELSE "reEnd"
                                ELSE IF mem = "interrupted" THEN "none" ELSE "finalizeMem"]
    BY DEF ReNodeDone, StopIfCancelled, Step
  <1>4. pc \in [Worker -> PCs] /\ left \in [Worker -> 0 .. MaxEvents + MaxNodes]
    BY DEF Shape, TypeOK
  <1> QED
    BY <1>1, <1>2, <1>3, <1>4

\* What a dict holds is a report that was made.
LEMMA DictReport == ASSUME Shape, NEW d \in 1 .. Len(heap) PROVE heap[d] \in 0 .. made
  BY SMTT(30) DEF Shape, TypeOK

-----------------------------------------------------------------------------
(* The steps. *)

\* Type correctness.
LEMMA TypeStep ==
  ASSUME Shape, [Next]_vars PROVE TypeOK'
  <1>0. CASE UNCHANGED vars
    BY <1>0 DEF vars, entry, record, threads, counters, history, TypeOK, Shape, EntryShape,
      ReadShape, OwnShape, Statuses, PCs, Graph, Rerun, Finalize, NoReport
  <1>1. CASE Analyze
    BY <1>1 DEF Analyze, Idle, counters, history, threads, NoReport, TypeOK, Shape, Statuses
  <1>2. CASE Confirm
    <2> USE <1>2
    <2>1. heap' \in Seq(0 .. made) /\ cur' \in 0 .. Len(heap')
      BY LoadType DEF Confirm, counters, threads
    <2> QED
      BY <2>1 DEF Confirm, SetEntry, Status, record, threads, counters, Shape, TypeOK, Statuses
  <1>3. CASE Claim
    BY <1>3 DEF Claim, entry, threads, counters, history, TypeOK, Shape, Statuses
  <1>4. ASSUME NEW w \in Worker, StartWorker(w) PROVE TypeOK'
    BY <1>4, NumberAssumption DEF StartWorker, Submit, record, counters, TypeOK, Shape, PCs,
      Graph, Statuses
  <1>5. CASE StartFails
    BY <1>5, NumberAssumption DEF StartFails, record, threads, history, TypeOK, Shape,
      Statuses
  <1>6. CASE Cancel
    <2> USE <1>6
    <2>1. heap' \in Seq(0 .. made) /\ cur' \in 0 .. Len(heap')
      BY LoadType DEF Cancel, counters, threads
    <2>2. doomed' \subseteq Worker
      BY DEF Cancel, Shape, TypeOK, Alive
    <2> QED
      BY <2>1, <2>2 DEF Cancel, SetEntry, Status, record, threads, counters, Shape, TypeOK, Statuses
  <1>7. CASE CancelMem
    BY <1>7 DEF CancelMem, record, threads, counters, history, TypeOK, Shape, Statuses
  <1>8. CASE CancelDb
    BY <1>8 DEF CancelDb, entry, threads, counters, history, TypeOK, Shape, Statuses
  <1>9. CASE Decide
    <2> USE <1>9
    <2>1. heap' \in Seq(0 .. made) /\ cur' \in 0 .. Len(heap')
      BY LoadType DEF Decide, threads
    <2> QED
      BY SMTT(30), <2>1, NumberAssumption DEF Decide, Decidable, SetEntry, Status, record, threads, counters, Shape, TypeOK, Statuses
  <1>10. ASSUME NEW w \in Worker, Rework(w) PROVE TypeOK'
    BY <1>10, NumberAssumption DEF Rework, Submit, record, counters, TypeOK, Shape, PCs,
      Rerun, Statuses, ReadShape
  <1>11. CASE ApproveMem
    BY <1>11 DEF ApproveMem, record, threads, counters, history, TypeOK, Shape, Statuses,
      ReadShape
  <1>12. CASE ApproveDb
    BY SMTT(30), <1>12 DEF ApproveDb, entry, threads, counters, TypeOK, Shape, Statuses, EntryShape
  <1>13. CASE Edit
    <2> USE <1>13
    <2> QED
      BY EditHeap, NumberAssumption DEF Edit, SetEntry, Status, record, threads, counters, Shape, TypeOK,
        Statuses
  <1>14. CASE EditDb
    BY <1>14 DEF EditDb, entry, threads, counters, history, TypeOK, Shape, ReadShape
  <1>15. ASSUME NEW w \in Worker, Begin(w) PROVE TypeOK'
    <2> USE <1>15
    <2>1. pc' \in [Worker -> PCs] /\ flag' = FALSE
      BY CheckGoes DEF Begin, Shape, PCs, Graph
    <2> QED
      BY <2>1 DEF Begin, entry, record, Handlers, counters, history, Shape, TypeOK
  <1>16. ASSUME NEW w \in Worker, Resolve(w) PROVE TypeOK'
    BY SMTT(30), ZenonT(30), <1>16 DEF Resolve, Step, record, Handlers, counters, history, TypeOK, Shape, PCs,
      Graph, Statuses
  <1>17. ASSUME NEW w \in Worker, Title(w) PROVE TypeOK'
    BY <1>17 DEF Title, Step, entry, Handlers, counters, history, TypeOK, Shape, PCs, Graph,
      Statuses
  <1>18. ASSUME NEW w \in Worker, BeforeGraph(w) PROVE TypeOK'
    <2> USE <1>18
    <2>1. pc' \in [Worker -> PCs] /\ flag' = FALSE
      BY CheckGoes DEF BeforeGraph, Shape, PCs, Graph
    <2>2. heap[cur] \in Nat
      BY SMTT(30) DEF BeforeGraph, Check, Step, Shape, EntryShape, TypeOK, Alive
    <2> QED
      BY <2>1, <2>2 DEF BeforeGraph, entry, record, Handlers, counters, history, Shape, TypeOK
  <1>19. ASSUME NEW w \in Worker, Event(w) PROVE TypeOK'
    <2> USE <1>19
    <2>1. pc' \in [Worker -> PCs] /\ flag' = FALSE
      BY CheckGoes DEF Event, Shape, PCs, Graph
    <2>2. left' \in [Worker -> 0 .. MaxEvents + MaxNodes]
      BY NumberAssumption DEF Event, Shape, TypeOK
    <2>3. made' \in Nat /\ made <= made'
      BY EventHeap
    <2>4. own' \in [Worker -> Nat] /\ heap' \in Seq(0 .. made') /\ cur' \in 0 .. Len(heap')
      BY EventHeap
    <2>5. {dbRep, phase, ver, approved}' \subseteq 0 .. made'
      BY <2>3 DEF Event, record, Shape, TypeOK
    <2> QED
      BY <2>1, <2>2, <2>3, <2>4, <2>5 DEF Event, record, Handlers, counters, history, Shape, TypeOK
  <1>20. ASSUME NEW w \in Worker, EventCancelled(w) PROVE TypeOK'
    BY <1>20 DEF EventCancelled, Check, Step, entry, record, Handlers, counters, history,
      TypeOK, Shape, PCs, Graph, Finalize
  <1>21. ASSUME NEW w \in Worker, SaveNode(w) PROVE TypeOK'
    BY <1>21 DEF SaveNode, Step, entry, Handlers, counters, history, TypeOK, Shape, PCs,
      Graph, Statuses, OwnShape
  <1>22. ASSUME NEW w \in Worker, GraphEnds(w) PROVE TypeOK'
    <2> USE <1>22
    <2>1. pc' \in [Worker -> PCs]
      BY DEF GraphEnds, Step, Shape, TypeOK, PCs, Graph
    <2>2. own' \in [Worker -> Nat]
      BY DEF GraphEnds, Shape, TypeOK
    <2> QED
      BY <2>1, <2>2 DEF GraphEnds, entry, record, Handlers, counters, history, Shape, TypeOK
  <1>23. ASSUME NEW w \in Worker, GraphRaises(w) PROVE TypeOK'
    BY <1>23 DEF GraphRaises, Step, entry, record, Handlers, counters, history, TypeOK,
      Shape, PCs, Graph
  <1>24. ASSUME NEW w \in Worker, FailMem(w) PROVE TypeOK'
    BY <1>24 DEF FailMem, Step, record, Handlers, counters, history, TypeOK, Shape, PCs,
      Graph, Statuses
  <1>25. ASSUME NEW w \in Worker, FailDb(w) PROVE TypeOK'
    <2> USE <1>25
    <2>1. dbRep' \in 0 .. made
      <3>1. CASE own[w] = 0 \/ heap[own[w]] = NoReport
        BY <3>1 DEF FailDb, Shape, TypeOK
      <3>2. CASE own[w] # 0 /\ heap[own[w]] # NoReport
        <4>1. own[w] \in 1 .. Len(heap)
          BY <3>2 DEF FailDb, Step, Shape, OwnShape, TypeOK
        <4> QED
          BY <3>2, <4>1, DictReport DEF FailDb
      <3> QED
        BY <3>1, <3>2
    <2>2. pc' \in [Worker -> PCs]
      BY DEF FailDb, Step, Shape, TypeOK, PCs
    <2> QED
      BY <2>1, <2>2 DEF FailDb, entry, Handlers, counters, history, TypeOK, Shape, Statuses
  <1>26. ASSUME NEW w \in Worker, DoneMem(w) PROVE TypeOK'
    BY <1>26 DEF DoneMem, Step, record, Handlers, counters, history, TypeOK, Shape, PCs,
      Graph, Statuses
  <1>27. ASSUME NEW w \in Worker, DoneDb(w) PROVE TypeOK'
    <2> USE <1>27
    <2>1. dbRep' \in 0 .. made
      BY DictReport DEF DoneDb, Step, Shape, OwnShape
    <2>2. pc' \in [Worker -> PCs]
      BY DEF DoneDb, Step, Shape, TypeOK, PCs, Graph
    <2> QED
      BY <2>1, <2>2 DEF DoneDb, entry, Handlers, counters, history, TypeOK, Shape, Statuses
  <1>28. ASSUME NEW w \in Worker, InitialVersion(w) PROVE TypeOK'
    <2> USE <1>28
    <2>1. ver' \in 0 .. made
      BY DictReport DEF InitialVersion, Step, Shape, EntryShape, Alive, TypeOK
    <2>2. pc' \in [Worker -> PCs]
      BY DEF InitialVersion, Step, Shape, TypeOK, PCs
    <2> QED
      BY <2>1, <2>2 DEF InitialVersion, entry, Handlers, counters, history, TypeOK, Shape
  <1>29. ASSUME NEW w \in Worker, ReBegin(w) PROVE TypeOK'
    <2> USE <1>29
    <2>1. pc' \in [Worker -> PCs] /\ flag' = FALSE
      BY StopGoes DEF ReBegin, Shape, PCs, Rerun
    <2>2. own' \in [Worker -> Nat]
      BY DEF ReBegin, Shape, TypeOK
    <2> QED
      BY <2>1, <2>2 DEF ReBegin, entry, record, Handlers, counters, history, Shape, TypeOK
  <1>30. ASSUME NEW w \in Worker, ReRun(w) PROVE TypeOK'
    BY <1>30 DEF ReRun, Step, record, Handlers, counters, history, TypeOK, Shape, PCs,
      Rerun, Statuses
  <1>31. ASSUME NEW w \in Worker, ReCheck(w) PROVE TypeOK'
    <2> USE <1>31
    <2>1. pc' \in [Worker -> PCs] /\ flag' = FALSE
      BY StopGoes DEF ReCheck, Shape, PCs, Rerun
    <2>2. cur' \in 0 .. Len(heap)
      BY DEF ReCheck, StopIfCancelled, Step, Shape, OwnShape, TypeOK
    <2> QED
      BY <2>1, <2>2 DEF ReCheck, entry, record, Handlers, counters, history, Shape, TypeOK
  <1>32. ASSUME NEW w \in Worker, ReNode(w) PROVE TypeOK'
    <2> USE <1>32
    <2>1. pc' \in [Worker -> PCs] /\ flag' = FALSE
      BY StopGoes DEF ReNode, Shape, PCs, Rerun
    <2> QED
      BY <2>1 DEF ReNode, entry, record, Handlers, counters, history, Shape, TypeOK
  <1>33. ASSUME NEW w \in Worker, ReNodeDone(w) PROVE TypeOK'
    <2> USE <1>33
    <2>1. pc' \in [Worker -> PCs] /\ flag' = FALSE
      BY StopGoes DEF ReNodeDone, Shape, PCs, Rerun
    <2>2. left' \in [Worker -> 0 .. MaxEvents + MaxNodes]
      <3>1. left \in [Worker -> 0 .. MaxEvents + MaxNodes] /\ left' = [left EXCEPT ![w] = left[w] - 1]
        BY DEF ReNodeDone, Shape, TypeOK
      <3>2. left[w] - 1 \in 0 .. MaxEvents + MaxNodes
        BY <3>1, NodeGoes, NumberAssumption
      <3> QED
        BY <3>1, <3>2
    <2>3. made' \in Nat /\ made <= made' /\ heap' \in Seq(0 .. made') /\ Len(heap') = Len(heap)
      BY NodeHeap
    <2>4. {dbRep, phase, ver, approved}' \subseteq 0 .. made'
      BY SMTT(30), <2>3 DEF ReNodeDone, record, Shape, TypeOK
    <2> QED
      BY <2>1, <2>2, <2>3, <2>4 DEF ReNodeDone, record, Handlers, counters, history, Shape, TypeOK
  <1>34. ASSUME NEW w \in Worker, ReFails(w) PROVE TypeOK'
    BY <1>34 DEF ReFails, Step, record, Handlers, counters, history, TypeOK, Shape, PCs,
      Statuses
  <1>35. ASSUME NEW w \in Worker, ReDone(w) PROVE TypeOK'
    BY SMTT(30), <1>35 DEF ReDone, Step, record, Handlers, counters, history, TypeOK, Shape, PCs,
      Rerun, Statuses, OwnShape
  <1>36. ASSUME NEW w \in Worker, ReVersion(w) PROVE TypeOK'
    <2> USE <1>36
    <2>1. ver' \in 0 .. made
      BY DictReport DEF ReVersion, Step, Shape, OwnShape, TypeOK
    <2>2. pc' \in [Worker -> PCs]
      BY DEF ReVersion, Step, Shape, TypeOK, PCs
    <2> QED
      BY <2>1, <2>2 DEF ReVersion, entry, Handlers, counters, history, TypeOK, Shape
  <1>37. ASSUME NEW w \in Worker, FinalizeMem(w) PROVE TypeOK'
    BY <1>37 DEF FinalizeMem, Step, record, Handlers, counters, history, TypeOK, Shape, PCs,
      Finalize, Statuses
  <1>38. ASSUME NEW w \in Worker, FinalizeDb(w) PROVE TypeOK'
    BY <1>38 DEF FinalizeDb, Step, entry, Handlers, counters, history, TypeOK, Shape, PCs,
      Statuses
  <1>39. CASE Restart
    <2> USE <1>39
    <2>1. pc' \in [Worker -> PCs] /\ left' \in [Worker -> 0 .. MaxEvents + MaxNodes] /\ own' \in [Worker -> Nat]
      BY NumberAssumption DEF Restart, PCs
    <2>2. heap' \in Seq(0 .. made') /\ cur' \in 0 .. Len(heap')
      BY DEF Restart
    <2>3. {dbRep, phase, ver, approved}' \subseteq 0 .. made'
      BY DEF Restart, record, Shape, TypeOK
    <2>4. mem' \in Statuses /\ flag' \in BOOLEAN /\ h' = "idle" /\ hv' \in Nat /\ db' \in Statuses
      BY DEF Restart, record, Shape, TypeOK, Statuses
    <2>5. restored' \in BOOLEAN /\ doomed' \subseteq Worker /\ published' \in BOOLEAN /\ starts' \in Nat
      BY DEF Restart, Shape, TypeOK
    <2>6. made' \in Nat /\ decisions' \in 0 .. MaxDecisions /\ edits' \in 0 .. MaxEdits /\ restarts' \in 0 .. MaxRestarts /\ startFails' \in 0 .. MaxStartFails
      BY NumberAssumption DEF Restart, Shape, TypeOK
    <2> QED
      BY <2>1, <2>2, <2>3, <2>4, <2>5, <2>6 DEF TypeOK, Shape, TypeOK, Statuses
  <1> QED
    BY <1>0, <1>1, <1>2, <1>3, <1>4, <1>5, <1>6, <1>7, <1>8, <1>9, <1>10, <1>11, <1>12,
      <1>13, <1>14, <1>15, <1>16, <1>17, <1>18, <1>19, <1>20, <1>21, <1>22, <1>23, <1>24,
      <1>25, <1>26, <1>27, <1>28, <1>29, <1>30, <1>31, <1>32, <1>33, <1>34, <1>35, <1>36,
      <1>37, <1>38, <1>39 DEF Next, EndpointStep, WorkerStep, GraphStep, RerunStep

\* Endpoints restore an entry before they work on it; restarts take all workers.
LEMMA EntryStep ==
  ASSUME Shape, [Next]_vars PROVE EntryShape'
  <1>0. CASE UNCHANGED vars
    BY <1>0 DEF vars, entry, record, threads, counters, history, TypeOK, Shape, EntryShape,
      ReadShape, Alive
  <1>1. CASE Analyze
    BY <1>1 DEF Analyze, Idle, counters, history, threads, NoReport, TypeOK, Shape,
      EntryShape, ReadShape, Alive
  <1>2. CASE Confirm
    BY <1>2 DEF Confirm, Idle, SetEntry, Load, Status, Restored, record, threads, counters,
      TypeOK, Shape, EntryShape, ReadShape, Alive
  <1>3. CASE Claim
    BY <1>3 DEF Claim, entry, threads, counters, history, TypeOK, Shape, EntryShape,
      ReadShape, Alive
  <1>4. ASSUME NEW w \in Worker, StartWorker(w) PROVE EntryShape'
    BY <1>4 DEF StartWorker, Submit, record, counters, TypeOK, Shape, EntryShape, ReadShape,
      Alive
  <1>5. CASE StartFails
    BY <1>5 DEF StartFails, record, threads, history, TypeOK, Shape, EntryShape, ReadShape,
      Alive
  <1>6. CASE Cancel
    BY <1>6 DEF Cancel, Idle, SetEntry, Load, Status, Restored, record, threads, counters,
      TypeOK, Shape, EntryShape, ReadShape, Alive
  <1>7. CASE CancelMem
    BY <1>7 DEF CancelMem, record, threads, counters, history, TypeOK, Shape, EntryShape,
      ReadShape, Alive
  <1>8. CASE CancelDb
    BY <1>8 DEF CancelDb, entry, threads, counters, history, TypeOK, Shape, EntryShape,
      ReadShape, Alive
  <1>9. CASE Decide
    BY <1>9 DEF Decide, Idle, Decidable, SetEntry, Load, Status, Restored, record, threads,
      TypeOK, Shape, EntryShape, ReadShape, Alive
  <1>10. ASSUME NEW w \in Worker, Rework(w) PROVE EntryShape'
    BY <1>10 DEF Rework, Submit, record, counters, TypeOK, Shape, EntryShape, ReadShape,
      Alive
  <1>11. CASE ApproveMem
    BY <1>11 DEF ApproveMem, record, threads, counters, history, TypeOK, Shape, EntryShape,
      ReadShape, Alive
  <1>12. CASE ApproveDb
    BY <1>12 DEF ApproveDb, entry, threads, counters, TypeOK, Shape, EntryShape, ReadShape,
      Alive
  <1>13. CASE Edit
    BY <1>13 DEF Edit, Idle, SetEntry, Status, Report, Restored, NoReport, record, threads,
      TypeOK, Shape, EntryShape, ReadShape, Alive
  <1>14. CASE EditDb
    BY <1>14 DEF EditDb, entry, threads, counters, history, TypeOK, Shape, EntryShape,
      ReadShape, Alive
  <1>15. ASSUME NEW w \in Worker, Begin(w) PROVE EntryShape'
    BY <1>15 DEF Begin, Check, Step, entry, record, Handlers, counters, history, TypeOK,
      Shape, EntryShape, ReadShape, Alive
  <1>16. ASSUME NEW w \in Worker, Resolve(w) PROVE EntryShape'
    BY <1>16 DEF Resolve, Step, record, Handlers, counters, history, TypeOK, Shape,
      EntryShape, ReadShape, Alive
  <1>17. ASSUME NEW w \in Worker, Title(w) PROVE EntryShape'
    BY <1>17 DEF Title, Step, entry, Handlers, counters, history, TypeOK, Shape, EntryShape,
      ReadShape, Alive
  <1>18. ASSUME NEW w \in Worker, BeforeGraph(w) PROVE EntryShape'
    BY <1>18 DEF BeforeGraph, Check, Step, entry, record, Handlers, counters, history,
      TypeOK, Shape, EntryShape, ReadShape, Alive
  <1>19. ASSUME NEW w \in Worker, Event(w) PROVE EntryShape'
    BY <1>19 DEF Event, Check, Step, record, Handlers, counters, history, TypeOK, Shape,
      EntryShape, ReadShape, Alive
  <1>20. ASSUME NEW w \in Worker, EventCancelled(w) PROVE EntryShape'
    BY <1>20 DEF EventCancelled, Check, Step, entry, record, Handlers, counters, history,
      TypeOK, Shape, EntryShape, ReadShape, Alive
  <1>21. ASSUME NEW w \in Worker, SaveNode(w) PROVE EntryShape'
    BY <1>21 DEF SaveNode, Step, entry, Handlers, counters, history, TypeOK, Shape,
      EntryShape, ReadShape, Alive
  <1>22. ASSUME NEW w \in Worker, GraphEnds(w) PROVE EntryShape'
    BY <1>22 DEF GraphEnds, Step, entry, record, Handlers, counters, history, NoReport,
      TypeOK, Shape, EntryShape, ReadShape, Alive
  <1>23. ASSUME NEW w \in Worker, GraphRaises(w) PROVE EntryShape'
    BY <1>23 DEF GraphRaises, Step, entry, record, Handlers, counters, history, TypeOK,
      Shape, EntryShape, ReadShape, Alive
  <1>24. ASSUME NEW w \in Worker, FailMem(w) PROVE EntryShape'
    BY <1>24 DEF FailMem, Step, record, Handlers, counters, history, TypeOK, Shape,
      EntryShape, ReadShape, Alive
  <1>25. ASSUME NEW w \in Worker, FailDb(w) PROVE EntryShape'
    BY <1>25 DEF FailDb, Step, entry, Handlers, counters, history, NoReport, TypeOK, Shape,
      EntryShape, ReadShape, Alive
  <1>26. ASSUME NEW w \in Worker, DoneMem(w) PROVE EntryShape'
    BY <1>26 DEF DoneMem, Step, record, Handlers, counters, history, TypeOK, Shape,
      EntryShape, ReadShape, Alive
  <1>27. ASSUME NEW w \in Worker, DoneDb(w) PROVE EntryShape'
    BY <1>27 DEF DoneDb, Step, entry, Handlers, counters, history, TypeOK, Shape,
      EntryShape, ReadShape, Alive
  <1>28. ASSUME NEW w \in Worker, InitialVersion(w) PROVE EntryShape'
    BY <1>28 DEF InitialVersion, Step, entry, Handlers, counters, history, NoReport, TypeOK,
      Shape, EntryShape, ReadShape, Alive
  <1>29. ASSUME NEW w \in Worker, ReBegin(w) PROVE EntryShape'
    BY <1>29 DEF ReBegin, StopIfCancelled, Step, entry, record, Handlers, counters, history,
      TypeOK, Shape, EntryShape, ReadShape, Alive
  <1>30. ASSUME NEW w \in Worker, ReRun(w) PROVE EntryShape'
    BY <1>30 DEF ReRun, Step, record, Handlers, counters, history, TypeOK, Shape,
      EntryShape, ReadShape, Alive
  <1>31. ASSUME NEW w \in Worker, ReCheck(w) PROVE EntryShape'
    <2> USE <1>31
    <2>1. own[w] \in 1 .. Len(heap)
      BY DEF ReCheck, StopIfCancelled, Step, Shape, OwnShape
    <2>2. mem # "absent"
      BY DEF ReCheck, StopIfCancelled, Step, Shape, EntryShape, Alive
    <2> QED
      BY <2>1, <2>2 DEF ReCheck, record, Handlers, Shape, EntryShape
  <1>32. ASSUME NEW w \in Worker, ReNode(w) PROVE EntryShape'
    BY <1>32 DEF ReNode, StopIfCancelled, Step, entry, record, Handlers, counters, history,
      TypeOK, Shape, EntryShape, ReadShape, Alive
  <1>33. ASSUME NEW w \in Worker, ReNodeDone(w) PROVE EntryShape'
    <2> USE <1>33
    <2>1. mem # "absent"
      BY DEF ReNodeDone, StopIfCancelled, Step, Shape, EntryShape, Alive
    <2> QED
      BY <2>1, NodeHeap DEF ReNodeDone, record, Handlers, Shape, EntryShape
  <1>34. ASSUME NEW w \in Worker, ReFails(w) PROVE EntryShape'
    BY <1>34 DEF ReFails, Step, record, Handlers, counters, history, TypeOK, Shape,
      EntryShape, ReadShape, Alive
  <1>35. ASSUME NEW w \in Worker, ReDone(w) PROVE EntryShape'
    <2> USE <1>35
    <2>1. own[w] \in 1 .. Len(heap)
      BY DEF ReDone, Step, Shape, OwnShape
    <2>2. mem # "absent"
      BY DEF ReDone, Step, Shape, EntryShape, Alive
    <2> QED
      BY <2>1, <2>2 DEF ReDone, record, Handlers, Shape, EntryShape
  <1>36. ASSUME NEW w \in Worker, ReVersion(w) PROVE EntryShape'
    BY <1>36 DEF ReVersion, Step, entry, Handlers, counters, history, NoReport, TypeOK,
      Shape, EntryShape, ReadShape, Alive
  <1>37. ASSUME NEW w \in Worker, FinalizeMem(w) PROVE EntryShape'
    BY <1>37 DEF FinalizeMem, Step, record, Handlers, counters, history, TypeOK, Shape,
      EntryShape, ReadShape, Alive
  <1>38. ASSUME NEW w \in Worker, FinalizeDb(w) PROVE EntryShape'
    BY <1>38 DEF FinalizeDb, Step, entry, Handlers, counters, history, TypeOK, Shape,
      EntryShape, ReadShape, Alive
  <1>39. CASE Restart
    BY <1>39 DEF Restart, record, TypeOK, Shape, EntryShape, ReadShape, Alive
  <1> QED
    BY <1>0, <1>1, <1>2, <1>3, <1>4, <1>5, <1>6, <1>7, <1>8, <1>9, <1>10, <1>11, <1>12,
      <1>13, <1>14, <1>15, <1>16, <1>17, <1>18, <1>19, <1>20, <1>21, <1>22, <1>23, <1>24,
      <1>25, <1>26, <1>27, <1>28, <1>29, <1>30, <1>31, <1>32, <1>33, <1>34, <1>35, <1>36,
      <1>37, <1>38, <1>39 DEF Next, EndpointStep, WorkerStep, GraphStep, RerunStep

\* What an endpoint has read is there until it is through.
LEMMA ReadStep ==
  ASSUME Shape, [Next]_vars PROVE ReadShape'
  <1>0. CASE UNCHANGED vars
    BY <1>0 DEF vars, entry, record, threads, counters, history, TypeOK, Shape, EntryShape,
      ReadShape
  <1>1. CASE Analyze
    BY <1>1 DEF Analyze, Idle, counters, history, threads, NoReport, TypeOK, Shape,
      EntryShape, ReadShape
  <1>2. CASE Confirm
    BY <1>2 DEF Confirm, Idle, SetEntry, Load, Status, Restored, record, threads, counters,
      TypeOK, Shape, EntryShape, ReadShape
  <1>3. CASE Claim
    BY <1>3 DEF Claim, entry, threads, counters, history, TypeOK, Shape, EntryShape,
      ReadShape
  <1>4. ASSUME NEW w \in Worker, StartWorker(w) PROVE ReadShape'
    BY <1>4 DEF StartWorker, Submit, record, counters, TypeOK, Shape, EntryShape, ReadShape
  <1>5. CASE StartFails
    BY <1>5 DEF StartFails, record, threads, history, TypeOK, Shape, EntryShape, ReadShape
  <1>6. CASE Cancel
    BY <1>6 DEF Cancel, Idle, SetEntry, Load, Status, Restored, record, threads, counters,
      TypeOK, Shape, EntryShape, ReadShape
  <1>7. CASE CancelMem
    BY <1>7 DEF CancelMem, record, threads, counters, history, TypeOK, Shape, EntryShape,
      ReadShape
  <1>8. CASE CancelDb
    BY <1>8 DEF CancelDb, entry, threads, counters, history, TypeOK, Shape, EntryShape,
      ReadShape
  <1>9. CASE Decide
    BY <1>9 DEF Decide, Idle, Decidable, SetEntry, Load, Status, Restored, record, threads,
      TypeOK, Shape, EntryShape, ReadShape
  <1>10. ASSUME NEW w \in Worker, Rework(w) PROVE ReadShape'
    BY <1>10 DEF Rework, Submit, record, counters, TypeOK, Shape, EntryShape, ReadShape
  <1>11. CASE ApproveMem
    BY <1>11 DEF ApproveMem, record, threads, counters, history, TypeOK, Shape, EntryShape,
      ReadShape
  <1>12. CASE ApproveDb
    BY <1>12 DEF ApproveDb, entry, threads, counters, TypeOK, Shape, EntryShape, ReadShape
  <1>13. CASE Edit
    BY <1>13 DEF Edit, Idle, SetEntry, Status, Report, Restored, NoReport, record, threads,
      TypeOK, Shape, EntryShape, ReadShape
  <1>14. CASE EditDb
    BY <1>14 DEF EditDb, entry, threads, counters, history, TypeOK, Shape, EntryShape,
      ReadShape
  <1>15. ASSUME NEW w \in Worker, Begin(w) PROVE ReadShape'
    BY <1>15 DEF Begin, Check, Step, entry, record, Handlers, counters, history, TypeOK,
      Shape, EntryShape, ReadShape
  <1>16. ASSUME NEW w \in Worker, Resolve(w) PROVE ReadShape'
    BY <1>16 DEF Resolve, Step, record, Handlers, counters, history, TypeOK, Shape,
      EntryShape, ReadShape
  <1>17. ASSUME NEW w \in Worker, Title(w) PROVE ReadShape'
    BY <1>17 DEF Title, Step, entry, Handlers, counters, history, TypeOK, Shape, EntryShape,
      ReadShape
  <1>18. ASSUME NEW w \in Worker, BeforeGraph(w) PROVE ReadShape'
    BY <1>18 DEF BeforeGraph, Check, Step, entry, record, Handlers, counters, history,
      TypeOK, Shape, EntryShape, ReadShape
  <1>19. ASSUME NEW w \in Worker, Event(w) PROVE ReadShape'
    BY SMTT(30), <1>19 DEF Event, Check, Step, record, Handlers, counters, history, TypeOK, Shape,
      EntryShape, ReadShape
  <1>20. ASSUME NEW w \in Worker, EventCancelled(w) PROVE ReadShape'
    BY <1>20 DEF EventCancelled, Check, Step, entry, record, Handlers, counters, history,
      TypeOK, Shape, EntryShape, ReadShape
  <1>21. ASSUME NEW w \in Worker, SaveNode(w) PROVE ReadShape'
    BY <1>21 DEF SaveNode, Step, entry, Handlers, counters, history, TypeOK, Shape,
      EntryShape, ReadShape
  <1>22. ASSUME NEW w \in Worker, GraphEnds(w) PROVE ReadShape'
    BY <1>22 DEF GraphEnds, Step, entry, record, Handlers, counters, history, NoReport,
      TypeOK, Shape, EntryShape, ReadShape
  <1>23. ASSUME NEW w \in Worker, GraphRaises(w) PROVE ReadShape'
    BY <1>23 DEF GraphRaises, Step, entry, record, Handlers, counters, history, TypeOK,
      Shape, EntryShape, ReadShape
  <1>24. ASSUME NEW w \in Worker, FailMem(w) PROVE ReadShape'
    BY <1>24 DEF FailMem, Step, record, Handlers, counters, history, TypeOK, Shape,
      EntryShape, ReadShape
  <1>25. ASSUME NEW w \in Worker, FailDb(w) PROVE ReadShape'
    BY <1>25 DEF FailDb, Step, entry, Handlers, counters, history, NoReport, TypeOK, Shape,
      EntryShape, ReadShape
  <1>26. ASSUME NEW w \in Worker, DoneMem(w) PROVE ReadShape'
    BY <1>26 DEF DoneMem, Step, record, Handlers, counters, history, TypeOK, Shape,
      EntryShape, ReadShape
  <1>27. ASSUME NEW w \in Worker, DoneDb(w) PROVE ReadShape'
    BY <1>27 DEF DoneDb, Step, entry, Handlers, counters, history, TypeOK, Shape,
      EntryShape, ReadShape
  <1>28. ASSUME NEW w \in Worker, InitialVersion(w) PROVE ReadShape'
    BY <1>28 DEF InitialVersion, Step, entry, Handlers, counters, history, NoReport, TypeOK,
      Shape, EntryShape, ReadShape
  <1>29. ASSUME NEW w \in Worker, ReBegin(w) PROVE ReadShape'
    BY <1>29 DEF ReBegin, StopIfCancelled, Step, entry, record, Handlers, counters, history,
      TypeOK, Shape, EntryShape, ReadShape
  <1>30. ASSUME NEW w \in Worker, ReRun(w) PROVE ReadShape'
    BY <1>30 DEF ReRun, Step, record, Handlers, counters, history, TypeOK, Shape,
      EntryShape, ReadShape
  <1>31. ASSUME NEW w \in Worker, ReCheck(w) PROVE ReadShape'
    BY <1>31 DEF ReCheck, StopIfCancelled, Step, record, Handlers, counters, history,
      TypeOK, Shape, EntryShape, ReadShape
  <1>32. ASSUME NEW w \in Worker, ReNode(w) PROVE ReadShape'
    BY <1>32 DEF ReNode, StopIfCancelled, Step, entry, record, Handlers, counters, history,
      TypeOK, Shape, EntryShape, ReadShape
  <1>33. ASSUME NEW w \in Worker, ReNodeDone(w) PROVE ReadShape'
    BY SMTT(30), <1>33 DEF ReNodeDone, StopIfCancelled, Step, record, Handlers, counters, history,
      TypeOK, Shape, EntryShape, ReadShape
  <1>34. ASSUME NEW w \in Worker, ReFails(w) PROVE ReadShape'
    BY <1>34 DEF ReFails, Step, record, Handlers, counters, history, TypeOK, Shape,
      EntryShape, ReadShape
  <1>35. ASSUME NEW w \in Worker, ReDone(w) PROVE ReadShape'
    BY <1>35 DEF ReDone, Step, record, Handlers, counters, history, TypeOK, Shape,
      EntryShape, ReadShape
  <1>36. ASSUME NEW w \in Worker, ReVersion(w) PROVE ReadShape'
    BY <1>36 DEF ReVersion, Step, entry, Handlers, counters, history, NoReport, TypeOK,
      Shape, EntryShape, ReadShape
  <1>37. ASSUME NEW w \in Worker, FinalizeMem(w) PROVE ReadShape'
    BY <1>37 DEF FinalizeMem, Step, record, Handlers, counters, history, TypeOK, Shape,
      EntryShape, ReadShape
  <1>38. ASSUME NEW w \in Worker, FinalizeDb(w) PROVE ReadShape'
    BY <1>38 DEF FinalizeDb, Step, entry, Handlers, counters, history, TypeOK, Shape,
      EntryShape, ReadShape
  <1>39. CASE Restart
    BY <1>39 DEF Restart, record, TypeOK, Shape, EntryShape, ReadShape
  <1> QED
    BY <1>0, <1>1, <1>2, <1>3, <1>4, <1>5, <1>6, <1>7, <1>8, <1>9, <1>10, <1>11, <1>12,
      <1>13, <1>14, <1>15, <1>16, <1>17, <1>18, <1>19, <1>20, <1>21, <1>22, <1>23, <1>24,
      <1>25, <1>26, <1>27, <1>28, <1>29, <1>30, <1>31, <1>32, <1>33, <1>34, <1>35, <1>36,
      <1>37, <1>38, <1>39 DEF Next, EndpointStep, WorkerStep, GraphStep, RerunStep

\* A worker's own report or dict is there where the worker needs it.
LEMMA OwnStep ==
  ASSUME Shape, [Next]_vars PROVE OwnShape'
  <1>0. CASE UNCHANGED vars
    BY <1>0 DEF vars, entry, record, threads, counters, history, TypeOK, Shape, EntryShape,
      OwnShape, Alive
  <1>1. CASE Analyze
    BY <1>1 DEF Analyze, Idle, counters, history, threads, NoReport, TypeOK, Shape,
      EntryShape, OwnShape, Alive
  <1>2. CASE Confirm
    BY <1>2 DEF Confirm, Idle, SetEntry, Load, Status, Restored, record, threads, counters,
      TypeOK, Shape, EntryShape, OwnShape, Alive
  <1>3. CASE Claim
    BY <1>3 DEF Claim, entry, threads, counters, history, TypeOK, Shape, EntryShape,
      OwnShape, Alive
  <1>4. ASSUME NEW w \in Worker, StartWorker(w) PROVE OwnShape'
    BY <1>4 DEF StartWorker, Submit, record, counters, TypeOK, Shape, EntryShape, OwnShape,
      Alive
  <1>5. CASE StartFails
    BY <1>5 DEF StartFails, record, threads, history, TypeOK, Shape, EntryShape, OwnShape,
      Alive
  <1>6. CASE Cancel
    BY <1>6 DEF Cancel, Idle, SetEntry, Load, Status, Restored, record, threads, counters,
      TypeOK, Shape, EntryShape, OwnShape, Alive
  <1>7. CASE CancelMem
    BY <1>7 DEF CancelMem, record, threads, counters, history, TypeOK, Shape, EntryShape,
      OwnShape, Alive
  <1>8. CASE CancelDb
    BY <1>8 DEF CancelDb, entry, threads, counters, history, TypeOK, Shape, EntryShape,
      OwnShape, Alive
  <1>9. CASE Decide
    BY <1>9 DEF Decide, Idle, Decidable, SetEntry, Load, Status, Restored, record, threads,
      TypeOK, Shape, EntryShape, OwnShape, Alive
  <1>10. ASSUME NEW w \in Worker, Rework(w) PROVE OwnShape'
    BY <1>10 DEF Rework, Submit, record, counters, TypeOK, Shape, EntryShape, OwnShape,
      Alive
  <1>11. CASE ApproveMem
    BY <1>11 DEF ApproveMem, record, threads, counters, history, TypeOK, Shape, EntryShape,
      OwnShape, Alive
  <1>12. CASE ApproveDb
    BY <1>12 DEF ApproveDb, entry, threads, counters, TypeOK, Shape, EntryShape, OwnShape,
      Alive
  <1>13. CASE Edit
    <2> USE <1>13
    <2>1. CASE mem = "absent"
      <3>1. \A w \in Worker : pc[w] = "none"
        BY <2>1 DEF Shape, EntryShape, Alive
      <3> QED
        BY <3>1 DEF Edit, threads, Shape, OwnShape
    <2>2. CASE mem # "absent"
      BY <2>2, EditHeap DEF Edit, threads, Shape, TypeOK, OwnShape
    <2> QED
      BY <2>1, <2>2
  <1>14. CASE EditDb
    BY <1>14 DEF EditDb, entry, threads, counters, history, TypeOK, Shape, EntryShape,
      OwnShape, Alive
  <1>15. ASSUME NEW w \in Worker, Begin(w) PROVE OwnShape'
    BY <1>15 DEF Begin, Check, Step, entry, record, Handlers, counters, history, TypeOK,
      Shape, EntryShape, OwnShape, Alive
  <1>16. ASSUME NEW w \in Worker, Resolve(w) PROVE OwnShape'
    BY <1>16 DEF Resolve, Step, record, Handlers, counters, history, TypeOK, Shape,
      EntryShape, OwnShape, Alive
  <1>17. ASSUME NEW w \in Worker, Title(w) PROVE OwnShape'
    BY <1>17 DEF Title, Step, entry, Handlers, counters, history, TypeOK, Shape, EntryShape,
      OwnShape, Alive
  <1>18. ASSUME NEW w \in Worker, BeforeGraph(w) PROVE OwnShape'
    BY SMTT(30), <1>18 DEF BeforeGraph, Check, Step, entry, record, Handlers, counters, history,
      TypeOK, Shape, EntryShape, OwnShape, Alive
  <1>19. ASSUME NEW w \in Worker, Event(w) PROVE OwnShape'
    <2> USE <1>19
    <2>1. pc' = [pc EXCEPT ![w] = "save"] /\ pc[w] = "node" /\ left' = [left EXCEPT ![w] = left[w] - 1]
      BY DEF Event, Check, Step
    <2>2. Len(heap') = Len(heap) + 1 /\ Len(heap) \in Nat /\ made <= made' /\ own'[w] <= made' /\ made' \in Nat
      BY SMTT(30), EventHeap DEF Shape, TypeOK
    <2>3. ASSUME NEW v \in Worker, v # w PROVE pc'[v] = pc[v] /\ left'[v] = left[v] /\ own'[v] = own[v]
      BY <2>1, <2>3, EventHeap DEF Shape, TypeOK
    <2>4. OwnShape /\ pc'[w] = "save" /\ own \in [Worker -> Nat]
      BY <2>1 DEF Shape, TypeOK
    <2>5. \A v \in Worker : v # w =>
            /\ own[v] <= made => own[v] <= made'
            /\ own[v] <= Len(heap) => own[v] <= Len(heap')
            /\ own[v] \in 1 .. Len(heap) => own[v] \in 1 .. Len(heap')
      BY SMTT(30), <2>2, <2>4 DEF Shape, TypeOK
    <2> QED
      BY <2>2, <2>3, <2>4, <2>5 DEF OwnShape
  <1>20. ASSUME NEW w \in Worker, EventCancelled(w) PROVE OwnShape'
    BY <1>20 DEF EventCancelled, Check, Step, entry, record, Handlers, counters, history,
      TypeOK, Shape, EntryShape, OwnShape, Alive
  <1>21. ASSUME NEW w \in Worker, SaveNode(w) PROVE OwnShape'
    BY <1>21 DEF SaveNode, Step, entry, Handlers, counters, history, TypeOK, Shape,
      EntryShape, OwnShape, Alive
  <1>22. ASSUME NEW w \in Worker, GraphEnds(w) PROVE OwnShape'
    <2> USE <1>22
    <2>1. cur \in 1 .. Len(heap) /\ UNCHANGED <<heap, left, made>>
      BY DEF GraphEnds, Step, entry, Shape, EntryShape, Alive
    <2>2. pc'[w] \in {"failMem", "end"} /\ own'[w] = cur
      BY DEF GraphEnds, Step, Shape, TypeOK
    <2>3. \A v \in Worker : v # w => pc'[v] = pc[v] /\ own'[v] = own[v]
      BY DEF GraphEnds, Step, Shape, TypeOK
    <2>4. OwnShape
      BY DEF Shape
    <2> QED
      BY <2>1, <2>2, <2>3, <2>4 DEF OwnShape
  <1>23. ASSUME NEW w \in Worker, GraphRaises(w) PROVE OwnShape'
    BY <1>23 DEF GraphRaises, Step, entry, record, Handlers, counters, history, TypeOK,
      Shape, EntryShape, OwnShape, Alive
  <1>24. ASSUME NEW w \in Worker, FailMem(w) PROVE OwnShape'
    BY <1>24 DEF FailMem, Step, record, Handlers, counters, history, TypeOK, Shape,
      EntryShape, OwnShape, Alive
  <1>25. ASSUME NEW w \in Worker, FailDb(w) PROVE OwnShape'
    BY <1>25 DEF FailDb, Step, entry, Handlers, counters, history, NoReport, TypeOK, Shape,
      EntryShape, OwnShape, Alive
  <1>26. ASSUME NEW w \in Worker, DoneMem(w) PROVE OwnShape'
    BY <1>26 DEF DoneMem, Step, record, Handlers, counters, history, TypeOK, Shape,
      EntryShape, OwnShape, Alive
  <1>27. ASSUME NEW w \in Worker, DoneDb(w) PROVE OwnShape'
    BY <1>27 DEF DoneDb, Step, entry, Handlers, counters, history, TypeOK, Shape,
      EntryShape, OwnShape, Alive
  <1>28. ASSUME NEW w \in Worker, InitialVersion(w) PROVE OwnShape'
    BY <1>28 DEF InitialVersion, Step, entry, Handlers, counters, history, NoReport, TypeOK,
      Shape, EntryShape, OwnShape, Alive
  <1>29. ASSUME NEW w \in Worker, ReBegin(w) PROVE OwnShape'
    BY <1>29 DEF ReBegin, StopIfCancelled, Step, entry, record, Handlers, counters, history,
      TypeOK, Shape, EntryShape, OwnShape, Alive
  <1>30. ASSUME NEW w \in Worker, ReRun(w) PROVE OwnShape'
    BY <1>30 DEF ReRun, Step, record, Handlers, counters, history, TypeOK, Shape,
      EntryShape, OwnShape, Alive
  <1>31. ASSUME NEW w \in Worker, ReCheck(w) PROVE OwnShape'
    BY <1>31 DEF ReCheck, StopIfCancelled, Step, record, Handlers, counters, history,
      TypeOK, Shape, EntryShape, OwnShape, Alive
  <1>32. ASSUME NEW w \in Worker, ReNode(w) PROVE OwnShape'
    BY <1>32 DEF ReNode, StopIfCancelled, Step, entry, record, Handlers, counters, history,
      TypeOK, Shape, EntryShape, OwnShape, Alive
  <1>33. ASSUME NEW w \in Worker, ReNodeDone(w) PROVE OwnShape'
    <2> USE <1>33
    <2>1. Len(heap') = Len(heap) /\ made' \in Nat /\ made <= made' /\ made \in Nat /\ own \in [Worker -> Nat]
      BY NodeHeap DEF Shape, TypeOK
    <2>2. OwnShape
      BY DEF Shape
    <2> QED
      BY <2>1, <2>2, NodeGoes DEF OwnShape
  <1>34. ASSUME NEW w \in Worker, ReFails(w) PROVE OwnShape'
    BY <1>34 DEF ReFails, Step, record, Handlers, counters, history, TypeOK, Shape,
      EntryShape, OwnShape, Alive
  <1>35. ASSUME NEW w \in Worker, ReDone(w) PROVE OwnShape'
    BY <1>35 DEF ReDone, Step, record, Handlers, counters, history, TypeOK, Shape,
      EntryShape, OwnShape, Alive
  <1>36. ASSUME NEW w \in Worker, ReVersion(w) PROVE OwnShape'
    BY <1>36 DEF ReVersion, Step, entry, Handlers, counters, history, NoReport, TypeOK,
      Shape, EntryShape, OwnShape, Alive
  <1>37. ASSUME NEW w \in Worker, FinalizeMem(w) PROVE OwnShape'
    BY <1>37 DEF FinalizeMem, Step, record, Handlers, counters, history, TypeOK, Shape,
      EntryShape, OwnShape, Alive
  <1>38. ASSUME NEW w \in Worker, FinalizeDb(w) PROVE OwnShape'
    BY <1>38 DEF FinalizeDb, Step, entry, Handlers, counters, history, TypeOK, Shape,
      EntryShape, OwnShape, Alive
  <1>39. CASE Restart
    BY <1>39 DEF Restart, record, TypeOK, Shape, EntryShape, OwnShape, Alive
  <1> QED
    BY <1>0, <1>1, <1>2, <1>3, <1>4, <1>5, <1>6, <1>7, <1>8, <1>9, <1>10, <1>11, <1>12,
      <1>13, <1>14, <1>15, <1>16, <1>17, <1>18, <1>19, <1>20, <1>21, <1>22, <1>23, <1>24,
      <1>25, <1>26, <1>27, <1>28, <1>29, <1>30, <1>31, <1>32, <1>33, <1>34, <1>35, <1>36,
      <1>37, <1>38, <1>39 DEF Next, EndpointStep, WorkerStep, GraphStep, RerunStep

\* claim_analysis_start is a compare-and-swap, and nothing sets a row back to waiting.
LEMMA ClaimedStep ==
  ASSUME Shape, Claimed, starts <= 1, [Next]_vars PROVE (Claimed /\ starts <= 1)'
  <1>0. CASE UNCHANGED vars
    BY <1>0 DEF vars, entry, record, threads, counters, history, TypeOK, Shape, EntryShape,
      Claimed
  <1>1. CASE Analyze
    BY <1>1 DEF Analyze, Idle, counters, history, threads, NoReport, TypeOK, Shape,
      EntryShape, Claimed
  <1>2. CASE Confirm
    BY <1>2 DEF Confirm, Idle, SetEntry, Load, Status, Restored, record, threads, counters,
      TypeOK, Shape, EntryShape, Claimed
  <1>3. CASE Claim
    BY <1>3 DEF Claim, entry, threads, counters, history, TypeOK, Shape, EntryShape, Claimed
  <1>4. ASSUME NEW w \in Worker, StartWorker(w) PROVE (Claimed /\ starts <= 1)'
    BY <1>4 DEF StartWorker, Submit, record, counters, TypeOK, Shape, EntryShape, Claimed
  <1>5. CASE StartFails
    BY <1>5 DEF StartFails, record, threads, history, TypeOK, Shape, EntryShape, Claimed
  <1>6. CASE Cancel
    BY <1>6 DEF Cancel, Idle, SetEntry, Load, Status, Restored, record, threads, counters,
      TypeOK, Shape, EntryShape, Claimed
  <1>7. CASE CancelMem
    BY <1>7 DEF CancelMem, record, threads, counters, history, TypeOK, Shape, EntryShape,
      Claimed
  <1>8. CASE CancelDb
    BY <1>8 DEF CancelDb, entry, threads, counters, history, TypeOK, Shape, EntryShape,
      Claimed
  <1>9. CASE Decide
    BY <1>9 DEF Decide, Idle, Decidable, SetEntry, Load, Status, Restored, record, threads,
      TypeOK, Shape, EntryShape, Claimed
  <1>10. ASSUME NEW w \in Worker, Rework(w) PROVE (Claimed /\ starts <= 1)'
    BY <1>10 DEF Rework, Submit, record, counters, TypeOK, Shape, EntryShape, Claimed
  <1>11. CASE ApproveMem
    BY <1>11 DEF ApproveMem, record, threads, counters, history, TypeOK, Shape, EntryShape,
      Claimed
  <1>12. CASE ApproveDb
    BY <1>12 DEF ApproveDb, entry, threads, counters, TypeOK, Shape, EntryShape, Claimed
  <1>13. CASE Edit
    BY <1>13 DEF Edit, Idle, SetEntry, Status, Report, Restored, NoReport, record, threads,
      TypeOK, Shape, EntryShape, Claimed
  <1>14. CASE EditDb
    BY <1>14 DEF EditDb, entry, threads, counters, history, TypeOK, Shape, EntryShape,
      Claimed
  <1>15. ASSUME NEW w \in Worker, Begin(w) PROVE (Claimed /\ starts <= 1)'
    BY <1>15 DEF Begin, Check, Step, entry, record, Handlers, counters, history, TypeOK,
      Shape, EntryShape, Claimed
  <1>16. ASSUME NEW w \in Worker, Resolve(w) PROVE (Claimed /\ starts <= 1)'
    BY <1>16 DEF Resolve, Step, record, Handlers, counters, history, TypeOK, Shape,
      EntryShape, Claimed
  <1>17. ASSUME NEW w \in Worker, Title(w) PROVE (Claimed /\ starts <= 1)'
    BY <1>17 DEF Title, Step, entry, Handlers, counters, history, TypeOK, Shape, EntryShape,
      Claimed
  <1>18. ASSUME NEW w \in Worker, BeforeGraph(w) PROVE (Claimed /\ starts <= 1)'
    BY <1>18 DEF BeforeGraph, Check, Step, entry, record, Handlers, counters, history,
      TypeOK, Shape, EntryShape, Claimed
  <1>19. ASSUME NEW w \in Worker, Event(w) PROVE (Claimed /\ starts <= 1)'
    BY <1>19 DEF Event, Check, Step, record, Handlers, counters, history, TypeOK, Shape,
      EntryShape, Claimed
  <1>20. ASSUME NEW w \in Worker, EventCancelled(w) PROVE (Claimed /\ starts <= 1)'
    BY <1>20 DEF EventCancelled, Check, Step, entry, record, Handlers, counters, history,
      TypeOK, Shape, EntryShape, Claimed
  <1>21. ASSUME NEW w \in Worker, SaveNode(w) PROVE (Claimed /\ starts <= 1)'
    BY <1>21 DEF SaveNode, Step, entry, Handlers, counters, history, TypeOK, Shape,
      EntryShape, Claimed
  <1>22. ASSUME NEW w \in Worker, GraphEnds(w) PROVE (Claimed /\ starts <= 1)'
    BY <1>22 DEF GraphEnds, Step, entry, record, Handlers, counters, history, NoReport,
      TypeOK, Shape, EntryShape, Claimed
  <1>23. ASSUME NEW w \in Worker, GraphRaises(w) PROVE (Claimed /\ starts <= 1)'
    BY <1>23 DEF GraphRaises, Step, entry, record, Handlers, counters, history, TypeOK,
      Shape, EntryShape, Claimed
  <1>24. ASSUME NEW w \in Worker, FailMem(w) PROVE (Claimed /\ starts <= 1)'
    BY <1>24 DEF FailMem, Step, record, Handlers, counters, history, TypeOK, Shape,
      EntryShape, Claimed
  <1>25. ASSUME NEW w \in Worker, FailDb(w) PROVE (Claimed /\ starts <= 1)'
    BY <1>25 DEF FailDb, Step, entry, Handlers, counters, history, NoReport, TypeOK, Shape,
      EntryShape, Claimed
  <1>26. ASSUME NEW w \in Worker, DoneMem(w) PROVE (Claimed /\ starts <= 1)'
    BY <1>26 DEF DoneMem, Step, record, Handlers, counters, history, TypeOK, Shape,
      EntryShape, Claimed
  <1>27. ASSUME NEW w \in Worker, DoneDb(w) PROVE (Claimed /\ starts <= 1)'
    BY <1>27 DEF DoneDb, Step, entry, Handlers, counters, history, TypeOK, Shape,
      EntryShape, Claimed
  <1>28. ASSUME NEW w \in Worker, InitialVersion(w) PROVE (Claimed /\ starts <= 1)'
    BY <1>28 DEF InitialVersion, Step, entry, Handlers, counters, history, NoReport, TypeOK,
      Shape, EntryShape, Claimed
  <1>29. ASSUME NEW w \in Worker, ReBegin(w) PROVE (Claimed /\ starts <= 1)'
    BY <1>29 DEF ReBegin, StopIfCancelled, Step, entry, record, Handlers, counters, history,
      TypeOK, Shape, EntryShape, Claimed
  <1>30. ASSUME NEW w \in Worker, ReRun(w) PROVE (Claimed /\ starts <= 1)'
    BY <1>30 DEF ReRun, Step, record, Handlers, counters, history, TypeOK, Shape,
      EntryShape, Claimed
  <1>31. ASSUME NEW w \in Worker, ReCheck(w) PROVE (Claimed /\ starts <= 1)'
    BY <1>31 DEF ReCheck, StopIfCancelled, Step, record, Handlers, counters, history,
      TypeOK, Shape, EntryShape, Claimed
  <1>32. ASSUME NEW w \in Worker, ReNode(w) PROVE (Claimed /\ starts <= 1)'
    BY <1>32 DEF ReNode, StopIfCancelled, Step, entry, record, Handlers, counters, history,
      TypeOK, Shape, EntryShape, Claimed
  <1>33. ASSUME NEW w \in Worker, ReNodeDone(w) PROVE (Claimed /\ starts <= 1)'
    BY <1>33 DEF ReNodeDone, StopIfCancelled, Step, record, Handlers, counters, history,
      TypeOK, Shape, EntryShape, Claimed
  <1>34. ASSUME NEW w \in Worker, ReFails(w) PROVE (Claimed /\ starts <= 1)'
    BY <1>34 DEF ReFails, Step, record, Handlers, counters, history, TypeOK, Shape,
      EntryShape, Claimed
  <1>35. ASSUME NEW w \in Worker, ReDone(w) PROVE (Claimed /\ starts <= 1)'
    BY <1>35 DEF ReDone, Step, record, Handlers, counters, history, TypeOK, Shape,
      EntryShape, Claimed
  <1>36. ASSUME NEW w \in Worker, ReVersion(w) PROVE (Claimed /\ starts <= 1)'
    BY <1>36 DEF ReVersion, Step, entry, Handlers, counters, history, NoReport, TypeOK,
      Shape, EntryShape, Claimed
  <1>37. ASSUME NEW w \in Worker, FinalizeMem(w) PROVE (Claimed /\ starts <= 1)'
    BY <1>37 DEF FinalizeMem, Step, record, Handlers, counters, history, TypeOK, Shape,
      EntryShape, Claimed
  <1>38. ASSUME NEW w \in Worker, FinalizeDb(w) PROVE (Claimed /\ starts <= 1)'
    BY <1>38 DEF FinalizeDb, Step, entry, Handlers, counters, history, TypeOK, Shape,
      EntryShape, Claimed
  <1>39. CASE Restart
    BY <1>39 DEF Restart, record, TypeOK, Shape, EntryShape, Claimed
  <1> QED
    BY <1>0, <1>1, <1>2, <1>3, <1>4, <1>5, <1>6, <1>7, <1>8, <1>9, <1>10, <1>11, <1>12,
      <1>13, <1>14, <1>15, <1>16, <1>17, <1>18, <1>19, <1>20, <1>21, <1>22, <1>23, <1>24,
      <1>25, <1>26, <1>27, <1>28, <1>29, <1>30, <1>31, <1>32, <1>33, <1>34, <1>35, <1>36,
      <1>37, <1>38, <1>39 DEF Next, EndpointStep, WorkerStep, GraphStep, RerunStep

\* Every path of a worker writes the status of the entry before the worker ends.
LEMMA WriterStep ==
  ASSUME Shape, WriterAhead, [Next]_vars PROVE WriterAhead'
  <1>0. CASE UNCHANGED vars
    BY <1>0 DEF vars, entry, record, threads, counters, history, TypeOK, Shape, WriterAhead,
      Writes, PCs, Graph, Rerun, Finalize, EntryShape, Alive
  <1>1. CASE Analyze
    BY <1>1 DEF Analyze, Idle, counters, history, threads, NoReport, TypeOK, Shape,
      WriterAhead, Writes, PCs, Graph, Rerun, Finalize, EntryShape, Alive
  <1>2. CASE Confirm
    BY <1>2 DEF Confirm, Idle, SetEntry, Load, Status, Restored, record, threads, counters,
      TypeOK, Shape, WriterAhead, Writes, PCs, Graph, Rerun, Finalize, EntryShape, Alive
  <1>3. CASE Claim
    BY <1>3 DEF Claim, entry, threads, counters, history, TypeOK, Shape, WriterAhead,
      Writes, PCs, Graph, Rerun, Finalize, EntryShape, Alive
  <1>4. ASSUME NEW w \in Worker, StartWorker(w) PROVE WriterAhead'
    BY <1>4 DEF StartWorker, Submit, record, counters, TypeOK, Shape, WriterAhead, Writes,
      PCs, Graph, Rerun, Finalize, EntryShape, Alive
  <1>5. CASE StartFails
    BY <1>5 DEF StartFails, record, threads, history, TypeOK, Shape, WriterAhead, Writes,
      PCs, Graph, Rerun, Finalize, EntryShape, Alive
  <1>6. CASE Cancel
    BY <1>6 DEF Cancel, Idle, SetEntry, Load, Status, Restored, record, threads, counters,
      TypeOK, Shape, WriterAhead, Writes, PCs, Graph, Rerun, Finalize, EntryShape, Alive
  <1>7. CASE CancelMem
    BY <1>7 DEF CancelMem, record, threads, counters, history, TypeOK, Shape, WriterAhead,
      Writes, PCs, Graph, Rerun, Finalize, EntryShape, Alive
  <1>8. CASE CancelDb
    BY <1>8 DEF CancelDb, entry, threads, counters, history, TypeOK, Shape, WriterAhead,
      Writes, PCs, Graph, Rerun, Finalize, EntryShape, Alive
  <1>9. CASE Decide
    BY <1>9 DEF Decide, Idle, Decidable, SetEntry, Load, Status, Restored, record, threads,
      TypeOK, Shape, WriterAhead, Writes, PCs, Graph, Rerun, Finalize, EntryShape, Alive
  <1>10. ASSUME NEW w \in Worker, Rework(w) PROVE WriterAhead'
    BY <1>10 DEF Rework, Submit, record, counters, TypeOK, Shape, WriterAhead, Writes, PCs,
      Graph, Rerun, Finalize, EntryShape, Alive
  <1>11. CASE ApproveMem
    BY <1>11 DEF ApproveMem, record, threads, counters, history, TypeOK, Shape, WriterAhead,
      Writes, PCs, Graph, Rerun, Finalize, EntryShape, Alive
  <1>12. CASE ApproveDb
    BY <1>12 DEF ApproveDb, entry, threads, counters, TypeOK, Shape, WriterAhead, Writes,
      PCs, Graph, Rerun, Finalize, EntryShape, Alive
  <1>13. CASE Edit
    BY <1>13 DEF Edit, Idle, SetEntry, Status, Report, Restored, NoReport, record, threads,
      TypeOK, Shape, WriterAhead, Writes, PCs, Graph, Rerun, Finalize, EntryShape, Alive
  <1>14. CASE EditDb
    BY <1>14 DEF EditDb, entry, threads, counters, history, TypeOK, Shape, WriterAhead,
      Writes, PCs, Graph, Rerun, Finalize, EntryShape, Alive
  <1>15. ASSUME NEW w \in Worker, Begin(w) PROVE WriterAhead'
    BY <1>15 DEF Begin, Check, Step, entry, record, Handlers, counters, history, TypeOK,
      Shape, WriterAhead, Writes, PCs, Graph, Rerun, Finalize, EntryShape, Alive
  <1>16. ASSUME NEW w \in Worker, Resolve(w) PROVE WriterAhead'
    BY <1>16 DEF Resolve, Step, record, Handlers, counters, history, TypeOK, Shape,
      WriterAhead, Writes, PCs, Graph, Rerun, Finalize, EntryShape, Alive
  <1>17. ASSUME NEW w \in Worker, Title(w) PROVE WriterAhead'
    BY <1>17 DEF Title, Step, entry, Handlers, counters, history, TypeOK, Shape,
      WriterAhead, Writes, PCs, Graph, Rerun, Finalize, EntryShape, Alive
  <1>18. ASSUME NEW w \in Worker, BeforeGraph(w) PROVE WriterAhead'
    BY <1>18 DEF BeforeGraph, Check, Step, entry, record, Handlers, counters, history,
      TypeOK, Shape, WriterAhead, Writes, PCs, Graph, Rerun, Finalize, EntryShape, Alive
  <1>19. ASSUME NEW w \in Worker, Event(w) PROVE WriterAhead'
    BY <1>19 DEF Event, Check, Step, record, Handlers, counters, history, TypeOK, Shape,
      WriterAhead, Writes, PCs, Graph, Rerun, Finalize, EntryShape, Alive
  <1>20. ASSUME NEW w \in Worker, EventCancelled(w) PROVE WriterAhead'
    BY <1>20 DEF EventCancelled, Check, Step, entry, record, Handlers, counters, history,
      TypeOK, Shape, WriterAhead, Writes, PCs, Graph, Rerun, Finalize, EntryShape, Alive
  <1>21. ASSUME NEW w \in Worker, SaveNode(w) PROVE WriterAhead'
    BY <1>21 DEF SaveNode, Step, entry, Handlers, counters, history, TypeOK, Shape,
      WriterAhead, Writes, PCs, Graph, Rerun, Finalize, EntryShape, Alive
  <1>22. ASSUME NEW w \in Worker, GraphEnds(w) PROVE WriterAhead'
    BY <1>22 DEF GraphEnds, Step, entry, record, Handlers, counters, history, NoReport,
      TypeOK, Shape, WriterAhead, Writes, PCs, Graph, Rerun, Finalize, EntryShape, Alive
  <1>23. ASSUME NEW w \in Worker, GraphRaises(w) PROVE WriterAhead'
    BY <1>23 DEF GraphRaises, Step, entry, record, Handlers, counters, history, TypeOK,
      Shape, WriterAhead, Writes, PCs, Graph, Rerun, Finalize, EntryShape, Alive
  <1>24. ASSUME NEW w \in Worker, FailMem(w) PROVE WriterAhead'
    BY <1>24 DEF FailMem, Step, record, Handlers, counters, history, TypeOK, Shape,
      WriterAhead, Writes, PCs, Graph, Rerun, Finalize, EntryShape, Alive
  <1>25. ASSUME NEW w \in Worker, FailDb(w) PROVE WriterAhead'
    BY <1>25 DEF FailDb, Step, entry, Handlers, counters, history, NoReport, TypeOK, Shape,
      WriterAhead, Writes, PCs, Graph, Rerun, Finalize, EntryShape, Alive
  <1>26. ASSUME NEW w \in Worker, DoneMem(w) PROVE WriterAhead'
    BY <1>26 DEF DoneMem, Step, record, Handlers, counters, history, TypeOK, Shape,
      WriterAhead, Writes, PCs, Graph, Rerun, Finalize, EntryShape, Alive
  <1>27. ASSUME NEW w \in Worker, DoneDb(w) PROVE WriterAhead'
    BY <1>27 DEF DoneDb, Step, entry, Handlers, counters, history, TypeOK, Shape,
      WriterAhead, Writes, PCs, Graph, Rerun, Finalize, EntryShape, Alive
  <1>28. ASSUME NEW w \in Worker, InitialVersion(w) PROVE WriterAhead'
    BY <1>28 DEF InitialVersion, Step, entry, Handlers, counters, history, NoReport, TypeOK,
      Shape, WriterAhead, Writes, PCs, Graph, Rerun, Finalize, EntryShape, Alive
  <1>29. ASSUME NEW w \in Worker, ReBegin(w) PROVE WriterAhead'
    BY <1>29 DEF ReBegin, StopIfCancelled, Step, entry, record, Handlers, counters, history,
      TypeOK, Shape, WriterAhead, Writes, PCs, Graph, Rerun, Finalize, EntryShape, Alive
  <1>30. ASSUME NEW w \in Worker, ReRun(w) PROVE WriterAhead'
    BY <1>30 DEF ReRun, Step, record, Handlers, counters, history, TypeOK, Shape,
      WriterAhead, Writes, PCs, Graph, Rerun, Finalize, EntryShape, Alive
  <1>31. ASSUME NEW w \in Worker, ReCheck(w) PROVE WriterAhead'
    BY <1>31 DEF ReCheck, StopIfCancelled, Step, record, Handlers, counters, history,
      TypeOK, Shape, WriterAhead, Writes, PCs, Graph, Rerun, Finalize, EntryShape, Alive
  <1>32. ASSUME NEW w \in Worker, ReNode(w) PROVE WriterAhead'
    BY <1>32 DEF ReNode, StopIfCancelled, Step, entry, record, Handlers, counters, history,
      TypeOK, Shape, WriterAhead, Writes, PCs, Graph, Rerun, Finalize, EntryShape, Alive
  <1>33. ASSUME NEW w \in Worker, ReNodeDone(w) PROVE WriterAhead'
    BY <1>33 DEF ReNodeDone, StopIfCancelled, Step, record, Handlers, counters, history,
      TypeOK, Shape, WriterAhead, Writes, PCs, Graph, Rerun, Finalize, EntryShape, Alive
  <1>34. ASSUME NEW w \in Worker, ReFails(w) PROVE WriterAhead'
    BY <1>34 DEF ReFails, Step, record, Handlers, counters, history, TypeOK, Shape,
      WriterAhead, Writes, PCs, Graph, Rerun, Finalize, EntryShape, Alive
  <1>35. ASSUME NEW w \in Worker, ReDone(w) PROVE WriterAhead'
    BY <1>35 DEF ReDone, Step, record, Handlers, counters, history, TypeOK, Shape,
      WriterAhead, Writes, PCs, Graph, Rerun, Finalize, EntryShape, Alive
  <1>36. ASSUME NEW w \in Worker, ReVersion(w) PROVE WriterAhead'
    BY <1>36 DEF ReVersion, Step, entry, Handlers, counters, history, NoReport, TypeOK,
      Shape, WriterAhead, Writes, PCs, Graph, Rerun, Finalize, EntryShape, Alive
  <1>37. ASSUME NEW w \in Worker, FinalizeMem(w) PROVE WriterAhead'
    BY <1>37 DEF FinalizeMem, Step, record, Handlers, counters, history, TypeOK, Shape,
      WriterAhead, Writes, PCs, Graph, Rerun, Finalize, EntryShape, Alive
  <1>38. ASSUME NEW w \in Worker, FinalizeDb(w) PROVE WriterAhead'
    BY <1>38 DEF FinalizeDb, Step, entry, Handlers, counters, history, TypeOK, Shape,
      WriterAhead, Writes, PCs, Graph, Rerun, Finalize, EntryShape, Alive
  <1>39. CASE Restart
    BY <1>39 DEF Restart, record, TypeOK, Shape, WriterAhead, Writes, PCs, Graph, Rerun,
      Finalize, EntryShape, Alive
  <1> QED
    BY <1>0, <1>1, <1>2, <1>3, <1>4, <1>5, <1>6, <1>7, <1>8, <1>9, <1>10, <1>11, <1>12,
      <1>13, <1>14, <1>15, <1>16, <1>17, <1>18, <1>19, <1>20, <1>21, <1>22, <1>23, <1>24,
      <1>25, <1>26, <1>27, <1>28, <1>29, <1>30, <1>31, <1>32, <1>33, <1>34, <1>35, <1>36,
      <1>37, <1>38, <1>39 DEF Next, EndpointStep, WorkerStep, GraphStep, RerunStep

\* No edit or re-analysis takes a report out of a dict.
LEMMA EndReportStep ==
  ASSUME Shape, EndHasReport, [Next]_vars PROVE EndHasReport'
  <1>0. CASE UNCHANGED vars
    BY <1>0 DEF vars, entry, record, threads, counters, history, TypeOK, Shape,
      EndHasReport, NoReport, EntryShape, OwnShape, Alive
  <1>1. CASE Analyze
    BY <1>1 DEF Analyze, Idle, counters, history, threads, NoReport, TypeOK, Shape,
      EndHasReport, EntryShape, OwnShape, Alive
  <1>2. CASE Confirm
    BY <1>2 DEF Confirm, Idle, SetEntry, Load, Status, Restored, record, threads, counters,
      TypeOK, Shape, EndHasReport, NoReport, EntryShape, OwnShape, Alive
  <1>3. CASE Claim
    BY <1>3 DEF Claim, entry, threads, counters, history, TypeOK, Shape, EndHasReport,
      NoReport, EntryShape, OwnShape, Alive
  <1>4. ASSUME NEW w \in Worker, StartWorker(w) PROVE EndHasReport'
    BY <1>4 DEF StartWorker, Submit, record, counters, TypeOK, Shape, EndHasReport,
      NoReport, EntryShape, OwnShape, Alive
  <1>5. CASE StartFails
    BY <1>5 DEF StartFails, record, threads, history, TypeOK, Shape, EndHasReport, NoReport,
      EntryShape, OwnShape, Alive
  <1>6. CASE Cancel
    BY <1>6 DEF Cancel, Idle, SetEntry, Load, Status, Restored, record, threads, counters,
      TypeOK, Shape, EndHasReport, NoReport, EntryShape, OwnShape, Alive
  <1>7. CASE CancelMem
    BY <1>7 DEF CancelMem, record, threads, counters, history, TypeOK, Shape, EndHasReport,
      NoReport, EntryShape, OwnShape, Alive
  <1>8. CASE CancelDb
    BY <1>8 DEF CancelDb, entry, threads, counters, history, TypeOK, Shape, EndHasReport,
      NoReport, EntryShape, OwnShape, Alive
  <1>9. CASE Decide
    BY <1>9 DEF Decide, Idle, Decidable, SetEntry, Load, Status, Restored, record, threads,
      TypeOK, Shape, EndHasReport, NoReport, EntryShape, OwnShape, Alive
  <1>10. ASSUME NEW w \in Worker, Rework(w) PROVE EndHasReport'
    BY <1>10 DEF Rework, Submit, record, counters, TypeOK, Shape, EndHasReport, NoReport,
      EntryShape, OwnShape, Alive
  <1>11. CASE ApproveMem
    BY <1>11 DEF ApproveMem, record, threads, counters, history, TypeOK, Shape,
      EndHasReport, NoReport, EntryShape, OwnShape, Alive
  <1>12. CASE ApproveDb
    BY <1>12 DEF ApproveDb, entry, threads, counters, TypeOK, Shape, EndHasReport, NoReport,
      EntryShape, OwnShape, Alive
  <1>13. CASE Edit
    <2> USE <1>13
    <2>1. CASE mem = "absent"
      <3>1. \A w \in Worker : pc[w] = "none"
        BY <2>1 DEF Shape, EntryShape, Alive
      <3> QED
        BY <3>1 DEF Edit, threads, EndHasReport
    <2>2. CASE mem # "absent"
      <3>1. \A i \in 1 .. Len(heap) : heap'[i] = heap[i] \/ heap'[i] = made + 1
        BY <2>2, EditHeap
      <3>2. made + 1 # NoReport /\ UNCHANGED <<pc, own>>
        BY DEF Edit, threads, Shape, TypeOK, NoReport
      <3> QED
        BY <3>1, <3>2 DEF Shape, OwnShape, EndHasReport
    <2> QED
      BY <2>1, <2>2
  <1>14. CASE EditDb
    BY <1>14 DEF EditDb, entry, threads, counters, history, TypeOK, Shape, EndHasReport,
      NoReport, EntryShape, OwnShape, Alive
  <1>15. ASSUME NEW w \in Worker, Begin(w) PROVE EndHasReport'
    BY <1>15 DEF Begin, Check, Step, entry, record, Handlers, counters, history, TypeOK,
      Shape, EndHasReport, NoReport, EntryShape, OwnShape, Alive
  <1>16. ASSUME NEW w \in Worker, Resolve(w) PROVE EndHasReport'
    BY <1>16 DEF Resolve, Step, record, Handlers, counters, history, TypeOK, Shape,
      EndHasReport, NoReport, EntryShape, OwnShape, Alive
  <1>17. ASSUME NEW w \in Worker, Title(w) PROVE EndHasReport'
    BY <1>17 DEF Title, Step, entry, Handlers, counters, history, TypeOK, Shape,
      EndHasReport, NoReport, EntryShape, OwnShape, Alive
  <1>18. ASSUME NEW w \in Worker, BeforeGraph(w) PROVE EndHasReport'
    BY <1>18 DEF BeforeGraph, Check, Step, entry, record, Handlers, counters, history,
      TypeOK, Shape, EndHasReport, NoReport, EntryShape, OwnShape, Alive
  <1>19. ASSUME NEW w \in Worker, Event(w) PROVE EndHasReport'
    BY SMTT(30), <1>19 DEF Event, Check, Step, record, Handlers, counters, history, TypeOK, Shape,
      EndHasReport, NoReport, EntryShape, OwnShape, Alive
  <1>20. ASSUME NEW w \in Worker, EventCancelled(w) PROVE EndHasReport'
    BY <1>20 DEF EventCancelled, Check, Step, entry, record, Handlers, counters, history,
      TypeOK, Shape, EndHasReport, NoReport, EntryShape, OwnShape, Alive
  <1>21. ASSUME NEW w \in Worker, SaveNode(w) PROVE EndHasReport'
    BY <1>21 DEF SaveNode, Step, entry, Handlers, counters, history, TypeOK, Shape,
      EndHasReport, NoReport, EntryShape, OwnShape, Alive
  <1>22. ASSUME NEW w \in Worker, GraphEnds(w) PROVE EndHasReport'
    BY <1>22 DEF GraphEnds, Step, entry, record, Handlers, counters, history, NoReport,
      TypeOK, Shape, EndHasReport, EntryShape, OwnShape, Alive
  <1>23. ASSUME NEW w \in Worker, GraphRaises(w) PROVE EndHasReport'
    BY <1>23 DEF GraphRaises, Step, entry, record, Handlers, counters, history, TypeOK,
      Shape, EndHasReport, NoReport, EntryShape, OwnShape, Alive
  <1>24. ASSUME NEW w \in Worker, FailMem(w) PROVE EndHasReport'
    BY <1>24 DEF FailMem, Step, record, Handlers, counters, history, TypeOK, Shape,
      EndHasReport, NoReport, EntryShape, OwnShape, Alive
  <1>25. ASSUME NEW w \in Worker, FailDb(w) PROVE EndHasReport'
    BY <1>25 DEF FailDb, Step, entry, Handlers, counters, history, NoReport, TypeOK, Shape,
      EndHasReport, EntryShape, OwnShape, Alive
  <1>26. ASSUME NEW w \in Worker, DoneMem(w) PROVE EndHasReport'
    BY <1>26 DEF DoneMem, Step, record, Handlers, counters, history, TypeOK, Shape,
      EndHasReport, NoReport, EntryShape, OwnShape, Alive
  <1>27. ASSUME NEW w \in Worker, DoneDb(w) PROVE EndHasReport'
    BY <1>27 DEF DoneDb, Step, entry, Handlers, counters, history, TypeOK, Shape,
      EndHasReport, NoReport, EntryShape, OwnShape, Alive
  <1>28. ASSUME NEW w \in Worker, InitialVersion(w) PROVE EndHasReport'
    BY <1>28 DEF InitialVersion, Step, entry, Handlers, counters, history, NoReport, TypeOK,
      Shape, EndHasReport, EntryShape, OwnShape, Alive
  <1>29. ASSUME NEW w \in Worker, ReBegin(w) PROVE EndHasReport'
    BY <1>29 DEF ReBegin, StopIfCancelled, Step, entry, record, Handlers, counters, history,
      TypeOK, Shape, EndHasReport, NoReport, EntryShape, OwnShape, Alive
  <1>30. ASSUME NEW w \in Worker, ReRun(w) PROVE EndHasReport'
    BY <1>30 DEF ReRun, Step, record, Handlers, counters, history, TypeOK, Shape,
      EndHasReport, NoReport, EntryShape, OwnShape, Alive
  <1>31. ASSUME NEW w \in Worker, ReCheck(w) PROVE EndHasReport'
    BY <1>31 DEF ReCheck, StopIfCancelled, Step, record, Handlers, counters, history,
      TypeOK, Shape, EndHasReport, NoReport, EntryShape, OwnShape, Alive
  <1>32. ASSUME NEW w \in Worker, ReNode(w) PROVE EndHasReport'
    BY <1>32 DEF ReNode, StopIfCancelled, Step, entry, record, Handlers, counters, history,
      TypeOK, Shape, EndHasReport, NoReport, EntryShape, OwnShape, Alive
  <1>33. ASSUME NEW w \in Worker, ReNodeDone(w) PROVE EndHasReport'
    <2> USE <1>33
    <2>1. \A i \in 1 .. Len(heap) : heap'[i] = heap[i] \/ heap'[i] = made + 1
      BY NodeHeap
    <2>2. made + 1 # NoReport
      BY DEF Shape, TypeOK, NoReport
    <2> QED
      BY <2>1, <2>2, NodeGoes DEF Shape, OwnShape, EndHasReport
  <1>34. ASSUME NEW w \in Worker, ReFails(w) PROVE EndHasReport'
    BY <1>34 DEF ReFails, Step, record, Handlers, counters, history, TypeOK, Shape,
      EndHasReport, NoReport, EntryShape, OwnShape, Alive
  <1>35. ASSUME NEW w \in Worker, ReDone(w) PROVE EndHasReport'
    BY <1>35 DEF ReDone, Step, record, Handlers, counters, history, TypeOK, Shape,
      EndHasReport, NoReport, EntryShape, OwnShape, Alive
  <1>36. ASSUME NEW w \in Worker, ReVersion(w) PROVE EndHasReport'
    BY <1>36 DEF ReVersion, Step, entry, Handlers, counters, history, NoReport, TypeOK,
      Shape, EndHasReport, EntryShape, OwnShape, Alive
  <1>37. ASSUME NEW w \in Worker, FinalizeMem(w) PROVE EndHasReport'
    BY <1>37 DEF FinalizeMem, Step, record, Handlers, counters, history, TypeOK, Shape,
      EndHasReport, NoReport, EntryShape, OwnShape, Alive
  <1>38. ASSUME NEW w \in Worker, FinalizeDb(w) PROVE EndHasReport'
    BY <1>38 DEF FinalizeDb, Step, entry, Handlers, counters, history, TypeOK, Shape,
      EndHasReport, NoReport, EntryShape, OwnShape, Alive
  <1>39. CASE Restart
    BY <1>39 DEF Restart, record, TypeOK, Shape, EndHasReport, NoReport, EntryShape,
      OwnShape, Alive
  <1> QED
    BY <1>0, <1>1, <1>2, <1>3, <1>4, <1>5, <1>6, <1>7, <1>8, <1>9, <1>10, <1>11, <1>12,
      <1>13, <1>14, <1>15, <1>16, <1>17, <1>18, <1>19, <1>20, <1>21, <1>22, <1>23, <1>24,
      <1>25, <1>26, <1>27, <1>28, <1>29, <1>30, <1>31, <1>32, <1>33, <1>34, <1>35, <1>36,
      <1>37, <1>38, <1>39 DEF Next, EndpointStep, WorkerStep, GraphStep, RerunStep

\* The row gets the report of a run that has one, or that of an edit.
LEMMA ReadableStep ==
  ASSUME Shape, EndHasReport, CompletedIsReadable, [Next]_vars PROVE CompletedIsReadable'
  <1>0. CASE UNCHANGED vars
    BY <1>0 DEF vars, entry, record, threads, counters, history, TypeOK, Shape,
      EndHasReport, CompletedIsReadable, NoReport, EntryShape, ReadShape, OwnShape
  <1>1. CASE Analyze
    BY <1>1 DEF Analyze, Idle, counters, history, threads, NoReport, TypeOK, Shape,
      EndHasReport, CompletedIsReadable, EntryShape, ReadShape, OwnShape
  <1>2. CASE Confirm
    BY <1>2 DEF Confirm, Idle, SetEntry, Load, Status, Restored, record, threads, counters,
      TypeOK, Shape, EndHasReport, CompletedIsReadable, NoReport, EntryShape, ReadShape,
      OwnShape
  <1>3. CASE Claim
    BY <1>3 DEF Claim, entry, threads, counters, history, TypeOK, Shape, EndHasReport,
      CompletedIsReadable, NoReport, EntryShape, ReadShape, OwnShape
  <1>4. ASSUME NEW w \in Worker, StartWorker(w) PROVE CompletedIsReadable'
    BY <1>4 DEF StartWorker, Submit, record, counters, TypeOK, Shape, EndHasReport,
      CompletedIsReadable, NoReport, EntryShape, ReadShape, OwnShape
  <1>5. CASE StartFails
    BY <1>5 DEF StartFails, record, threads, history, TypeOK, Shape, EndHasReport,
      CompletedIsReadable, NoReport, EntryShape, ReadShape, OwnShape
  <1>6. CASE Cancel
    BY <1>6 DEF Cancel, Idle, SetEntry, Load, Status, Restored, record, threads, counters,
      TypeOK, Shape, EndHasReport, CompletedIsReadable, NoReport, EntryShape, ReadShape,
      OwnShape
  <1>7. CASE CancelMem
    BY <1>7 DEF CancelMem, record, threads, counters, history, TypeOK, Shape, EndHasReport,
      CompletedIsReadable, NoReport, EntryShape, ReadShape, OwnShape
  <1>8. CASE CancelDb
    BY <1>8 DEF CancelDb, entry, threads, counters, history, TypeOK, Shape, EndHasReport,
      CompletedIsReadable, NoReport, EntryShape, ReadShape, OwnShape
  <1>9. CASE Decide
    BY <1>9 DEF Decide, Idle, Decidable, SetEntry, Load, Status, Restored, record, threads,
      TypeOK, Shape, EndHasReport, CompletedIsReadable, NoReport, EntryShape, ReadShape,
      OwnShape
  <1>10. ASSUME NEW w \in Worker, Rework(w) PROVE CompletedIsReadable'
    BY <1>10 DEF Rework, Submit, record, counters, TypeOK, Shape, EndHasReport,
      CompletedIsReadable, NoReport, EntryShape, ReadShape, OwnShape
  <1>11. CASE ApproveMem
    BY <1>11 DEF ApproveMem, record, threads, counters, history, TypeOK, Shape,
      EndHasReport, CompletedIsReadable, NoReport, EntryShape, ReadShape, OwnShape
  <1>12. CASE ApproveDb
    BY <1>12 DEF ApproveDb, entry, threads, counters, TypeOK, Shape, EndHasReport,
      CompletedIsReadable, NoReport, EntryShape, ReadShape, OwnShape
  <1>13. CASE Edit
    BY <1>13 DEF Edit, Idle, SetEntry, Status, Report, Restored, NoReport, record, threads,
      TypeOK, Shape, EndHasReport, CompletedIsReadable, EntryShape, ReadShape, OwnShape
  <1>14. CASE EditDb
    BY <1>14 DEF EditDb, entry, threads, counters, history, TypeOK, Shape, EndHasReport,
      CompletedIsReadable, NoReport, EntryShape, ReadShape, OwnShape
  <1>15. ASSUME NEW w \in Worker, Begin(w) PROVE CompletedIsReadable'
    BY <1>15 DEF Begin, Check, Step, entry, record, Handlers, counters, history, TypeOK,
      Shape, EndHasReport, CompletedIsReadable, NoReport, EntryShape, ReadShape, OwnShape
  <1>16. ASSUME NEW w \in Worker, Resolve(w) PROVE CompletedIsReadable'
    BY <1>16 DEF Resolve, Step, record, Handlers, counters, history, TypeOK, Shape,
      EndHasReport, CompletedIsReadable, NoReport, EntryShape, ReadShape, OwnShape
  <1>17. ASSUME NEW w \in Worker, Title(w) PROVE CompletedIsReadable'
    BY <1>17 DEF Title, Step, entry, Handlers, counters, history, TypeOK, Shape,
      EndHasReport, CompletedIsReadable, NoReport, EntryShape, ReadShape, OwnShape
  <1>18. ASSUME NEW w \in Worker, BeforeGraph(w) PROVE CompletedIsReadable'
    BY <1>18 DEF BeforeGraph, Check, Step, entry, record, Handlers, counters, history,
      TypeOK, Shape, EndHasReport, CompletedIsReadable, NoReport, EntryShape, ReadShape,
      OwnShape
  <1>19. ASSUME NEW w \in Worker, Event(w) PROVE CompletedIsReadable'
    BY <1>19 DEF Event, Check, Step, record, Handlers, counters, history, TypeOK, Shape,
      EndHasReport, CompletedIsReadable, NoReport, EntryShape, ReadShape, OwnShape
  <1>20. ASSUME NEW w \in Worker, EventCancelled(w) PROVE CompletedIsReadable'
    BY <1>20 DEF EventCancelled, Check, Step, entry, record, Handlers, counters, history,
      TypeOK, Shape, EndHasReport, CompletedIsReadable, NoReport, EntryShape, ReadShape,
      OwnShape
  <1>21. ASSUME NEW w \in Worker, SaveNode(w) PROVE CompletedIsReadable'
    BY <1>21 DEF SaveNode, Step, entry, Handlers, counters, history, TypeOK, Shape,
      EndHasReport, CompletedIsReadable, NoReport, EntryShape, ReadShape, OwnShape
  <1>22. ASSUME NEW w \in Worker, GraphEnds(w) PROVE CompletedIsReadable'
    BY <1>22 DEF GraphEnds, Step, entry, record, Handlers, counters, history, NoReport,
      TypeOK, Shape, EndHasReport, CompletedIsReadable, EntryShape, ReadShape, OwnShape
  <1>23. ASSUME NEW w \in Worker, GraphRaises(w) PROVE CompletedIsReadable'
    BY <1>23 DEF GraphRaises, Step, entry, record, Handlers, counters, history, TypeOK,
      Shape, EndHasReport, CompletedIsReadable, NoReport, EntryShape, ReadShape, OwnShape
  <1>24. ASSUME NEW w \in Worker, FailMem(w) PROVE CompletedIsReadable'
    BY <1>24 DEF FailMem, Step, record, Handlers, counters, history, TypeOK, Shape,
      EndHasReport, CompletedIsReadable, NoReport, EntryShape, ReadShape, OwnShape
  <1>25. ASSUME NEW w \in Worker, FailDb(w) PROVE CompletedIsReadable'
    BY <1>25 DEF FailDb, Step, entry, Handlers, counters, history, NoReport, TypeOK, Shape,
      EndHasReport, CompletedIsReadable, EntryShape, ReadShape, OwnShape
  <1>26. ASSUME NEW w \in Worker, DoneMem(w) PROVE CompletedIsReadable'
    BY <1>26 DEF DoneMem, Step, record, Handlers, counters, history, TypeOK, Shape,
      EndHasReport, CompletedIsReadable, NoReport, EntryShape, ReadShape, OwnShape
  <1>27. ASSUME NEW w \in Worker, DoneDb(w) PROVE CompletedIsReadable'
    BY <1>27 DEF DoneDb, Step, entry, Handlers, counters, history, TypeOK, Shape,
      EndHasReport, CompletedIsReadable, NoReport, EntryShape, ReadShape, OwnShape
  <1>28. ASSUME NEW w \in Worker, InitialVersion(w) PROVE CompletedIsReadable'
    BY <1>28 DEF InitialVersion, Step, entry, Handlers, counters, history, NoReport, TypeOK,
      Shape, EndHasReport, CompletedIsReadable, EntryShape, ReadShape, OwnShape
  <1>29. ASSUME NEW w \in Worker, ReBegin(w) PROVE CompletedIsReadable'
    BY <1>29 DEF ReBegin, StopIfCancelled, Step, entry, record, Handlers, counters, history,
      TypeOK, Shape, EndHasReport, CompletedIsReadable, NoReport, EntryShape, ReadShape,
      OwnShape
  <1>30. ASSUME NEW w \in Worker, ReRun(w) PROVE CompletedIsReadable'
    BY <1>30 DEF ReRun, Step, record, Handlers, counters, history, TypeOK, Shape,
      EndHasReport, CompletedIsReadable, NoReport, EntryShape, ReadShape, OwnShape
  <1>31. ASSUME NEW w \in Worker, ReCheck(w) PROVE CompletedIsReadable'
    BY <1>31 DEF ReCheck, StopIfCancelled, Step, record, Handlers, counters, history,
      TypeOK, Shape, EndHasReport, CompletedIsReadable, NoReport, EntryShape, ReadShape,
      OwnShape
  <1>32. ASSUME NEW w \in Worker, ReNode(w) PROVE CompletedIsReadable'
    BY <1>32 DEF ReNode, StopIfCancelled, Step, entry, record, Handlers, counters, history,
      TypeOK, Shape, EndHasReport, CompletedIsReadable, NoReport, EntryShape, ReadShape,
      OwnShape
  <1>33. ASSUME NEW w \in Worker, ReNodeDone(w) PROVE CompletedIsReadable'
    BY <1>33 DEF ReNodeDone, StopIfCancelled, Step, record, Handlers, counters, history,
      TypeOK, Shape, EndHasReport, CompletedIsReadable, NoReport, EntryShape, ReadShape,
      OwnShape
  <1>34. ASSUME NEW w \in Worker, ReFails(w) PROVE CompletedIsReadable'
    BY <1>34 DEF ReFails, Step, record, Handlers, counters, history, TypeOK, Shape,
      EndHasReport, CompletedIsReadable, NoReport, EntryShape, ReadShape, OwnShape
  <1>35. ASSUME NEW w \in Worker, ReDone(w) PROVE CompletedIsReadable'
    BY <1>35 DEF ReDone, Step, record, Handlers, counters, history, TypeOK, Shape,
      EndHasReport, CompletedIsReadable, NoReport, EntryShape, ReadShape, OwnShape
  <1>36. ASSUME NEW w \in Worker, ReVersion(w) PROVE CompletedIsReadable'
    BY <1>36 DEF ReVersion, Step, entry, Handlers, counters, history, NoReport, TypeOK,
      Shape, EndHasReport, CompletedIsReadable, EntryShape, ReadShape, OwnShape
  <1>37. ASSUME NEW w \in Worker, FinalizeMem(w) PROVE CompletedIsReadable'
    BY <1>37 DEF FinalizeMem, Step, record, Handlers, counters, history, TypeOK, Shape,
      EndHasReport, CompletedIsReadable, NoReport, EntryShape, ReadShape, OwnShape
  <1>38. ASSUME NEW w \in Worker, FinalizeDb(w) PROVE CompletedIsReadable'
    BY <1>38 DEF FinalizeDb, Step, entry, Handlers, counters, history, TypeOK, Shape,
      EndHasReport, CompletedIsReadable, NoReport, EntryShape, ReadShape, OwnShape
  <1>39. CASE Restart
    BY <1>39 DEF Restart, record, TypeOK, Shape, EndHasReport, CompletedIsReadable,
      NoReport, EntryShape, ReadShape, OwnShape
  <1> QED
    BY <1>0, <1>1, <1>2, <1>3, <1>4, <1>5, <1>6, <1>7, <1>8, <1>9, <1>10, <1>11, <1>12,
      <1>13, <1>14, <1>15, <1>16, <1>17, <1>18, <1>19, <1>20, <1>21, <1>22, <1>23, <1>24,
      <1>25, <1>26, <1>27, <1>28, <1>29, <1>30, <1>31, <1>32, <1>33, <1>34, <1>35, <1>36,
      <1>37, <1>38, <1>39 DEF Next, EndpointStep, WorkerStep, GraphStep, RerunStep

\* A new worker beside a doomed one takes a rework, which forgives.
LEMMA DoomedStep ==
  ASSUME Shape, Claimed, DoomedAlone, [Next]_vars PROVE DoomedAlone'
  <1>0. CASE UNCHANGED vars
    BY <1>0 DEF vars, entry, record, threads, counters, history, TypeOK, Shape, Claimed,
      DoomedAlone, CheckAhead, EntryShape, Alive
  <1>1. CASE Analyze
    BY <1>1 DEF Analyze, Idle, counters, history, threads, NoReport, TypeOK, Shape, Claimed,
      DoomedAlone, CheckAhead, EntryShape, Alive
  <1>2. CASE Confirm
    BY <1>2 DEF Confirm, Idle, SetEntry, Load, Status, Restored, record, threads, counters,
      TypeOK, Shape, Claimed, DoomedAlone, CheckAhead, EntryShape, Alive
  <1>3. CASE Claim
    BY <1>3 DEF Claim, entry, threads, counters, history, TypeOK, Shape, Claimed,
      DoomedAlone, CheckAhead, EntryShape, Alive
  <1>4. ASSUME NEW w \in Worker, StartWorker(w) PROVE DoomedAlone'
    BY <1>4 DEF StartWorker, Submit, record, counters, TypeOK, Shape, Claimed, DoomedAlone,
      CheckAhead, EntryShape, Alive
  <1>5. CASE StartFails
    BY <1>5 DEF StartFails, record, threads, history, TypeOK, Shape, Claimed, DoomedAlone,
      CheckAhead, EntryShape, Alive
  <1>6. CASE Cancel
    <2> USE <1>6
    <2>1. CASE Status = "awaiting" /\ UNCHANGED <<flag, doomed>>
      BY <2>1 DEF Cancel, Idle, SetEntry, record, threads, DoomedAlone, Alive
    <2>2. CASE Status = "running" /\ Cardinality(Alive) = 1
      <3>1. IsFiniteSet(Alive)
        BY WorkerAssumption, FS_Subset DEF Alive
      <3>2. PICK v : Alive = {v}
        BY <2>2, <3>1, FS_Singleton
      <3>3. flag' = TRUE /\ h' = "cancelMem" /\ doomed' = {w \in Alive : pc[w] \in CheckAhead}
        BY <2>2 DEF Cancel
      <3> QED
        BY <3>2, <3>3 DEF Cancel, record, threads, DoomedAlone, Alive
    <2>3. CASE Status = "running" /\ Cardinality(Alive) # 1
      <3>1. flag' = TRUE /\ h' = "cancelMem" /\ doomed' = doomed
        BY <2>3 DEF Cancel
      <3> QED
        BY <3>1 DEF Cancel, record, threads, DoomedAlone, Alive
    <2> QED
      BY <2>1, <2>2, <2>3 DEF Cancel
  <1>7. CASE CancelMem
    BY <1>7 DEF CancelMem, record, threads, counters, history, TypeOK, Shape, Claimed,
      DoomedAlone, CheckAhead, EntryShape, Alive
  <1>8. CASE CancelDb
    BY <1>8 DEF CancelDb, entry, threads, counters, history, TypeOK, Shape, Claimed,
      DoomedAlone, CheckAhead, EntryShape, Alive
  <1>9. CASE Decide
    BY <1>9 DEF Decide, Idle, Decidable, SetEntry, Load, Status, Restored, record, threads,
      TypeOK, Shape, Claimed, DoomedAlone, CheckAhead, EntryShape, Alive
  <1>10. ASSUME NEW w \in Worker, Rework(w) PROVE DoomedAlone'
    BY <1>10 DEF Rework, Submit, record, counters, TypeOK, Shape, Claimed, DoomedAlone,
      CheckAhead, EntryShape, Alive
  <1>11. CASE ApproveMem
    BY <1>11 DEF ApproveMem, record, threads, counters, history, TypeOK, Shape, Claimed,
      DoomedAlone, CheckAhead, EntryShape, Alive
  <1>12. CASE ApproveDb
    BY <1>12 DEF ApproveDb, entry, threads, counters, TypeOK, Shape, Claimed, DoomedAlone,
      CheckAhead, EntryShape, Alive
  <1>13. CASE Edit
    BY <1>13 DEF Edit, Idle, SetEntry, Status, Report, Restored, NoReport, record, threads,
      TypeOK, Shape, Claimed, DoomedAlone, CheckAhead, EntryShape, Alive
  <1>14. CASE EditDb
    BY <1>14 DEF EditDb, entry, threads, counters, history, TypeOK, Shape, Claimed,
      DoomedAlone, CheckAhead, EntryShape, Alive
  <1>15. ASSUME NEW w \in Worker, Begin(w) PROVE DoomedAlone'
    BY <1>15 DEF Begin, Check, Step, entry, record, Handlers, counters, history, TypeOK,
      Shape, Claimed, DoomedAlone, CheckAhead, EntryShape, Alive
  <1>16. ASSUME NEW w \in Worker, Resolve(w) PROVE DoomedAlone'
    <2> USE <1>16
    <2>1. \A v \in Worker : v # w => pc'[v] = pc[v]
      BY DEF Resolve, Step, Shape, TypeOK
    <2>2. pc[w] = "resolve" /\ pc'[w] \in {"none", "title"}
      BY DEF Resolve, Step, Shape, TypeOK
    <2>3. UNCHANGED <<flag, doomed, h, db>>
      BY DEF Resolve, Handlers, record, history
    <2> QED
      BY <2>1, <2>2, <2>3 DEF DoomedAlone, CheckAhead, Alive, Shape, TypeOK
  <1>17. ASSUME NEW w \in Worker, Title(w) PROVE DoomedAlone'
    BY <1>17 DEF Title, Step, entry, Handlers, counters, history, TypeOK, Shape, Claimed,
      DoomedAlone, CheckAhead, EntryShape, Alive
  <1>18. ASSUME NEW w \in Worker, BeforeGraph(w) PROVE DoomedAlone'
    BY SMTT(30), <1>18 DEF BeforeGraph, Check, Step, entry, record, Handlers, counters, history,
      TypeOK, Shape, Claimed, DoomedAlone, CheckAhead, EntryShape, Alive
  <1>19. ASSUME NEW w \in Worker, Event(w) PROVE DoomedAlone'
    BY <1>19 DEF Event, Check, Step, record, Handlers, counters, history, TypeOK, Shape,
      Claimed, DoomedAlone, CheckAhead, EntryShape, Alive
  <1>20. ASSUME NEW w \in Worker, EventCancelled(w) PROVE DoomedAlone'
    BY SMTT(30), <1>20 DEF EventCancelled, Check, Step, entry, record, Handlers, counters, history,
      TypeOK, Shape, Claimed, DoomedAlone, CheckAhead, EntryShape, Alive
  <1>21. ASSUME NEW w \in Worker, SaveNode(w) PROVE DoomedAlone'
    BY <1>21 DEF SaveNode, Step, entry, Handlers, counters, history, TypeOK, Shape, Claimed,
      DoomedAlone, CheckAhead, EntryShape, Alive
  <1>22. ASSUME NEW w \in Worker, GraphEnds(w) PROVE DoomedAlone'
    BY <1>22 DEF GraphEnds, Step, entry, record, Handlers, counters, history, NoReport,
      TypeOK, Shape, Claimed, DoomedAlone, CheckAhead, EntryShape, Alive
  <1>23. ASSUME NEW w \in Worker, GraphRaises(w) PROVE DoomedAlone'
    BY SMTT(30), <1>23 DEF GraphRaises, Step, entry, record, Handlers, counters, history, TypeOK,
      Shape, Claimed, DoomedAlone, CheckAhead, EntryShape, Alive
  <1>24. ASSUME NEW w \in Worker, FailMem(w) PROVE DoomedAlone'
    BY <1>24 DEF FailMem, Step, record, Handlers, counters, history, TypeOK, Shape, Claimed,
      DoomedAlone, CheckAhead, EntryShape, Alive
  <1>25. ASSUME NEW w \in Worker, FailDb(w) PROVE DoomedAlone'
    BY <1>25 DEF FailDb, Step, entry, Handlers, counters, history, NoReport, TypeOK, Shape,
      Claimed, DoomedAlone, CheckAhead, EntryShape, Alive
  <1>26. ASSUME NEW w \in Worker, DoneMem(w) PROVE DoomedAlone'
    BY <1>26 DEF DoneMem, Step, record, Handlers, counters, history, TypeOK, Shape, Claimed,
      DoomedAlone, CheckAhead, EntryShape, Alive
  <1>27. ASSUME NEW w \in Worker, DoneDb(w) PROVE DoomedAlone'
    BY <1>27 DEF DoneDb, Step, entry, Handlers, counters, history, TypeOK, Shape, Claimed,
      DoomedAlone, CheckAhead, EntryShape, Alive
  <1>28. ASSUME NEW w \in Worker, InitialVersion(w) PROVE DoomedAlone'
    BY <1>28 DEF InitialVersion, Step, entry, Handlers, counters, history, NoReport, TypeOK,
      Shape, Claimed, DoomedAlone, CheckAhead, EntryShape, Alive
  <1>29. ASSUME NEW w \in Worker, ReBegin(w) PROVE DoomedAlone'
    BY SMTT(30), <1>29 DEF ReBegin, StopIfCancelled, Step, entry, record, Handlers, counters, history,
      TypeOK, Shape, Claimed, DoomedAlone, CheckAhead, EntryShape, Alive
  <1>30. ASSUME NEW w \in Worker, ReRun(w) PROVE DoomedAlone'
    BY <1>30 DEF ReRun, Step, record, Handlers, counters, history, TypeOK, Shape, Claimed,
      DoomedAlone, CheckAhead, EntryShape, Alive
  <1>31. ASSUME NEW w \in Worker, ReCheck(w) PROVE DoomedAlone'
    BY SMTT(30), <1>31 DEF ReCheck, StopIfCancelled, Step, record, Handlers, counters, history,
      TypeOK, Shape, Claimed, DoomedAlone, CheckAhead, EntryShape, Alive
  <1>32. ASSUME NEW w \in Worker, ReNode(w) PROVE DoomedAlone'
    BY SMTT(30), <1>32 DEF ReNode, StopIfCancelled, Step, entry, record, Handlers, counters, history,
      TypeOK, Shape, Claimed, DoomedAlone, CheckAhead, EntryShape, Alive
  <1>33. ASSUME NEW w \in Worker, ReNodeDone(w) PROVE DoomedAlone'
    <2> USE <1>33
    <2>1. UNCHANGED <<h, db, doomed>> /\ flag' = FALSE
      BY DEF ReNodeDone, StopIfCancelled, record, Handlers, history
    <2> QED
      BY <2>1, NodeGoes DEF DoomedAlone, CheckAhead, Alive
  <1>34. ASSUME NEW w \in Worker, ReFails(w) PROVE DoomedAlone'
    BY SMTT(30), <1>34 DEF ReFails, Step, record, Handlers, counters, history, TypeOK, Shape, Claimed,
      DoomedAlone, CheckAhead, EntryShape, Alive
  <1>35. ASSUME NEW w \in Worker, ReDone(w) PROVE DoomedAlone'
    BY <1>35 DEF ReDone, Step, record, Handlers, counters, history, TypeOK, Shape, Claimed,
      DoomedAlone, CheckAhead, EntryShape, Alive
  <1>36. ASSUME NEW w \in Worker, ReVersion(w) PROVE DoomedAlone'
    BY <1>36 DEF ReVersion, Step, entry, Handlers, counters, history, NoReport, TypeOK,
      Shape, Claimed, DoomedAlone, CheckAhead, EntryShape, Alive
  <1>37. ASSUME NEW w \in Worker, FinalizeMem(w) PROVE DoomedAlone'
    BY <1>37 DEF FinalizeMem, Step, record, Handlers, counters, history, TypeOK, Shape,
      Claimed, DoomedAlone, CheckAhead, EntryShape, Alive
  <1>38. ASSUME NEW w \in Worker, FinalizeDb(w) PROVE DoomedAlone'
    BY <1>38 DEF FinalizeDb, Step, entry, Handlers, counters, history, TypeOK, Shape,
      Claimed, DoomedAlone, CheckAhead, EntryShape, Alive
  <1>39. CASE Restart
    BY <1>39 DEF Restart, record, TypeOK, Shape, Claimed, DoomedAlone, CheckAhead,
      EntryShape, Alive
  <1> QED
    BY <1>0, <1>1, <1>2, <1>3, <1>4, <1>5, <1>6, <1>7, <1>8, <1>9, <1>10, <1>11, <1>12,
      <1>13, <1>14, <1>15, <1>16, <1>17, <1>18, <1>19, <1>20, <1>21, <1>22, <1>23, <1>24,
      <1>25, <1>26, <1>27, <1>28, <1>29, <1>30, <1>31, <1>32, <1>33, <1>34, <1>35, <1>36,
      <1>37, <1>38, <1>39 DEF Next, EndpointStep, WorkerStep, GraphStep, RerunStep

-----------------------------------------------------------------------------
(* The theorems. *)

LEMMA InitInv == Init => IInv
  <1> SUFFICES ASSUME Init PROVE IInv
    OBVIOUS
  <1>1. TypeOK
    <2>1. pc \in [Worker -> PCs] /\ left \in [Worker -> 0 .. MaxEvents + MaxNodes] /\ own \in [Worker -> Nat]
      BY NumberAssumption DEF Init, PCs
    <2>2. heap \in Seq(0 .. made) /\ cur \in 0 .. Len(heap)
      BY DEF Init
    <2>3. {dbRep, phase, ver, approved} \subseteq 0 .. made
      BY DEF Init, NoReport
    <2>4. made \in Nat /\ starts \in Nat /\ decisions \in 0 .. MaxDecisions /\ edits \in 0 .. MaxEdits
          /\ restarts \in 0 .. MaxRestarts /\ startFails \in 0 .. MaxStartFails
      BY NumberAssumption DEF Init
    <2>5. mem \in Statuses /\ db \in Statuses /\ hv \in Nat /\ doomed \subseteq Worker
      BY DEF Init, Statuses
    <2> QED
      BY <2>1, <2>2, <2>3, <2>4, <2>5 DEF Init, TypeOK
  <1>2. EntryShape /\ ReadShape /\ OwnShape
    BY DEF Init, EntryShape, ReadShape, OwnShape, Alive
  <1>3. Claimed /\ starts <= 1 /\ WriterAhead /\ CompletedIsReadable
    BY DEF Init, Claimed, WriterAhead, CompletedIsReadable
  <1>4. EndHasReport /\ DoomedAlone
    BY DEF Init, EndHasReport, DoomedAlone
  <1> QED
    BY <1>1, <1>2, <1>3, <1>4 DEF IInv, Shape

\* The invariant is inductive.
LEMMA StepInv == IInv /\ [Next]_vars => IInv'
  <1> SUFFICES ASSUME IInv, [Next]_vars PROVE IInv'
    OBVIOUS
  <1>1. Shape'
    BY TypeStep, EntryStep, ReadStep, OwnStep DEF IInv, Shape
  <1>2. (Claimed /\ starts <= 1)' /\ WriterAhead' /\ EndHasReport'
    BY ClaimedStep, WriterStep, EndReportStep DEF IInv
  <1>3. CompletedIsReadable' /\ DoomedAlone'
    BY ReadableStep, DoomedStep DEF IInv
  <1> QED
    BY <1>1, <1>2, <1>3 DEF IInv

LEMMA Invariance == Spec => []IInv
  BY InitInv, StepInv, PTL DEF Spec

\* An entry says running only while a worker is there to end it (submit_decision
\* would refuse for ever), unless it was restored that way; and the graph is started
\* at most once, however often confirm claims it (claim_analysis_start).
THEOREM WorkerTheorem == Spec => []RunningHasWorker
  <1>1. IInv => RunningHasWorker
    BY DEF IInv, Shape, RunningHasWorker, WriterAhead, Writes, Alive
  <1> QED
    BY <1>1, Invariance, PTL

\* A row that says completed has a report (_run_graph_sync, submit_decision,
\* update_sections), unless the user approved an analysis that has none.
THEOREM ReadableTheorem == Spec => []CompletedIsReadable
  <1>1. IInv => CompletedIsReadable
    BY DEF IInv
  <1> QED
    BY <1>1, Invariance, PTL

\* A worker cancelled with a check ahead (cancel_analysis, _stop_if_cancelled) never
\* gets to report completion, unless a rework that shares its flag is submitted.
THEOREM CancelTheorem == Spec => []CancelledStops
  <1>1. IInv => CancelledStops
    BY DEF IInv, DoomedAlone, CancelledStops, CheckAhead
  <1> QED
    BY <1>1, Invariance, PTL
=============================================================================
