-------------------------- MODULE MonitoringProofs --------------------------
(***************************************************************************)
(* Proofs about Monitoring for any schedulers, workers, manual runs and    *)
(* any bounds on runs, changes, attempts and faults.                       *)
(***************************************************************************)
EXTENDS Monitoring, FiniteSetTheorems, SequenceTheorems, TLAPS

-----------------------------------------------------------------------------
(* The inductive invariant. *)

\* Where a run has a version in its hands.
Handling == {"match", "save", "send", "knowledge", "deep"}
Elsewhere == {"idle", "collect", "store", "finish"}

Version == 0 .. MaxVersions
ScheduleOf == [present : BOOLEAN, enabled : BOOLEAN, next : Slot, leased : BOOLEAN]
TickOf == [pc : {"idle", "claimed", "queued"}, slot : Slot]
TaskOf == [status : {"none", "queued", "running", "succeeded", "dead_letter"}, attempts : 0 .. MaxAttempts]
RunOf == [pc : Handling \cup Elsewhere \cup {"commit"}, key : Key, ver : Version, seen : Content, event : Nat]

SchedulerShape ==
  /\ now \in 1 .. MaxRuns /\ sched \in ScheduleOf
  /\ tick \in [Ticker -> TickOf] /\ task \in [Key -> TaskOf]
  /\ faults \in 0 .. MaxFaults
RunShape == run \in [Worker -> RunOf] /\ \A w \in Worker : run[w].event \in 0 .. Len(alerts)
StoreShape ==
  /\ lock \in {"none"} \cup Worker /\ world \in Content
  /\ versions \in Seq(Content) /\ Len(versions) <= MaxVersions
  /\ done \in [1 .. MaxVersions -> SUBSET Stage]
  /\ changes \in 0 .. MaxChanges
AlertShape == alerts \in Seq(Event)
Shape == SchedulerShape /\ RunShape /\ StoreShape /\ AlertShape

\* A task that waits has an attempt left.
Tasks ==
  \A k \in Key :
    /\ task[k].status = "none" => task[k].attempts = 0
    /\ task[k].status = "queued" => task[k].attempts < MaxAttempts

\* A scheduler that goes on to the next slot has queued this one.
Ticks == \A t \in Ticker : tick[t].pc = "queued" => task[tick[t].slot].status # "none"

\* The latest version is read and replaced in one transaction, and every version
\* is in the hands of the run that stored it and of no other.
Writers ==
  /\ \A w \in Worker :
       /\ run[w].pc = "commit" => lock = w /\ run[w].ver = Len(versions)
       /\ run[w].pc \in Handling => run[w].ver \in 1 .. Len(versions)
       /\ run[w].pc = "save" => Material(run[w].ver)
       /\ run[w].pc = "send" =>
            run[w].event \in 1 .. Len(alerts) /\ alerts[run[w].event].status # "suppressed"
  /\ \A w, x \in Worker :
       run[w].pc \in Handling /\ run[x].pc \in Handling /\ run[w].ver = run[x].ver => w = x

Distinct == \A v \in 2 .. Len(versions) : versions[v] # versions[v - 1]

\* An event is raised at most when a run decides on its material version.
Undecided(v) == \E w \in Worker : run[w].pc \in {"match", "save"} /\ run[w].ver = v
Decided == {v \in 1 .. Len(versions) : Material(v) /\ ~ Undecided(v)}
Counted == Len(alerts) <= Cardinality(Decided)

Silent == \A i \in 1 .. Len(alerts) : alerts[i].status = "suppressed" => ~ alerts[i].sent

\* Without a fault a material version was handled, or is with the run that will.
Reached(pc) ==
  IF pc = "deep" THEN {"alerted", "queued"} ELSE IF pc \in {"send", "knowledge"} THEN {"alerted"} ELSE {}
Handled(v) ==
  \/ done[v] = Stage
  \/ \E w \in Worker : run[w].pc \in Handling /\ run[w].ver = v /\ Reached(run[w].pc) \subseteq done[v]
Followed == faults = 0 => \A v \in 1 .. Len(versions) : Material(v) => Handled(v)

Queues == Tasks /\ Ticks
Facts == Writers /\ Distinct /\ Counted /\ Silent /\ Followed
IInv == Shape /\ Queues /\ Facts

-----------------------------------------------------------------------------
(* Bounds and types. *)

LEMMA Bounds ==
  /\ MaxVersions \in Nat \ {0} /\ MaxRuns \in Nat \ {0} /\ MaxFaults \in Nat /\ MaxAttempts \in Nat \ {0}
  /\ \A n \in 1 .. MaxRuns : n + 1 \in Slot
  /\ 1 \in Slot /\ Slot \subseteq Key /\ Manual \subseteq Key
  BY BoundAssumption DEF MaxVersions, Slot, Key

LEMMA FreeIs ==
  /\ Free \in RunOf /\ Free.pc = "idle" /\ Free.ver = 0 /\ Free.event = 0
  <1>1. [value |-> 1, page |-> 1] \in Content
    BY DEF Content
  <1>2. 1 \in Key /\ 0 \in Version
    BY Bounds DEF Version
  <1> QED
    BY <1>1, <1>2 DEF Free, RunOf, Elsewhere

LEMMA OverIs ==
  ASSUME RunShape, NEW w \in Worker, Over(w)
  PROVE  \E r \in RunOf : /\ run' = [run EXCEPT ![w] = r]
                          /\ r.pc = "finish" /\ r.ver = 0 /\ r.event = 0
  <1>1. PICK f \in RunOf : f = Free
    BY FreeIs
  <1>2. PICK k \in Key : k = run[w].key
    BY DEF RunShape, RunOf
  <1>3. PICK r : r = [f EXCEPT !.pc = "finish", !.key = k]
    OBVIOUS
  <1>4. r \in RunOf /\ r.pc = "finish" /\ r.ver = f.ver /\ r.event = f.event
    BY <1>3 DEF RunOf, Elsewhere
  <1>5. run' = [run EXCEPT ![w] = r]
    BY <1>1, <1>2, <1>3 DEF Over
  <1> QED
    BY <1>1, <1>4, <1>5, FreeIs

LEMMA ToIs ==
  ASSUME RunShape, NEW w \in Worker, NEW pc \in Handling \cup Elsewhere, To(w, pc)
  PROVE  \E r \in RunOf : /\ run' = [run EXCEPT ![w] = r]
                          /\ r.pc = pc /\ r.ver = run[w].ver /\ r.event = run[w].event
  <1>1. PICK r : r = [run[w] EXCEPT !.pc = pc]
    OBVIOUS
  <1>2. r \in RunOf /\ r.pc = pc /\ r.ver = run[w].ver /\ r.event = run[w].event
    BY <1>1 DEF RunShape, RunOf
  <1>3. run' = [run EXCEPT ![w] = r]
    BY <1>1 DEF To
  <1> QED
    BY <1>2, <1>3

\* The events that are there stay there, and quiet ones stay quiet.
AlertsGrow ==
  /\ Len(alerts) <= Len(alerts')
  /\ \A i \in 1 .. Len(alerts) :
       /\ alerts'[i].status = "suppressed" <=> alerts[i].status = "suppressed"
       /\ alerts[i].status = "suppressed" => alerts'[i].sent = alerts[i].sent

LEMMA AlertsSame ==
  ASSUME AlertShape, UNCHANGED alerts
  PROVE  AlertShape' /\ AlertsGrow /\ Len(alerts') = Len(alerts)
  BY DEF AlertShape, AlertsGrow

LEMMA DeliveredIs ==
  ASSUME AlertShape, NEW i \in 1 .. Len(alerts), NEW ok \in BOOLEAN, alerts' = Delivered(i, ok),
         alerts[i].status # "suppressed"
  PROVE  AlertShape' /\ AlertsGrow /\ Len(alerts') = Len(alerts)
  <1>1. alerts[i] \in Event /\ DOMAIN alerts = 1 .. Len(alerts)
    BY DEF AlertShape
  <1>2. PICK s \in BOOLEAN : s = (alerts[i].sent \/ ok)
    OBVIOUS
  <1>3. PICK t \in {"sent", "failed"} : t = IF ok THEN "sent" ELSE "failed"
    OBVIOUS
  <1>4. PICK e : e = [alerts[i] EXCEPT !.sent = s, !.status = t]
    OBVIOUS
  <1>5. e \in Event /\ e.status \in {"sent", "failed"}
    BY <1>1, <1>4 DEF Event
  <1>6. alerts' = [alerts EXCEPT ![i] = e]
    <2>1. alerts' = [[alerts EXCEPT ![i].sent = s] EXCEPT ![i].status = t]
      BY <1>2, <1>3 DEF Delivered
    <2> QED
      BY <1>1, <1>4, <2>1
  <1>7. alerts' \in Seq(Event) /\ Len(alerts') = Len(alerts)
    BY <1>5, <1>6, ExceptSeq DEF AlertShape
  <1>8. AlertsGrow
    BY <1>1, <1>5, <1>6, <1>7 DEF AlertsGrow
  <1> QED
    BY <1>7, <1>8 DEF AlertShape

-----------------------------------------------------------------------------
(* What a step keeps that moves one run and stores no version. *)

\* A run that moves from where it is to r.
Moves(w, r) == run' = [run EXCEPT ![w] = r]

LEMMA RunShapeMove ==
  ASSUME RunShape, NEW w \in Worker, NEW r \in RunOf, Moves(w, r), r.event \in 0 .. Len(alerts'), AlertShape,
         AlertShape', AlertsGrow
  PROVE  RunShape'
  <1>1. run' \in [Worker -> RunOf]
    BY DEF RunShape, Moves
  <1>2. Len(alerts) \in Nat /\ Len(alerts') \in Nat /\ Len(alerts) <= Len(alerts')
    BY DEF AlertShape, AlertsGrow
  <1>3. ASSUME NEW x \in Worker PROVE run'[x].event \in 0 .. Len(alerts')
    <2>1. CASE x = w
      BY <2>1 DEF RunShape, Moves
    <2>2. CASE x # w
      <3>1. run'[x] = run[x] /\ run[x].event \in 0 .. Len(alerts)
        BY <2>2 DEF RunShape, Moves
      <3> QED
        BY <1>2, <3>1
    <2> QED
      BY <2>1, <2>2
  <1> QED
    BY <1>1, <1>3 DEF RunShape

LEMMA WritersMove ==
  ASSUME Shape, Writers, NEW w \in Worker, NEW r \in RunOf, Moves(w, r), UNCHANGED versions,
         AlertShape', AlertsGrow,
         \A x \in Worker : x # w /\ lock = x => lock' = x,
         r.pc = "commit" => lock' = w /\ r.ver = Len(versions),
         r.pc \in Handling => run[w].pc \in Handling /\ r.ver = run[w].ver,
         r.pc = "save" => Material(r.ver),
         r.pc = "send" => r.event \in 1 .. Len(alerts') /\ alerts'[r.event].status # "suppressed"
  PROVE  Writers'
  <1>1. run'[w] = r /\ \A x \in Worker : x # w => run'[x] = run[x]
    BY DEF Moves, Shape, RunShape
  <1>2. Len(alerts) \in Nat /\ Len(alerts') \in Nat /\ Len(alerts) <= Len(alerts')
    BY DEF AlertShape, AlertsGrow, Shape
  <1>3. ASSUME NEW x \in Worker
        PROVE  /\ run'[x].pc = "commit" => lock' = x /\ run'[x].ver = Len(versions')
               /\ run'[x].pc \in Handling => run'[x].ver \in 1 .. Len(versions')
               /\ run'[x].pc = "save" => Material(run'[x].ver)
               /\ run'[x].pc = "send" =>
                    run'[x].event \in 1 .. Len(alerts') /\ alerts'[run'[x].event].status # "suppressed"
    <2>1. CASE x = w
      BY <1>1, <2>1 DEF Writers
    <2>2. CASE x # w
      <3>1. run'[x] = run[x]
        BY <1>1, <2>2
      <3>2. run[x].pc = "send" =>
              run[x].event \in 1 .. Len(alerts') /\ alerts'[run[x].event].status # "suppressed"
        <4>1. run[x].pc = "send" =>
                run[x].event \in 1 .. Len(alerts) /\ alerts[run[x].event].status # "suppressed"
          BY DEF Writers
        <4> QED
          BY <1>2, <4>1 DEF AlertsGrow
      <3>3. run[x].pc = "commit" => lock' = x /\ run[x].ver = Len(versions)
        BY <2>2 DEF Writers
      <3> QED
        BY <3>1, <3>2, <3>3 DEF Writers
    <2> QED
      BY <2>1, <2>2
  <1>4. ASSUME NEW x \in Worker, NEW y \in Worker, run'[x].pc \in Handling, run'[y].pc \in Handling,
               run'[x].ver = run'[y].ver
        PROVE  x = y
    <2>1. \A z \in Worker : run'[z].pc \in Handling => run[z].pc \in Handling /\ run'[z].ver = run[z].ver
      BY <1>1
    <2> QED
      BY <1>4, <2>1 DEF Writers
  <1>5. (\A x \in Worker : run[x].pc = "save" => Material(run[x].ver))'
    BY <1>3 DEF Material
  <1> QED
    BY <1>3, <1>4, <1>5 DEF Writers

\* Decisions are only ever taken: no version becomes undecided again.
LEMMA DecidedMove ==
  ASSUME Shape, NEW w \in Worker, NEW r \in RunOf, Moves(w, r), UNCHANGED versions,
         r.pc \in {"match", "save"} => run[w].pc \in {"match", "save"} /\ r.ver = run[w].ver
  PROVE  /\ Decided \subseteq Decided' /\ Cardinality(Decided) <= Cardinality(Decided')
         /\ IsFiniteSet(Decided) /\ IsFiniteSet(Decided')
         /\ Cardinality(Decided) \in Nat /\ Cardinality(Decided') \in Nat
  <1>1. run'[w] = r /\ \A x \in Worker : x # w => run'[x] = run[x]
    BY DEF Moves, Shape, RunShape
  <1>2. \A v : Undecided(v)' => Undecided(v)
    BY <1>1 DEF Undecided
  <1>3. Decided \subseteq Decided'
    BY <1>2 DEF Decided, Material
  <1>4. Len(versions) \in Nat /\ IsFiniteSet(1 .. Len(versions))
    BY FS_Interval DEF Shape, StoreShape
  <1>5. Decided' \subseteq 1 .. Len(versions)
    BY DEF Decided
  <1> QED
    BY <1>3, <1>4, <1>5, FS_Subset, FS_CardinalityType

LEMMA CountedMove ==
  ASSUME Shape, Counted, NEW w \in Worker, NEW r \in RunOf, Moves(w, r), UNCHANGED versions,
         r.pc \in {"match", "save"} => run[w].pc \in {"match", "save"} /\ r.ver = run[w].ver,
         Len(alerts') = Len(alerts)
  PROVE  Counted'
  <1>1. Len(alerts) \in Nat
    BY DEF Shape, AlertShape
  <1> QED
    BY <1>1, DecidedMove DEF Counted

LEMMA SilentMove ==
  ASSUME Shape, Silent, AlertShape', AlertsGrow,
         \A i \in Len(alerts) + 1 .. Len(alerts') : ~ alerts'[i].sent
  PROVE  Silent'
  <1>1. Len(alerts) \in Nat /\ Len(alerts') \in Nat
    BY DEF Shape, AlertShape
  <1>2. ASSUME NEW i \in 1 .. Len(alerts'), alerts'[i].status = "suppressed"
        PROVE  ~ alerts'[i].sent
    <2>1. CASE i \in 1 .. Len(alerts)
      BY <1>2, <2>1 DEF AlertsGrow, Silent
    <2>2. CASE i \notin 1 .. Len(alerts)
      BY <1>1, <2>2
    <2> QED
      BY <2>1, <2>2
  <1> QED
    BY <1>2 DEF Silent

\* A version leaves a run when it is handled, not material, or lost to a fault.
LEMMA FollowedMove ==
  ASSUME Shape, Followed, NEW w \in Worker, NEW r \in RunOf, Moves(w, r), UNCHANGED versions,
         \A v \in 1 .. MaxVersions : done[v] \subseteq done'[v] /\ done'[v] \subseteq Stage,
         faults' = 0 => faults = 0,
         faults' = 0 /\ run[w].pc \in Handling /\ Material(run[w].ver) =>
           \/ done'[run[w].ver] = Stage
           \/ r.pc \in Handling /\ r.ver = run[w].ver /\ Reached(r.pc) \subseteq done'[run[w].ver]
  PROVE  Followed'
  <1>1. run'[w] = r /\ \A x \in Worker : x # w => run'[x] = run[x]
    BY DEF Moves, Shape, RunShape
  <1>2. Len(versions) \in Nat /\ Len(versions) <= MaxVersions /\ MaxVersions \in Nat
    BY Bounds DEF Shape, StoreShape
  <1>3. ASSUME faults' = 0, NEW v \in 1 .. Len(versions), Material(v)
        PROVE  Handled(v)'
    <2>1. v \in 1 .. MaxVersions
      BY <1>2
    <2>2. Handled(v)
      BY <1>3 DEF Followed
    <2>3. CASE done[v] = Stage
      BY <2>1, <2>3 DEF Handled
    <2>4. ASSUME NEW x \in Worker, run[x].pc \in Handling, run[x].ver = v, Reached(run[x].pc) \subseteq done[v]
          PROVE  Handled(v)'
      <3>1. CASE x = w
        <4>1. done'[v] = Stage \/ (r.pc \in Handling /\ r.ver = v /\ Reached(r.pc) \subseteq done'[v])
          BY <1>3, <2>4, <3>1
        <4> QED
          BY <1>1, <4>1 DEF Handled
      <3>2. CASE x # w
        BY <1>1, <2>1, <2>4, <3>2 DEF Handled
      <3> QED
        BY <3>1, <3>2
    <2> QED
      BY <2>2, <2>3, <2>4 DEF Handled
  <1> QED
    BY <1>3 DEF Followed, Material

\* A step of no run.
LEMMA FactsQuiet ==
  ASSUME Shape, Facts, UNCHANGED <<run, lock, versions, done>>, AlertShape', AlertsGrow,
         Len(alerts') = Len(alerts), faults' = 0 => faults = 0
  PROVE  RunShape' /\ Facts'
  <1>1. Len(alerts) \in Nat
    BY DEF Shape, AlertShape
  <1>2. RunShape'
    BY <1>1 DEF Shape, RunShape
  <1>3. Writers'
    <2>1. \A w \in Worker : run[w].pc = "send" =>
            run[w].event \in 1 .. Len(alerts') /\ alerts'[run[w].event].status # "suppressed"
      BY DEF Facts, Writers, AlertsGrow
    <2> QED
      BY <2>1 DEF Facts, Writers, Material
  <1>4. Distinct' /\ Counted'
    BY DEF Facts, Distinct, Counted, Decided, Material, Undecided
  <1>5. Silent'
    BY <1>1, SilentMove DEF Facts
  <1>6. Followed'
    BY DEF Facts, Followed, Handled, Material
  <1> QED
    BY <1>2, <1>3, <1>4, <1>5, <1>6 DEF Facts

-----------------------------------------------------------------------------
(* Schedulers, the schedule and the world. *)

\* No task is taken back.
TasksStay == \A k \in Key : task[k].status # "none" => task'[k].status # "none"

LEMMA TaskMove ==
  ASSUME task \in [Key -> TaskOf], Tasks, NEW k \in Key, NEW u \in TaskOf, task' = [task EXCEPT ![k] = u],
         u.status # "none", u.status = "queued" => u.attempts < MaxAttempts
  PROVE  task' \in [Key -> TaskOf] /\ Tasks' /\ TasksStay /\ task'[k].status # "none"
  <1>1. task' \in [Key -> TaskOf] /\ task'[k] = u /\ \A j \in Key : j # k => task'[j] = task[j]
    OBVIOUS
  <1>2. Tasks'
    <2>1. ASSUME NEW j \in Key
          PROVE  /\ task'[j].status = "none" => task'[j].attempts = 0
                 /\ task'[j].status = "queued" => task'[j].attempts < MaxAttempts
      BY <1>1 DEF Tasks
    <2> QED
      BY <2>1 DEF Tasks
  <1> QED
    BY <1>1, <1>2 DEF TasksStay

LEMMA EnqueueIs ==
  ASSUME task \in [Key -> TaskOf], Tasks, NEW k \in Key, Enqueue(k)
  PROVE  task' \in [Key -> TaskOf] /\ Tasks' /\ TasksStay /\ task'[k].status # "none"
  <1>1. CASE task[k].status = "none"
    <2>1. PICK u : u = [task[k] EXCEPT !.status = "queued"]
      OBVIOUS
    <2>2. u \in TaskOf /\ u.status = "queued" /\ u.attempts = 0
      BY <1>1, <2>1 DEF TaskOf, Tasks
    <2>3. task' = [task EXCEPT ![k] = u]
      BY <1>1, <2>1 DEF Enqueue
    <2>4. u.attempts < MaxAttempts
      BY <2>2, Bounds
    <2> QED
      BY <2>2, <2>3, <2>4, TaskMove
  <1>2. CASE task[k].status # "none"
    BY <1>2 DEF Enqueue, Tasks, TasksStay
  <1> QED
    BY <1>1, <1>2

LEMMA TicksStay ==
  ASSUME tick \in [Ticker -> TickOf], Ticks, TasksStay, UNCHANGED tick
  PROVE  Ticks'
  <1>1. \A t \in Ticker : tick[t].slot \in Key
    BY Bounds DEF TickOf
  <1> QED
    BY <1>1 DEF Ticks, TasksStay

\* A scheduler that has nothing in its hands any more.
LEMMA TickFree ==
  ASSUME tick \in [Ticker -> TickOf], Ticks, NEW t \in Ticker, UNCHANGED task,
         tick' = [tick EXCEPT ![t].pc = "idle", ![t].slot = 1]
  PROVE  tick' \in [Ticker -> TickOf] /\ Ticks'
  <1>1. PICK u : u = [tick[t] EXCEPT !.pc = "idle", !.slot = 1]
    OBVIOUS
  <1>2. u \in TickOf /\ u.pc = "idle"
    BY <1>1, Bounds DEF TickOf
  <1>3. tick' = [tick EXCEPT ![t] = u]
    BY <1>1
  <1>4. tick' \in [Ticker -> TickOf] /\ tick'[t] = u /\ \A x \in Ticker : x # t => tick'[x] = tick[x]
    BY <1>2, <1>3
  <1>5. \A x \in Ticker : tick'[x].pc = "queued" => task'[tick'[x].slot].status # "none"
    BY <1>2, <1>4 DEF Ticks
  <1> QED
    BY <1>4, <1>5 DEF Ticks

LEMMA NextRunIs ==
  ASSUME SchedulerShape
  PROVE  NextRun \in Slot
  BY Bounds DEF NextRun, SchedulerShape

LEMMA ScheduleIs ==
  ASSUME sched \in ScheduleOf
  PROVE  /\ sched.next \in Slot /\ sched.enabled \in BOOLEAN
         /\ \A b \in BOOLEAN :
              [sched EXCEPT !.leased = b] \in ScheduleOf /\ [sched EXCEPT !.present = b] \in ScheduleOf
         /\ \A n \in Slot : [sched EXCEPT !.next = n] \in ScheduleOf
         /\ \A n \in Slot, b \in BOOLEAN :
              /\ [sched EXCEPT !.enabled = b, !.next = n] \in ScheduleOf
              /\ [sched EXCEPT !.next = n, !.leased = b] \in ScheduleOf
  BY DEF ScheduleOf

LEMMA TickerKeeps ==
  ASSUME IInv, NEW t \in Ticker, ClaimDue(t) \/ QueueSlot(t) \/ Advance(t) \/ TickerStops(t)
  PROVE  IInv' /\ AlertsGrow
  <1> USE DEF IInv, Shape
  <1>1. /\ UNCHANGED <<now, versions, done, alerts, run, lock, world, changes>>
        /\ faults' \in 0 .. MaxFaults /\ (faults' = 0 => faults = 0)
    BY Bounds DEF ClaimDue, QueueSlot, Advance, TickerStops, stored, SchedulerShape
  <1>2. AlertShape' /\ AlertsGrow /\ Len(alerts') = Len(alerts)
    BY <1>1, AlertsSame
  <1>3. RunShape' /\ Facts'
    BY <1>1, <1>2, FactsQuiet
  <1>4. StoreShape'
    BY <1>1 DEF StoreShape
  <1>5. CASE ClaimDue(t)
    <2>0. sched.next \in Slot /\ [sched EXCEPT !.leased = TRUE] \in ScheduleOf
      BY ScheduleIs DEF SchedulerShape
    <2>1. sched' \in ScheduleOf /\ UNCHANGED task
      BY <1>5, <2>0 DEF ClaimDue
    <2>2. PICK u : u = [pc |-> "claimed", slot |-> sched.next]
      OBVIOUS
    <2>3. u \in TickOf /\ u.pc = "claimed"
      BY <2>0, <2>2 DEF TickOf
    <2>4. tick' = [tick EXCEPT ![t] = u]
      BY <1>5, <2>2 DEF ClaimDue
    <2>5. tick' \in [Ticker -> TickOf] /\ Ticks'
      BY <2>1, <2>3, <2>4 DEF SchedulerShape, Queues, Ticks
    <2> QED
      BY <1>1, <1>2, <1>3, <1>4, <2>1, <2>5 DEF SchedulerShape, Queues, Tasks
  <1>6. CASE QueueSlot(t)
    <2>1. UNCHANGED sched /\ Enqueue(tick[t].slot) /\ tick[t] \in TickOf /\ tick[t].slot \in Key
      BY <1>6, Bounds DEF QueueSlot, SchedulerShape, TickOf
    <2>2. task' \in [Key -> TaskOf] /\ Tasks' /\ TasksStay /\ task'[tick[t].slot].status # "none"
      BY <2>1, EnqueueIs DEF SchedulerShape, Queues
    <2>3. PICK u : u = [tick[t] EXCEPT !.pc = "queued"]
      OBVIOUS
    <2>4. u \in TickOf /\ u.slot = tick[t].slot
      BY <2>1, <2>3 DEF TickOf
    <2>5. tick' = [tick EXCEPT ![t] = u]
      BY <1>6, <2>3 DEF QueueSlot
    <2>6. tick' \in [Ticker -> TickOf]
      BY <2>4, <2>5 DEF SchedulerShape
    <2>7. ASSUME NEW x \in Ticker, tick'[x].pc = "queued" PROVE task'[tick'[x].slot].status # "none"
      <3>1. CASE x = t
        BY <2>2, <2>4, <2>5, <3>1 DEF SchedulerShape
      <3>2. CASE x # t
        <4>1. tick'[x] = tick[x] /\ tick[x].slot \in Key
          BY <2>5, <3>2, Bounds DEF SchedulerShape, TickOf
        <4> QED
          BY <2>2, <2>7, <4>1 DEF Queues, Ticks, TasksStay
      <3> QED
        BY <3>1, <3>2
    <2>8. Ticks'
      BY <2>7 DEF Ticks
    <2> QED
      BY <1>1, <1>2, <1>3, <1>4, <2>1, <2>2, <2>6, <2>8 DEF SchedulerShape, Queues
  <1>7. CASE Advance(t)
    <2>0. sched.next \in Slot /\ [sched EXCEPT !.next = NextRun] \in ScheduleOf
          /\ [sched EXCEPT !.next = sched.next] \in ScheduleOf
      BY ScheduleIs, NextRunIs DEF SchedulerShape
    <2>1. sched' \in ScheduleOf /\ UNCHANGED task
      BY <1>7, <2>0 DEF Advance
    <2>2. tick' \in [Ticker -> TickOf] /\ Ticks'
      BY <1>7, <2>1, TickFree DEF Advance, SchedulerShape, Queues
    <2> QED
      BY <1>1, <1>2, <1>3, <1>4, <2>1, <2>2 DEF SchedulerShape, Queues, Tasks
  <1>8. CASE TickerStops(t)
    <2>1. UNCHANGED <<sched, task>>
      BY <1>8 DEF TickerStops, stored
    <2>2. tick' \in [Ticker -> TickOf] /\ Ticks'
      BY <1>8, <2>1, TickFree DEF TickerStops, SchedulerShape, Queues
    <2> QED
      BY <1>1, <1>2, <1>3, <1>4, <2>1, <2>2 DEF SchedulerShape, Queues, Tasks
  <1> QED
    BY <1>5, <1>6, <1>7, <1>8

LEMMA ManualCount ==
  Cardinality({k \in Manual : task[k].status # "none"}) \in Nat
  <1>1. {k \in Manual : task[k].status # "none"} \subseteq Manual
    OBVIOUS
  <1> QED
    BY <1>1, SetAssumption, FS_Subset, FS_CardinalityType

LEMMA PassKeeps ==
  ASSUME IInv, Pass
  PROVE  IInv' /\ AlertsGrow
  <1> USE DEF IInv, Shape
  <1>1. UNCHANGED <<task, versions, done, tick, run, lock, world, changes, faults>>
    BY DEF Pass
  <1>2. /\ DOMAIN alerts' = 1 .. Len(alerts) /\ Len(alerts) \in Nat
        /\ \A i \in 1 .. Len(alerts) :
             alerts'[i] \in Event /\ alerts'[i].status = alerts[i].status /\ alerts'[i].sent = alerts[i].sent
    <2>1. DOMAIN alerts' = 1 .. Len(alerts) /\ Len(alerts) \in Nat
      BY DEF Pass, AlertShape
    <2>2. ASSUME NEW i \in 1 .. Len(alerts)
          PROVE  alerts'[i] \in Event /\ alerts'[i].status = alerts[i].status /\ alerts'[i].sent = alerts[i].sent
      <3>1. alerts[i] \in Event /\ alerts'[i] = [alerts[i] EXCEPT !.recent = FALSE]
        BY DEF Pass, AlertShape
      <3>2. PICK e : e = [alerts[i] EXCEPT !.recent = FALSE]
        OBVIOUS
      <3>3. e \in Event /\ e.status = alerts[i].status /\ e.sent = alerts[i].sent
        BY <3>1, <3>2 DEF Event
      <3> QED
        BY <3>1, <3>2, <3>3
    <2> QED
      BY <2>1, <2>2
  <1>3. alerts' \in Seq(Event) /\ Len(alerts') = Len(alerts)
    <2>1. alerts' = [i \in 1 .. Len(alerts) |-> alerts'[i]]
      BY DEF Pass
    <2>2. alerts' \in [1 .. Len(alerts) -> Event]
      BY <1>2, <2>1
    <2> QED
      BY <1>2, <2>2, SeqDef
  <1>4. AlertShape' /\ AlertsGrow
    BY <1>2, <1>3 DEF AlertShape, AlertsGrow
  <1>5. RunShape' /\ Facts'
    BY <1>1, <1>3, <1>4, FactsQuiet
  <1>6. StoreShape' /\ Queues'
    BY <1>1 DEF StoreShape, Queues, Tasks, Ticks
  <1>7. now' \in 1 .. MaxRuns
    BY ManualCount, Bounds DEF Pass, MoreRuns, SchedulerShape
  <1>8. SchedulerShape'
    <2>1. [sched EXCEPT !.leased = FALSE] \in ScheduleOf
      BY ScheduleIs DEF SchedulerShape
    <2> QED
      BY <1>1, <1>7, <2>1 DEF Pass, SchedulerShape
  <1> QED
    BY <1>4, <1>5, <1>6, <1>8

LEMMA ManualKeeps ==
  ASSUME IInv, (\E k \in Manual : RunNow(k)) \/ (\E k \in Key : Gone(k))
  PROVE  IInv' /\ AlertsGrow
  <1> USE DEF IInv, Shape
  <1>1. UNCHANGED <<now, sched, versions, done, alerts, tick, run, lock, world, changes, faults>>
    BY DEF RunNow, Gone
  <1>2. AlertShape' /\ AlertsGrow /\ Len(alerts') = Len(alerts)
    BY <1>1, AlertsSame
  <1>3. RunShape' /\ Facts'
    BY <1>1, <1>2, FactsQuiet
  <1>4. task' \in [Key -> TaskOf] /\ Tasks' /\ TasksStay
    <2>1. CASE \E k \in Manual : RunNow(k)
      BY <2>1, EnqueueIs, Bounds DEF RunNow, SchedulerShape, Queues
    <2>2. ASSUME NEW k \in Key, Gone(k) PROVE task' \in [Key -> TaskOf] /\ Tasks' /\ TasksStay
      <3>1. task[k].status = "queued" /\ task[k] \in TaskOf /\ task[k].attempts < MaxAttempts
        BY <2>2 DEF Gone, SchedulerShape, Queues, Tasks
      <3>2. PICK s : s = IF task[k].attempts + 1 < MaxAttempts THEN "queued" ELSE "dead_letter"
        OBVIOUS
      <3>3. PICK u : u = [task[k] EXCEPT !.attempts = task[k].attempts + 1, !.status = s]
        OBVIOUS
      <3>4. u \in TaskOf /\ u.status = s /\ u.attempts = task[k].attempts + 1
        <4>1. s \in {"queued", "dead_letter"} /\ task[k].attempts + 1 \in 0 .. MaxAttempts
          BY <3>1, <3>2, Bounds DEF TaskOf
        <4> QED
          BY <3>1, <3>3, <4>1 DEF TaskOf
      <3>5. task' = [task EXCEPT ![k] = u]
        BY <2>2, <3>1, <3>2, <3>3 DEF Gone
      <3> QED
        BY <3>2, <3>4, <3>5, TaskMove DEF SchedulerShape, Queues
    <2> QED
      BY <2>1, <2>2
  <1>5. Ticks'
    BY <1>1, <1>4, TicksStay DEF SchedulerShape, Queues
  <1>6. SchedulerShape' /\ StoreShape'
    BY <1>1, <1>4 DEF SchedulerShape, StoreShape
  <1> QED
    BY <1>2, <1>3, <1>4, <1>5, <1>6 DEF Queues

LEMMA WorldKeeps ==
  ASSUME IInv, UpdateSchedule \/ WorldChanges
  PROVE  IInv' /\ AlertsGrow
  <1> USE DEF IInv, Shape
  <1>1. /\ UNCHANGED <<now, task, versions, done, alerts, tick, run, lock>>
        /\ faults' \in 0 .. MaxFaults /\ (faults' = 0 => faults = 0)
    BY Bounds DEF UpdateSchedule, WorldChanges, stored, SchedulerShape
  <1>2. AlertShape' /\ AlertsGrow /\ Len(alerts') = Len(alerts)
    BY <1>1, AlertsSame
  <1>3. RunShape' /\ Facts'
    BY <1>1, <1>2, FactsQuiet
  <1>4. Queues'
    BY <1>1 DEF Queues, Tasks, Ticks
  <1>5. world' \in Content /\ changes' \in 0 .. MaxChanges
    BY BoundAssumption DEF UpdateSchedule, WorldChanges, StoreShape, Content
  <1>6. sched' \in ScheduleOf
    <2>1. [sched EXCEPT !.enabled = ~ sched.enabled, !.next = NextRun] \in ScheduleOf
          /\ [sched EXCEPT !.present = FALSE] \in ScheduleOf
      BY ScheduleIs, NextRunIs DEF SchedulerShape
    <2> QED
      BY <2>1 DEF UpdateSchedule, WorldChanges, stored, SchedulerShape
  <1> QED
    BY <1>1, <1>2, <1>3, <1>4, <1>5, <1>6 DEF SchedulerShape, StoreShape

LEMMA DispatchKeeps ==
  ASSUME IInv, NEW i \in 1 .. Len(alerts), NEW ok \in BOOLEAN, DispatchPending(i, ok)
  PROVE  IInv' /\ AlertsGrow
  <1> USE DEF IInv, Shape
  <1>1. /\ UNCHANGED <<now, sched, task, versions, done, tick, run, lock, world, changes, faults>>
        /\ alerts' = Delivered(i, ok) /\ alerts[i].status = "pending"
    BY DEF DispatchPending, Pending
  <1>2. AlertShape' /\ AlertsGrow /\ Len(alerts') = Len(alerts)
    BY <1>1, DeliveredIs
  <1>3. RunShape' /\ Facts'
    BY <1>1, <1>2, FactsQuiet
  <1> QED
    BY <1>1, <1>2, <1>3 DEF SchedulerShape, StoreShape, Queues, Tasks, Ticks

-----------------------------------------------------------------------------
(* Runs. *)

\* A step that moves run w to r and stores no version.
LEMMA WorkerMove ==
  ASSUME IInv, NEW w \in Worker, NEW r \in RunOf, Moves(w, r),
         UNCHANGED <<now, versions, tick, world, changes>>,
         sched' \in ScheduleOf, task' \in [Key -> TaskOf], Tasks', TasksStay,
         lock' \in {"none"} \cup Worker,
         \A x \in Worker : x # w /\ lock = x => lock' = x,
         faults' \in 0 .. MaxFaults, faults' = 0 => faults = 0,
         done' \in [1 .. MaxVersions -> SUBSET Stage],
         \A v \in 1 .. MaxVersions : done[v] \subseteq done'[v],
         AlertShape', AlertsGrow, Silent', Counted', r.event \in 0 .. Len(alerts'),
         r.pc = "commit" => lock' = w /\ r.ver = Len(versions),
         r.pc \in Handling => run[w].pc \in Handling /\ r.ver = run[w].ver,
         r.pc = "save" => Material(r.ver),
         r.pc = "send" => r.event \in 1 .. Len(alerts') /\ alerts'[r.event].status # "suppressed",
         faults' = 0 /\ run[w].pc \in Handling /\ Material(run[w].ver) =>
           \/ done'[run[w].ver] = Stage
           \/ r.pc \in Handling /\ r.ver = run[w].ver /\ Reached(r.pc) \subseteq done'[run[w].ver]
  PROVE  IInv'
  <1>1. SchedulerShape'
    BY DEF IInv, Shape, SchedulerShape
  <1>2. RunShape'
    BY RunShapeMove DEF IInv, Shape
  <1>3. StoreShape'
    BY DEF IInv, Shape, StoreShape
  <1>4. Queues'
    BY TicksStay DEF IInv, Shape, SchedulerShape, Queues
  <1>5. Writers'
    BY WritersMove DEF IInv, Facts
  <1>6. Distinct'
    BY DEF IInv, Facts, Distinct
  <1>7. Followed'
    <2>1. \A v \in 1 .. MaxVersions : done[v] \subseteq done'[v] /\ done'[v] \subseteq Stage
      OBVIOUS
    <2> QED
      BY <2>1, FollowedMove DEF IInv, Facts
  <1> QED
    BY <1>1, <1>2, <1>3, <1>4, <1>5, <1>6, <1>7 DEF IInv, Shape, Facts

\* The same for a step that touches neither the events nor the stages.
LEMMA WorkerQuiet ==
  ASSUME IInv, NEW w \in Worker, NEW r \in RunOf, Moves(w, r),
         UNCHANGED <<now, versions, tick, world, changes, alerts, done>>,
         sched' \in ScheduleOf, task' \in [Key -> TaskOf], Tasks', TasksStay,
         lock' \in {"none"} \cup Worker,
         \A x \in Worker : x # w /\ lock = x => lock' = x,
         faults' \in 0 .. MaxFaults, faults' = 0 => faults = 0,
         r.event \in 0 .. Len(alerts),
         r.pc = "commit" => lock' = w /\ r.ver = Len(versions),
         r.pc \in Handling => run[w].pc \in Handling /\ r.ver = run[w].ver /\ r.pc \notin {"match", "save", "send"},
         faults' = 0 /\ run[w].pc \in Handling => ~ Material(run[w].ver)
  PROVE  IInv' /\ AlertsGrow
  <1>1. AlertShape' /\ AlertsGrow /\ Len(alerts') = Len(alerts)
    BY AlertsSame DEF IInv, Shape
  <1>2. Silent'
    BY DEF IInv, Facts, Silent
  <1>3. Counted'
    BY <1>1, CountedMove DEF IInv, Facts, Handling
  <1>4. r.event \in 0 .. Len(alerts') /\ r.pc # "save" /\ r.pc # "send"
    BY <1>1 DEF Handling
  <1>5. \A v \in 1 .. MaxVersions : done[v] \subseteq done'[v]
    OBVIOUS
  <1>6. done' \in [1 .. MaxVersions -> SUBSET Stage]
    BY DEF IInv, Shape, StoreShape
  <1>7. IInv'
    BY <1>1, <1>2, <1>3, <1>4, <1>5, <1>6, WorkerMove
  <1> QED
    BY <1>1, <1>7

\* What a step leaves alone is still what it was.
LEMMA Still ==
  ASSUME IInv
  PROVE  /\ UNCHANGED task => task' \in [Key -> TaskOf] /\ Tasks' /\ TasksStay
         /\ UNCHANGED sched => sched' \in ScheduleOf
         /\ UNCHANGED lock => lock' \in {"none"} \cup Worker /\ \A x \in Worker : lock = x => lock' = x
         /\ UNCHANGED faults => faults' \in 0 .. MaxFaults /\ (faults' = 0 => faults = 0)
         /\ (faults < MaxFaults /\ faults' = faults + 1) => faults' \in 0 .. MaxFaults /\ faults' # 0
         /\ \A w \in Worker : lock' = Unlocked(w) =>
              lock' \in {"none"} \cup Worker /\ \A x \in Worker : x # w /\ lock = x => lock' = x
  <1>1. UNCHANGED task => task' \in [Key -> TaskOf] /\ Tasks' /\ TasksStay
    BY DEF IInv, Shape, SchedulerShape, Queues, Tasks, TasksStay
  <1>2. UNCHANGED faults => faults' \in 0 .. MaxFaults /\ (faults' = 0 => faults = 0)
    BY DEF IInv, Shape, SchedulerShape
  <1>3. (faults < MaxFaults /\ faults' = faults + 1) => faults' \in 0 .. MaxFaults /\ faults' # 0
    BY Bounds DEF IInv, Shape, SchedulerShape
  <1>4. lock \in {"none"} \cup Worker /\ sched \in ScheduleOf
    BY DEF IInv, Shape, StoreShape, SchedulerShape
  <1> QED
    BY <1>1, <1>2, <1>3, <1>4 DEF Unlocked

LEMMA AlertsLen ==
  ASSUME IInv
  PROVE  Len(alerts) \in Nat /\ 0 \in 0 .. Len(alerts) /\ \A w \in Worker : run[w].event \in 0 .. Len(alerts)
  BY DEF IInv, Shape, AlertShape, RunShape

LEMMA ClaimKeeps ==
  ASSUME IInv, NEW w \in Worker, NEW k \in Key, Claim(w, k)
  PROVE  IInv' /\ AlertsGrow
  <1>1. /\ UNCHANGED <<now, versions, tick, world, changes, alerts, done, lock, faults>>
        /\ run[w].pc = "idle" /\ task[k].status = "queued" /\ task[k] \in TaskOf
        /\ task[k].attempts < MaxAttempts
    BY DEF Claim, IInv, Shape, SchedulerShape, Queues, Tasks
  <1>2. PICK f \in RunOf : f = Free
    BY FreeIs
  <1>3. PICK r : r = [f EXCEPT !.pc = "collect", !.key = k]
    OBVIOUS
  <1>4. r \in RunOf /\ r.pc = "collect" /\ r.event = f.event
    BY <1>3 DEF RunOf, Elsewhere
  <1>5. Moves(w, r)
    BY <1>2, <1>3 DEF Claim, Moves
  <1>6. PICK u : u = [task[k] EXCEPT !.status = "running", !.attempts = task[k].attempts + 1]
    OBVIOUS
  <1>7. u \in TaskOf /\ u.status = "running"
    <2>1. task[k].attempts + 1 \in 0 .. MaxAttempts
      BY <1>1, Bounds DEF TaskOf
    <2> QED
      BY <1>1, <1>6, <2>1 DEF TaskOf
  <1>8. task' = [task EXCEPT ![k] = u]
    BY <1>6 DEF Claim
  <1>9. task' \in [Key -> TaskOf] /\ Tasks' /\ TasksStay
    BY <1>7, <1>8, TaskMove DEF IInv, Shape, SchedulerShape, Queues
  <1>10. sched' \in ScheduleOf
    <2>1. [sched EXCEPT !.next = NextRun] \in ScheduleOf
      BY ScheduleIs, NextRunIs DEF IInv, Shape, SchedulerShape
    <2> QED
      BY <2>1 DEF Claim
  <1>11. r.event \in 0 .. Len(alerts)
    BY <1>2, <1>4, FreeIs, AlertsLen
  <1>12. r.pc \notin Handling /\ run[w].pc \notin Handling
    BY <1>1, <1>4 DEF Handling
  <1> QED
    BY <1>1, <1>4, <1>5, <1>9, <1>10, <1>11, <1>12, Still, WorkerQuiet

LEMMA WorkerStopsKeeps ==
  ASSUME IInv, NEW w \in Worker, WorkerStops(w)
  PROVE  IInv' /\ AlertsGrow
  <1>1. /\ UNCHANGED <<now, sched, versions, tick, world, changes, alerts, done>>
        /\ faults < MaxFaults /\ faults' = faults + 1 /\ lock' = Unlocked(w)
    BY DEF WorkerStops, Abandon
  <1>2. PICK r \in RunOf : r = Free
    BY FreeIs
  <1>3. Moves(w, r)
    BY <1>2 DEF WorkerStops, Abandon, Moves
  <1>4. PICK k \in Key : k = run[w].key
    BY DEF IInv, Shape, RunShape, RunOf
  <1>5. PICK s : s = IF task[k].attempts < MaxAttempts THEN "queued" ELSE "dead_letter"
    OBVIOUS
  <1>6. PICK u : u = [task[k] EXCEPT !.status = s]
    OBVIOUS
  <1>7. u \in TaskOf /\ u.status = s /\ u.attempts = task[k].attempts
    <2>1. task[k] \in TaskOf /\ s \in {"queued", "dead_letter"}
      BY <1>5 DEF IInv, Shape, SchedulerShape
    <2> QED
      BY <1>6, <2>1 DEF TaskOf
  <1>8. task' = [task EXCEPT ![k] = u]
    BY <1>4, <1>5, <1>6 DEF WorkerStops, Abandon
  <1>9. task' \in [Key -> TaskOf] /\ Tasks' /\ TasksStay
    BY <1>5, <1>7, <1>8, TaskMove DEF IInv, Shape, SchedulerShape, Queues
  <1>10. r.event \in 0 .. Len(alerts) /\ r.pc = "idle" /\ r.pc \notin Handling
    BY <1>2, FreeIs, AlertsLen DEF Handling
  <1>11. sched' \in ScheduleOf /\ faults' \in 0 .. MaxFaults /\ faults' # 0
    BY <1>1, Still
  <1>12. lock' \in {"none"} \cup Worker /\ \A x \in Worker : x # w /\ lock = x => lock' = x
    BY <1>1, Still
  <1> QED
    BY <1>1, <1>3, <1>9, <1>10, <1>11, <1>12, WorkerQuiet

LEMMA CollectKeeps ==
  ASSUME IInv, NEW w \in Worker, Collect(w)
  PROVE  IInv' /\ AlertsGrow
  <1>1. /\ UNCHANGED <<now, sched, task, versions, tick, world, changes, alerts, done, lock, faults>>
        /\ run[w].pc = "collect" /\ run[w].pc \notin Handling
    BY DEF Collect, stored, Handling
  <1>2. PICK r : r = [run[w] EXCEPT !.pc = "store", !.seen = world]
    OBVIOUS
  <1>3. r \in RunOf /\ r.pc = "store" /\ r.event = run[w].event
    BY <1>2 DEF IInv, Shape, RunShape, StoreShape, RunOf, Elsewhere
  <1>4. Moves(w, r)
    BY <1>2 DEF Collect, Moves
  <1>5. r.event \in 0 .. Len(alerts) /\ r.pc \notin Handling
    BY <1>3, AlertsLen DEF Handling
  <1> QED
    BY <1>1, <1>3, <1>4, <1>5, Still, WorkerQuiet

\* A run that ends without a stage of its own.
LEMMA OverKeeps ==
  ASSUME IInv, NEW w \in Worker, Fails(w) \/ Unchanged(w) \/ Skip(w)
  PROVE  IInv' /\ AlertsGrow
  <1>1. /\ UNCHANGED <<now, sched, task, versions, tick, world, changes, alerts, done>>
        /\ Over(w)
        /\ lock' \in {"none"} \cup Worker /\ (\A x \in Worker : x # w /\ lock = x => lock' = x)
        /\ faults' \in 0 .. MaxFaults /\ (faults' = 0 => faults = 0)
        /\ (faults' = 0 /\ run[w].pc \in Handling => ~ Material(run[w].ver))
    <2>1. CASE Fails(w)
      BY <2>1, Still DEF Fails, stored
    <2>2. CASE Unchanged(w)
      BY <2>2, Still DEF Unchanged, stored, Handling
    <2>3. CASE Skip(w)
      BY <2>3, Still DEF Skip, stored
    <2> QED
      BY <2>1, <2>2, <2>3
  <1>2. PICK r \in RunOf : /\ run' = [run EXCEPT ![w] = r]
                           /\ r.pc = "finish" /\ r.ver = 0 /\ r.event = 0
    BY <1>1, OverIs DEF IInv, Shape
  <1>3. Moves(w, r) /\ r.event \in 0 .. Len(alerts) /\ r.pc \notin Handling
    BY <1>2, AlertsLen DEF Moves, Handling
  <1> QED
    BY <1>1, <1>2, <1>3, Still, WorkerQuiet

LEMMA StoreKeeps ==
  ASSUME IInv, NEW w \in Worker, Store(w)
  PROVE  IInv' /\ AlertsGrow
  <1>1. /\ UNCHANGED <<now, sched, task, versions, tick, world, changes, alerts, done, faults>>
        /\ lock = "none" /\ lock' = w /\ run[w].pc = "store" /\ run[w].pc \notin Handling
    BY DEF Store, stored, Handling
  <1>2. PICK r : r = [run[w] EXCEPT !.pc = "commit", !.ver = Len(versions)]
    OBVIOUS
  <1>3. r \in RunOf /\ r.pc = "commit" /\ r.event = run[w].event /\ r.ver = Len(versions)
    <2>1. Len(versions) \in Version
      BY Bounds DEF IInv, Shape, StoreShape, Version
    <2>2. run[w] \in RunOf
      BY DEF IInv, Shape, RunShape
    <2> QED
      BY <1>2, <2>1, <2>2 DEF RunOf
  <1>4. Moves(w, r)
    BY <1>2 DEF Store, Moves
  <1>5. r.event \in 0 .. Len(alerts) /\ r.pc \notin Handling
    BY <1>3, AlertsLen DEF Handling
  <1>6. lock' \in {"none"} \cup Worker /\ \A x \in Worker : x # w /\ lock = x => lock' = x
    BY <1>1, SetAssumption
  <1> QED
    BY <1>1, <1>3, <1>4, <1>5, <1>6, Still, WorkerQuiet

LEMMA FinishKeeps ==
  ASSUME IInv, NEW w \in Worker, Finish(w)
  PROVE  IInv' /\ AlertsGrow
  <1>1. /\ UNCHANGED <<now, versions, tick, world, changes, alerts, done, lock, faults>>
        /\ run[w].pc = "finish" /\ run[w].pc \notin Handling
    BY DEF Finish, Handling
  <1>2. PICK r \in RunOf : r = Free
    BY FreeIs
  <1>3. Moves(w, r)
    BY <1>2 DEF Finish, Moves
  <1>4. PICK k \in Key : k = run[w].key
    BY DEF IInv, Shape, RunShape, RunOf
  <1>5. PICK u : u = [task[k] EXCEPT !.status = "succeeded"]
    OBVIOUS
  <1>6. u \in TaskOf /\ u.status = "succeeded"
    BY <1>5 DEF IInv, Shape, SchedulerShape, TaskOf
  <1>7. task' = [task EXCEPT ![k] = u]
    BY <1>4, <1>5 DEF Finish
  <1>8. task' \in [Key -> TaskOf] /\ Tasks' /\ TasksStay
    BY <1>6, <1>7, TaskMove DEF IInv, Shape, SchedulerShape, Queues
  <1>9. sched' \in ScheduleOf
    <2>1. PICK n \in Slot : n = IF sched.present THEN NextRun ELSE sched.next
      BY ScheduleIs, NextRunIs DEF IInv, Shape, SchedulerShape
    <2>2. [sched EXCEPT !.next = n, !.leased = FALSE] \in ScheduleOf
      BY ScheduleIs DEF IInv, Shape, SchedulerShape
    <2> QED
      BY <2>1, <2>2 DEF Finish
  <1>10. r.event \in 0 .. Len(alerts) /\ r.pc = "idle" /\ r.pc \notin Handling
    BY <1>2, FreeIs, AlertsLen DEF Handling
  <1> QED
    BY <1>1, <1>3, <1>8, <1>9, <1>10, Still, WorkerQuiet

\* Without a fault the version in a run's hands has the stages the run went through.
LEMMA InHand ==
  ASSUME IInv, NEW w \in Worker, run[w].pc \in Handling, faults = 0, Material(run[w].ver)
  PROVE  done[run[w].ver] = Stage \/ Reached(run[w].pc) \subseteq done[run[w].ver]
  <1>1. run[w].ver \in 1 .. Len(versions)
    BY DEF IInv, Facts, Writers
  <1>2. Handled(run[w].ver)
    BY <1>1 DEF IInv, Facts, Followed
  <1>3. ASSUME NEW x \in Worker, run[x].pc \in Handling, run[x].ver = run[w].ver,
               Reached(run[x].pc) \subseteq done[run[w].ver]
        PROVE  Reached(run[w].pc) \subseteq done[run[w].ver]
    <2>1. x = w
      BY <1>3 DEF IInv, Facts, Writers
    <2> QED
      BY <1>3, <2>1
  <1> QED
    BY <1>2, <1>3 DEF Handled

LEMMA VersionInHand ==
  ASSUME IInv, NEW w \in Worker, run[w].pc \in Handling
  PROVE  run[w].ver \in 1 .. Len(versions) /\ run[w].ver \in 1 .. MaxVersions /\ Len(versions) \in Nat
  <1>1. run[w].ver \in 1 .. Len(versions)
    BY DEF IInv, Facts, Writers
  <1>2. Len(versions) \in Nat /\ Len(versions) <= MaxVersions /\ MaxVersions \in Nat
    BY Bounds DEF IInv, Shape, StoreShape
  <1> QED
    BY <1>1, <1>2

LEMMA DoneIs ==
  ASSUME IInv, NEW w \in Worker, run[w].pc \in Handling, NEW s \in Stage, Done(w, s)
  PROVE  /\ done' \in [1 .. MaxVersions -> SUBSET Stage]
         /\ \A v \in 1 .. MaxVersions : done[v] \subseteq done'[v]
         /\ done'[run[w].ver] = done[run[w].ver] \cup {s}
  <1>1. run[w].ver \in 1 .. MaxVersions
    BY VersionInHand
  <1>2. done \in [1 .. MaxVersions -> SUBSET Stage]
    BY DEF IInv, Shape, StoreShape
  <1>3. done[run[w].ver] \cup {s} \in SUBSET Stage
    BY <1>1, <1>2
  <1> QED
    BY <1>1, <1>2, <1>3 DEF Done

LEMMA DoneStill ==
  ASSUME IInv, UNCHANGED done
  PROVE  done' \in [1 .. MaxVersions -> SUBSET Stage] /\ \A v \in 1 .. MaxVersions : done[v] \subseteq done'[v]
  BY DEF IInv, Shape, StoreShape

\* A run that goes on with its version and raises no event.
LEMMA OnwardKeeps ==
  ASSUME IInv, NEW w \in Worker, Match(w) \/ QueueKnowledge(w) \/ Degrades(w)
  PROVE  IInv' /\ AlertsGrow
  <1>1. /\ UNCHANGED <<now, sched, task, versions, tick, world, changes, alerts, lock>>
        /\ run[w].pc \in Handling
    BY DEF Match, QueueKnowledge, Degrades, stored, Handling
  <1>2. /\ faults' \in 0 .. MaxFaults
        /\ faults' = 0 => UNCHANGED faults /\ faults = 0
    <2>1. CASE Match(w) \/ QueueKnowledge(w)
      BY <2>1, Still DEF Match, QueueKnowledge
    <2>2. CASE Degrades(w)
      BY <2>2, Still DEF Degrades
    <2> QED
      BY <2>1, <2>2
  <1>3. PICK pc \in {"save", "knowledge", "deep"} :
          /\ To(w, pc)
          /\ pc = "save" => run[w].pc = "match" /\ Material(run[w].ver)
          /\ done' \in [1 .. MaxVersions -> SUBSET Stage]
          /\ \A v \in 1 .. MaxVersions : done[v] \subseteq done'[v]
          /\ faults' = 0 /\ Material(run[w].ver) =>
               done'[run[w].ver] = Stage \/ Reached(pc) \subseteq done'[run[w].ver]
    <2>1. CASE Match(w) /\ Material(run[w].ver) /\ ~ FindRecent(w)
      <3>1. To(w, "save") /\ UNCHANGED done /\ run[w].pc = "match"
        BY <2>1 DEF Match
      <3> QED
        BY <2>1, <3>1, DoneStill DEF Reached
    <2>2. CASE Match(w) /\ ~ (Material(run[w].ver) /\ ~ FindRecent(w))
      <3>1. To(w, "knowledge") /\ Done(w, "alerted") /\ "alerted" \in Stage
        BY <2>2 DEF Match, Stage
      <3>2. done' \in [1 .. MaxVersions -> SUBSET Stage] /\ (\A v \in 1 .. MaxVersions : done[v] \subseteq done'[v])
            /\ Reached("knowledge") \subseteq done'[run[w].ver]
        BY <1>1, <3>1, DoneIs DEF Reached
      <3> QED
        BY <3>1, <3>2
    <2>3. CASE QueueKnowledge(w)
      <3>1. To(w, "deep") /\ Done(w, "queued") /\ "queued" \in Stage /\ Material(run[w].ver) /\ run[w].pc = "knowledge"
        BY <2>3 DEF QueueKnowledge, Stage
      <3>2. done' \in [1 .. MaxVersions -> SUBSET Stage] /\ (\A v \in 1 .. MaxVersions : done[v] \subseteq done'[v])
            /\ done'[run[w].ver] = done[run[w].ver] \cup {"queued"}
        BY <1>1, <3>1, DoneIs
      <3>3. faults = 0 => done[run[w].ver] = Stage \/ {"alerted"} \subseteq done[run[w].ver]
        BY <1>1, <3>1, InHand DEF Reached
      <3>4. faults' = 0 => done'[run[w].ver] = Stage \/ Reached("deep") \subseteq done'[run[w].ver]
        BY <1>2, <3>2, <3>3 DEF Reached, Stage
      <3> QED
        BY <3>1, <3>2, <3>4
    <2>4. CASE Degrades(w)
      <3>1. faults' # 0 /\ UNCHANGED done
        BY <2>4, Still DEF Degrades, stored
      <3>2. \E pc \in {"knowledge", "deep"} : To(w, pc)
        BY <2>4 DEF Degrades
      <3> QED
        BY <3>1, <3>2, DoneStill
    <2> QED
      BY <2>1, <2>2, <2>3, <2>4
  <1>4. PICK r \in RunOf : /\ run' = [run EXCEPT ![w] = r]
                           /\ r.pc = pc /\ r.ver = run[w].ver /\ r.event = run[w].event
    BY <1>3, ToIs DEF IInv, Shape, Handling
  <1>5. AlertShape' /\ AlertsGrow /\ Len(alerts') = Len(alerts)
    BY <1>1, AlertsSame DEF IInv, Shape
  <1>6. Silent'
    BY <1>1 DEF IInv, Facts, Silent
  <1>7. Moves(w, r) /\ r.pc # "commit" /\ r.pc # "send" /\ r.pc \in Handling /\ r.event \in 0 .. Len(alerts')
    BY <1>3, <1>4, <1>5, AlertsLen DEF Moves, Handling
  <1>8. Counted'
    BY <1>1, <1>3, <1>4, <1>5, <1>7, CountedMove DEF IInv, Facts
  <1>9. r.pc = "save" => Material(r.ver)
    BY <1>3, <1>4
  <1>10. faults' = 0 /\ run[w].pc \in Handling /\ Material(run[w].ver) =>
           \/ done'[run[w].ver] = Stage
           \/ r.pc \in Handling /\ r.ver = run[w].ver /\ Reached(r.pc) \subseteq done'[run[w].ver]
    BY <1>3, <1>4, <1>7
  <1>11. IInv'
    BY <1>1, <1>2, <1>3, <1>4, <1>5, <1>6, <1>7, <1>8, <1>9, <1>10, Still, WorkerMove
  <1> QED
    BY <1>5, <1>11

LEMMA DeepKeeps ==
  ASSUME IInv, NEW w \in Worker, DeepAnalysis(w)
  PROVE  IInv' /\ AlertsGrow
  <1>1. /\ UNCHANGED <<now, sched, task, versions, tick, world, changes, alerts, lock, faults>>
        /\ run[w].pc = "deep" /\ run[w].pc \in Handling /\ Over(w) /\ Done(w, "analysed") /\ "analysed" \in Stage
    BY DEF DeepAnalysis, Handling, Stage
  <1>2. PICK r \in RunOf : /\ run' = [run EXCEPT ![w] = r]
                           /\ r.pc = "finish" /\ r.ver = 0 /\ r.event = 0
    BY <1>1, OverIs DEF IInv, Shape
  <1>3. /\ done' \in [1 .. MaxVersions -> SUBSET Stage] /\ \A v \in 1 .. MaxVersions : done[v] \subseteq done'[v]
        /\ done'[run[w].ver] = done[run[w].ver] \cup {"analysed"}
    BY <1>1, DoneIs
  <1>4. AlertShape' /\ AlertsGrow /\ Len(alerts') = Len(alerts)
    BY <1>1, AlertsSame DEF IInv, Shape
  <1>5. Silent'
    BY <1>1 DEF IInv, Facts, Silent
  <1>6. Moves(w, r) /\ r.pc \notin Handling /\ r.pc \notin {"commit", "match", "save", "send"}
        /\ r.event \in 0 .. Len(alerts')
    BY <1>2, <1>4, AlertsLen DEF Moves, Handling
  <1>7. Counted'
    BY <1>1, <1>4, <1>6, CountedMove DEF IInv, Facts
  <1>8. faults' = 0 /\ Material(run[w].ver) => done'[run[w].ver] = Stage
    <2>1. faults = 0 /\ Material(run[w].ver) =>
            done[run[w].ver] = Stage \/ {"alerted", "queued"} \subseteq done[run[w].ver]
      BY <1>1, InHand DEF Reached
    <2>2. done[run[w].ver] \subseteq Stage
      BY <1>1, VersionInHand DEF IInv, Shape, StoreShape
    <2> QED
      BY <1>1, <1>3, <2>1, <2>2 DEF Stage
  <1>9. IInv'
    BY <1>1, <1>3, <1>4, <1>5, <1>6, <1>7, <1>8, Still, WorkerMove
  <1> QED
    BY <1>4, <1>9

LEMMA SendKeeps ==
  ASSUME IInv, NEW w \in Worker, NEW ok \in BOOLEAN, Send(w, ok)
  PROVE  IInv' /\ AlertsGrow
  <1>1. /\ UNCHANGED <<now, sched, task, versions, tick, world, changes, done, lock, faults>>
        /\ run[w].pc = "send" /\ run[w].pc \in Handling /\ alerts' = Delivered(run[w].event, ok)
        /\ run[w].event \in 1 .. Len(alerts) /\ alerts[run[w].event].status # "suppressed"
    BY DEF Send, Handling, IInv, Facts, Writers
  <1>2. AlertShape' /\ AlertsGrow /\ Len(alerts') = Len(alerts)
    BY <1>1, DeliveredIs DEF IInv, Shape
  <1>3. Silent'
    BY <1>2, AlertsLen, SilentMove DEF IInv, Facts
  <1>4. PICK r : r = [run[w] EXCEPT !.event = 0, !.pc = "knowledge"]
    OBVIOUS
  <1>5. r \in RunOf /\ r.pc = "knowledge" /\ r.event = 0 /\ r.ver = run[w].ver
    BY <1>4 DEF IInv, Shape, RunShape, RunOf, Handling
  <1>6. Moves(w, r) /\ r.pc \in Handling /\ r.event \in 0 .. Len(alerts')
    BY <1>2, <1>4, <1>5, AlertsLen DEF Moves, Handling, Send
  <1>7. Counted'
    BY <1>1, <1>2, <1>5, <1>6, CountedMove DEF IInv, Facts
  <1>8. faults' = 0 /\ Material(run[w].ver) =>
          done'[run[w].ver] = Stage \/ Reached("knowledge") \subseteq done'[run[w].ver]
    BY <1>1, InHand DEF Reached
  <1>9. IInv'
    BY <1>1, <1>2, <1>3, <1>5, <1>6, <1>7, <1>8, DoneStill, Still, WorkerMove
  <1> QED
    BY <1>2, <1>9

\* The one event of a material version: from now on the version counts as decided.
LEMMA SaveKeeps ==
  ASSUME IInv, NEW w \in Worker, NEW mode, NEW s \in {"pending", "suppressed"}, SaveEvent(w, mode, s)
  PROVE  IInv' /\ AlertsGrow
  <1>1. /\ UNCHANGED <<now, sched, task, versions, tick, world, changes, lock, faults>>
        /\ run[w].pc = "save" /\ run[w].pc \in Handling /\ Done(w, "alerted") /\ "alerted" \in Stage
        /\ run[w] \in RunOf /\ Material(run[w].ver)
    BY DEF SaveEvent, Handling, Stage, IInv, Shape, RunShape, Facts, Writers
  <1>2. PICK n \in BOOLEAN : n = (run[w].ver = 1)
    OBVIOUS
  <1>3. PICK e : e = [of |-> run[w].seen, new |-> n, recent |-> TRUE, sent |-> FALSE, status |-> s]
    OBVIOUS
  <1>4. e \in Event /\ e.status = s /\ ~ e.sent
    BY <1>1, <1>3 DEF RunOf, Event
  <1>5. alerts' = Append(alerts, e)
    BY <1>2, <1>3 DEF SaveEvent
  <1>6. /\ alerts' \in Seq(Event) /\ Len(alerts') = Len(alerts) + 1 /\ Len(alerts) \in Nat
        /\ alerts'[Len(alerts) + 1] = e /\ \A i \in 1 .. Len(alerts) : alerts'[i] = alerts[i]
    BY <1>4, <1>5 DEF IInv, Shape, AlertShape
  <1>7. AlertShape' /\ AlertsGrow
    BY <1>6 DEF AlertShape, AlertsGrow
  <1>8. Silent'
    BY <1>4, <1>6, <1>7, SilentMove DEF IInv, Facts
  <1>9. PICK r \in RunOf : /\ Moves(w, r) /\ r.ver = run[w].ver /\ r.pc \in {"send", "knowledge"}
                           /\ r.event \in 0 .. Len(alerts')
                           /\ r.pc = "send" => r.event \in 1 .. Len(alerts') /\ alerts'[r.event].status # "suppressed"
    <2>1. CASE mode = "immediate" /\ s = "pending"
      <3>1. PICK r : r = [run[w] EXCEPT !.event = Len(alerts) + 1, !.pc = "send"]
        OBVIOUS
      <3>2. r \in RunOf /\ r.ver = run[w].ver /\ r.pc = "send" /\ r.event = Len(alerts) + 1
        <4>1. Len(alerts) + 1 \in Nat /\ "send" \in Handling
          BY <1>6 DEF Handling
        <4> QED
          BY <1>1, <3>1, <4>1 DEF RunOf
      <3>3. Moves(w, r)
        BY <2>1, <3>1 DEF SaveEvent, Moves
      <3>4. r.event \in 1 .. Len(alerts') /\ r.event \in 0 .. Len(alerts') /\ alerts'[r.event].status # "suppressed"
        BY <1>4, <1>6, <2>1, <3>2
      <3> QED
        BY <3>2, <3>3, <3>4
    <2>2. CASE ~ (mode = "immediate" /\ s = "pending")
      <3>1. PICK r : r = [run[w] EXCEPT !.pc = "knowledge"]
        OBVIOUS
      <3>2. r \in RunOf /\ r.ver = run[w].ver /\ r.pc = "knowledge" /\ r.event = run[w].event
        BY <1>1, <3>1 DEF RunOf, Handling
      <3>3. Moves(w, r)
        BY <2>2, <3>1 DEF SaveEvent, Moves
      <3>4. r.event \in 0 .. Len(alerts')
        BY <1>6, <3>2, AlertsLen
      <3> QED
        BY <3>2, <3>3, <3>4
    <2> QED
      BY <2>1, <2>2
  <1>10. /\ done' \in [1 .. MaxVersions -> SUBSET Stage] /\ \A v \in 1 .. MaxVersions : done[v] \subseteq done'[v]
         /\ done'[run[w].ver] = done[run[w].ver] \cup {"alerted"}
    BY <1>1, DoneIs
  <1>11. Counted'
    <2>1. /\ Decided \subseteq Decided' /\ IsFiniteSet(Decided) /\ IsFiniteSet(Decided')
          /\ Cardinality(Decided) \in Nat /\ Cardinality(Decided') \in Nat
      BY <1>1, <1>9, DecidedMove DEF IInv
    <2>2. run[w].ver \notin Decided
      BY <1>1 DEF Decided, Undecided
    <2>3. run[w].ver \in Decided'
      <3>1. run[w].ver \in 1 .. Len(versions')
        BY <1>1, VersionInHand
      <3>2. run'[w] = r /\ \A x \in Worker : x # w => run'[x] = run[x]
        BY <1>9 DEF Moves, IInv, Shape, RunShape
      <3>3. ASSUME NEW x \in Worker, run'[x].pc \in {"match", "save"}, run'[x].ver = run[w].ver
            PROVE  FALSE
        <4>1. x # w /\ run'[x] = run[x]
          BY <1>9, <3>2, <3>3
        <4>2. run[x].pc \in Handling /\ run[x].ver = run[w].ver
          BY <3>3, <4>1 DEF Handling
        <4> QED
          BY <1>1, <4>1, <4>2 DEF IInv, Facts, Writers
      <3> QED
        BY <1>1, <3>1, <3>3 DEF Decided, Undecided, Material
    <2>4. Cardinality(Decided \cup {run[w].ver}) = Cardinality(Decided) + 1 /\ IsFiniteSet(Decided \cup {run[w].ver})
      BY <2>1, <2>2, FS_AddElement
    <2>5. Cardinality(Decided) + 1 <= Cardinality(Decided')
      <3>1. Decided \cup {run[w].ver} \subseteq Decided'
        BY <2>1, <2>3
      <3> QED
        BY <2>1, <2>4, <3>1, FS_Subset
    <2> QED
      BY <1>6, <2>1, <2>5 DEF IInv, Facts, Counted
  <1>12. /\ r.pc \in Handling /\ r.pc # "commit" /\ r.pc # "save"
         /\ Reached(r.pc) \subseteq done'[run[w].ver]
    BY <1>9, <1>10 DEF Handling, Reached
  <1>13. IInv'
    BY <1>1, <1>7, <1>8, <1>9, <1>10, <1>11, <1>12, Still, WorkerMove
  <1> QED
    BY <1>7, <1>13

\* The new version differs from the one before it and is in this run's hands alone.
LEMMA NewVersionKeeps ==
  ASSUME IInv, NEW w \in Worker, NewVersion(w)
  PROVE  IInv' /\ AlertsGrow
  <1> DEFINE n == Len(versions) + 1
  <1>1. /\ UNCHANGED <<now, sched, task, done, alerts, tick, world, changes, faults>>
        /\ run[w].pc = "commit" /\ lock = w /\ run[w].ver = Len(versions) /\ run[w].seen \notin Current(w)
        /\ versions' = Append(versions, run[w].seen) /\ lock' = Unlocked(w) /\ Len(versions) < MaxVersions
    BY DEF NewVersion, IInv, Facts, Writers
  <1>2. run[w] \in RunOf /\ run[w].seen \in Content /\ versions \in Seq(Content) /\ MaxVersions \in Nat
    BY Bounds DEF IInv, Shape, RunShape, StoreShape, RunOf
  <1>3. /\ versions' \in Seq(Content) /\ Len(versions') = n /\ Len(versions) \in Nat /\ n \in 1 .. MaxVersions
        /\ versions'[n] = run[w].seen /\ \A v \in 1 .. Len(versions) : versions'[v] = versions[v]
    BY <1>1, <1>2
  <1>4. PICK r : r = [run[w] EXCEPT !.pc = "match", !.ver = n]
    OBVIOUS
  <1>5. r \in RunOf /\ r.pc = "match" /\ r.ver = n /\ r.event = run[w].event
    <2>1. n \in Version /\ "match" \in Handling
      BY <1>3 DEF Version, Handling
    <2> QED
      BY <1>2, <1>4, <2>1 DEF RunOf
  <1>6. Moves(w, r)
    BY <1>4 DEF NewVersion, Moves
  <1>7. run'[w] = r /\ \A x \in Worker : x # w => run'[x] = run[x]
    BY <1>6 DEF Moves, IInv, Shape, RunShape
  <1>8. AlertShape' /\ AlertsGrow /\ Len(alerts') = Len(alerts)
    BY <1>1, AlertsSame DEF IInv, Shape
  <1>9. RunShape'
    BY <1>5, <1>6, <1>8, AlertsLen, RunShapeMove DEF IInv, Shape
  <1>10. SchedulerShape' /\ Queues'
    BY <1>1 DEF IInv, Shape, SchedulerShape, Queues, Tasks, Ticks
  <1>11. StoreShape'
    <2>1. lock' \in {"none"} \cup Worker
      BY <1>1, Still
    <2> QED
      BY <1>1, <1>3, <2>1 DEF IInv, Shape, StoreShape
  <1>12. \A v \in 1 .. Len(versions) : Material(v)' <=> Material(v)
    <2>1. ASSUME NEW v \in 1 .. Len(versions) PROVE Material(v)' <=> Material(v)
      <3>1. CASE v = 1
        BY <3>1 DEF Material
      <3>2. CASE v # 1
        <4>1. versions'[v] = versions[v] /\ versions'[v - 1] = versions[v - 1]
          BY <1>3, <3>2
        <4> QED
          BY <4>1 DEF Material
      <3> QED
        BY <3>1, <3>2
    <2> QED
      BY <2>1
  <1>13. \A x \in Worker : x # w => run[x].pc # "commit"
    BY <1>1 DEF IInv, Facts, Writers
  <1>14. \A x \in Worker : run[x].pc \in Handling => run[x].ver \in 1 .. Len(versions)
    BY DEF IInv, Facts, Writers
  <1>15. Writers'
    <2>1. ASSUME NEW x \in Worker
          PROVE  /\ run'[x].pc = "commit" => lock' = x /\ run'[x].ver = Len(versions')
                 /\ run'[x].pc \in Handling => run'[x].ver \in 1 .. Len(versions')
                 /\ run'[x].pc = "send" =>
                      run'[x].event \in 1 .. Len(alerts') /\ alerts'[run'[x].event].status # "suppressed"
      <3>1. CASE x = w
        BY <1>3, <1>5, <1>7, <3>1
      <3>2. CASE x # w
        <4>1. run'[x] = run[x] /\ run[x].pc # "commit"
          BY <1>7, <1>13, <3>2
        <4>2. run[x].pc \in Handling => run[x].ver \in 1 .. n
          BY <1>3, <1>14
        <4>3. run[x].pc = "send" =>
                run[x].event \in 1 .. Len(alerts') /\ alerts'[run[x].event].status # "suppressed"
          BY <1>1 DEF IInv, Facts, Writers
        <4> QED
          BY <1>3, <4>1, <4>2, <4>3
      <3> QED
        BY <3>1, <3>2
    <2>2. (\A x \in Worker : run[x].pc = "save" => Material(run[x].ver))'
      <3>1. ASSUME NEW x \in Worker, run'[x].pc = "save"
            PROVE  run'[x].ver > 1 => versions'[run'[x].ver].value # versions'[run'[x].ver - 1].value
        <4>1. x # w /\ run'[x] = run[x]
          BY <1>5, <1>7, <3>1
        <4>2. run[x].pc \in Handling /\ run[x].pc = "save"
          BY <3>1, <4>1 DEF Handling
        <4>3. Material(run[x].ver) /\ run[x].ver \in 1 .. Len(versions)
          BY <1>14, <4>2 DEF IInv, Facts, Writers
        <4>4. PICK v \in 1 .. Len(versions) : v = run[x].ver
          BY <4>3
        <4>5. Material(v)'
          BY <1>12, <4>3, <4>4
        <4> QED
          BY <4>1, <4>4, <4>5 DEF Material
      <3> QED
        BY <3>1 DEF Material
    <2>3. ASSUME NEW x \in Worker, NEW y \in Worker, run'[x].pc \in Handling, run'[y].pc \in Handling,
                 run'[x].ver = run'[y].ver
          PROVE  x = y
      <3>1. \A z \in Worker : z # w /\ run'[z].pc \in Handling => run'[z] = run[z] /\ run'[z].ver # n
        BY <1>3, <1>7, <1>14
      <3>2. run'[w].ver = n
        BY <1>5, <1>7
      <3>3. CASE x = w \/ y = w
        BY <2>3, <3>1, <3>2, <3>3
      <3>4. CASE x # w /\ y # w
        BY <2>3, <3>1, <3>4 DEF IInv, Facts, Writers
      <3> QED
        BY <3>3, <3>4
    <2> QED
      BY <2>1, <2>2, <2>3 DEF Writers
  <1>16. Distinct'
    <2>1. ASSUME NEW v \in 2 .. Len(versions') PROVE versions'[v] # versions'[v - 1]
      <3>1. CASE v \in 2 .. Len(versions)
        <4>1. versions'[v] = versions[v] /\ versions'[v - 1] = versions[v - 1]
          BY <1>3, <3>1
        <4> QED
          BY <3>1, <4>1 DEF IInv, Facts, Distinct
      <3>2. CASE v \notin 2 .. Len(versions)
        <4>1. v = n /\ v - 1 = Len(versions) /\ Len(versions) # 0 /\ v - 1 \in 1 .. Len(versions)
          BY <1>3, <2>1, <3>2
        <4>2. Current(w) = {versions[Len(versions)]}
          BY <1>1, <4>1 DEF Current
        <4> QED
          BY <1>1, <1>3, <4>1, <4>2
      <3> QED
        BY <3>1, <3>2
    <2> QED
      BY <2>1 DEF Distinct
  <1>17. Counted'
    <2>1. \A v \in 1 .. Len(versions) : Undecided(v)' => Undecided(v)
      BY <1>3, <1>5, <1>7 DEF Undecided
    <2>2. Decided \subseteq Decided'
      <3>1. ASSUME NEW v \in Decided PROVE v \in Decided'
        <4>1. v \in 1 .. Len(versions) /\ Material(v) /\ ~ Undecided(v)
          BY DEF Decided
        <4>2. v \in 1 .. Len(versions') /\ Material(v)' /\ ~ Undecided(v)'
          BY <1>3, <1>12, <2>1, <4>1
        <4> QED
          BY <4>2 DEF Decided
      <3> QED
        BY <3>1
    <2>3. Decided' \subseteq 1 .. n /\ IsFiniteSet(1 .. n) /\ Decided \subseteq 1 .. n
      <3>1. n \in Int /\ IsFiniteSet(1 .. n)
        BY <1>3, FS_Interval
      <3>2. Decided' \subseteq 1 .. Len(versions')
        BY DEF Decided
      <3>3. Decided' \subseteq 1 .. n
        BY <1>3, <3>2
      <3> QED
        BY <2>2, <3>1, <3>3
    <2>4. /\ Cardinality(Decided) <= Cardinality(Decided')
          /\ Cardinality(Decided) \in Nat /\ Cardinality(Decided') \in Nat
      BY <2>2, <2>3, FS_Subset, FS_CardinalityType
    <2> QED
      BY <1>8, <2>4, AlertsLen DEF IInv, Facts, Counted
  <1>18. Silent'
    BY <1>1 DEF IInv, Facts, Silent
  <1>19. Followed'
    <2>1. ASSUME faults' = 0, NEW v \in 1 .. Len(versions'), Material(v)' PROVE Handled(v)'
      <3>1. CASE v \in 1 .. Len(versions)
        <4>1. Handled(v)
          BY <1>1, <1>12, <2>1, <3>1 DEF IInv, Facts, Followed
        <4>2. \A x \in Worker : run[x].pc \in Handling => run'[x] = run[x]
          BY <1>1, <1>7 DEF Handling
        <4> QED
          BY <1>1, <4>1, <4>2 DEF Handled
      <3>2. CASE v \notin 1 .. Len(versions)
        <4>1. v = n
          BY <1>3, <2>1, <3>2
        <4>2. Reached("match") \subseteq done'[v] /\ "match" \in Handling
          BY DEF Reached, Handling
        <4> QED
          BY <1>5, <1>7, <4>1, <4>2 DEF Handled
      <3> QED
        BY <3>1, <3>2
    <2> QED
      BY <2>1 DEF Followed
  <1> QED
    BY <1>8, <1>9, <1>10, <1>11, <1>15, <1>16, <1>17, <1>18, <1>19 DEF IInv, Shape, Facts

-----------------------------------------------------------------------------
(* The theorems. *)

LEMMA InitHolds ==
  ASSUME Init
  PROVE  IInv
  <1>1. versions = <<>> /\ alerts = <<>> /\ Len(versions) = 0 /\ Len(alerts) = 0 /\ faults = 0
    BY DEF Init
  <1>2. \A w \in Worker : run[w] = Free
    BY DEF Init
  <1>3. RunShape
    <2>1. PICK f \in RunOf : f = Free
      BY FreeIs
    <2>2. run = [w \in Worker |-> f]
      BY <2>1 DEF Init
    <2> QED
      BY <1>1, <2>1, <2>2, FreeIs DEF RunShape
  <1>4. SchedulerShape
    <2>1. sched \in ScheduleOf
      BY Bounds DEF Init, ScheduleOf
    <2>2. tick \in [Ticker -> TickOf]
      BY Bounds DEF Init, TickOf
    <2>3. task \in [Key -> TaskOf]
      BY Bounds DEF Init, TaskOf
    <2> QED
      BY <1>1, <2>1, <2>2, <2>3, Bounds DEF Init, SchedulerShape
  <1>5. StoreShape
    <2>1. world \in Content
      BY DEF Init, Content
    <2> QED
      BY <1>1, <2>1, Bounds, BoundAssumption DEF Init, StoreShape
  <1>6. AlertShape
    BY <1>1 DEF AlertShape
  <1>7. Queues
    BY DEF Init, Queues, Tasks, Ticks
  <1>8. Writers
    BY <1>2, FreeIs DEF Writers, Handling
  <1>9. Distinct /\ Silent /\ Followed
    BY <1>1 DEF Distinct, Silent, Followed
  <1>10. Counted
    <2>1. Decided = {}
      BY <1>1 DEF Decided
    <2> QED
      BY <1>1, <2>1, FS_EmptySet DEF Counted
  <1> QED
    BY <1>3, <1>4, <1>5, <1>6, <1>7, <1>8, <1>9, <1>10 DEF IInv, Shape, Facts

LEMMA StepKeeps ==
  ASSUME IInv, Next
  PROVE  IInv' /\ AlertsGrow
  <1>1. ASSUME NEW t \in Ticker, ClaimDue(t) \/ QueueSlot(t) \/ Advance(t) \/ TickerStops(t)
        PROVE  IInv' /\ AlertsGrow
    BY <1>1, TickerKeeps
  <1>2. CASE Pass
    BY <1>2, PassKeeps
  <1>3. CASE UpdateSchedule \/ WorldChanges
    BY <1>3, WorldKeeps
  <1>4. CASE (\E k \in Manual : RunNow(k)) \/ (\E k \in Key : Gone(k))
    BY <1>4, ManualKeeps
  <1>5. ASSUME NEW w \in Worker, Step(w) PROVE IInv' /\ AlertsGrow
    <2>1. CASE \E k \in Key : Claim(w, k)
      BY <2>1, ClaimKeeps
    <2>2. CASE Collect(w)
      BY <2>2, CollectKeeps
    <2>3. CASE Store(w)
      BY <2>3, StoreKeeps
    <2>4. CASE Unchanged(w) \/ Skip(w)
      BY <2>4, OverKeeps
    <2>5. CASE NewVersion(w)
      BY <2>5, NewVersionKeeps
    <2>6. CASE Match(w) \/ QueueKnowledge(w)
      BY <2>6, OnwardKeeps
    <2>7. CASE \E mode \in {"immediate", "digest"}, s \in {"pending", "suppressed"} : SaveEvent(w, mode, s)
      BY <2>7, SaveKeeps
    <2>8. CASE \E ok \in BOOLEAN : Send(w, ok)
      BY <2>8, SendKeeps
    <2>9. CASE DeepAnalysis(w)
      BY <2>9, DeepKeeps
    <2>10. CASE Finish(w)
      BY <2>10, FinishKeeps
    <2> QED
      BY <1>5, <2>1, <2>2, <2>3, <2>4, <2>5, <2>6, <2>7, <2>8, <2>9, <2>10 DEF Step
  <1>6. ASSUME NEW w \in Worker, WorkerStops(w) PROVE IInv' /\ AlertsGrow
    BY <1>6, WorkerStopsKeeps
  <1>7. ASSUME NEW w \in Worker, Fails(w) PROVE IInv' /\ AlertsGrow
    BY <1>7, OverKeeps
  <1>8. ASSUME NEW w \in Worker, Degrades(w) PROVE IInv' /\ AlertsGrow
    BY <1>8, OnwardKeeps
  <1>9. ASSUME NEW i \in 1 .. Len(alerts), NEW ok \in BOOLEAN, DispatchPending(i, ok) PROVE IInv' /\ AlertsGrow
    BY <1>9, DispatchKeeps
  <1> QED
    BY <1>1, <1>2, <1>3, <1>4, <1>5, <1>6, <1>7, <1>8, <1>9 DEF Next

LEMMA StutterKeeps ==
  ASSUME IInv, UNCHANGED vars
  PROVE  IInv' /\ AlertsGrow
  <1> USE DEF IInv, Shape
  <1>1. UNCHANGED <<now, sched, task, versions, done, alerts, tick, run, lock, world, changes, faults>>
    BY DEF vars, stored
  <1>2. AlertShape' /\ AlertsGrow /\ Len(alerts') = Len(alerts)
    BY <1>1, AlertsSame
  <1>3. RunShape' /\ Facts'
    BY <1>1, <1>2, FactsQuiet
  <1> QED
    BY <1>1, <1>2, <1>3 DEF SchedulerShape, StoreShape, Queues, Tasks, Ticks

LEMMA Invariance == Spec => []IInv
  <1>1. Init => IInv
    BY InitHolds
  <1>2. IInv /\ [Next]_vars => IInv'
    BY StepKeeps, StutterKeeps
  <1> QED
    BY <1>1, <1>2, PTL DEF Spec

LEMMA Typed ==
  ASSUME IInv
  PROVE  TypeOK
  <1>1. \A w \in Worker :
          /\ run[w].pc \in {"idle", "collect", "store", "commit", "match", "save", "send",
                            "knowledge", "deep", "finish"}
          /\ run[w].key \in Key /\ run[w].ver \in 0 .. MaxVersions /\ run[w].seen \in Content
          /\ run[w].event \in 0 .. Len(alerts)
    BY DEF IInv, Shape, RunShape, RunOf, Handling, Elsewhere, Version
  <1> QED
    BY <1>1 DEF IInv, Shape, SchedulerShape, StoreShape, AlertShape, ScheduleOf, TickOf, TaskOf, TypeOK

\* Each change is handled once, for any number of schedulers, workers and manual runs:
\* a version is stored only when its content differs from the latest one, because
\* upsert_points reads that one and appends in a single transaction; no more events
\* are raised than material changes were stored, because each version is decided on
\* by the one run that stored it; and without a fault a material change is alerted
\* on, queued as knowledge and analysed before its run is over.
THEOREM HandledTheorem == Spec => []HandledOnce
  <1>1. ASSUME IInv PROVE HandledOnce
    <2>1. TypeOK
      BY <1>1, Typed
    <2>2. \A v \in 2 .. Len(versions) : versions[v] # versions[v - 1]
      BY <1>1 DEF IInv, Facts, Distinct
    <2>3. Len(alerts) <= Cardinality({v \in 1 .. Len(versions) : Material(v)})
      <3> DEFINE M == {v \in 1 .. Len(versions) : Material(v)}
      <3>1. Len(versions) \in Nat /\ IsFiniteSet(1 .. Len(versions)) /\ M \subseteq 1 .. Len(versions) /\ Decided \subseteq M
        BY <1>1, FS_Interval DEF IInv, Shape, StoreShape, Decided
      <3>2. /\ Cardinality(Decided) <= Cardinality(M)
            /\ Cardinality(Decided) \in Nat /\ Cardinality(M) \in Nat
        BY <3>1, FS_Subset, FS_CardinalityType
      <3> QED
        BY <1>1, <3>2, AlertsLen DEF IInv, Facts, Counted
    <2>4. ASSUME faults = 0, NEW v \in 1 .. Len(versions), Material(v), \A w \in Worker : run[w].ver # v
          PROVE  done[v] = Stage
      BY <1>1, <2>4 DEF IInv, Facts, Followed, Handled
    <2> QED
      BY <2>1, <2>2, <2>3, <2>4 DEF HandledOnce
  <1>2. IInv => HandledOnce
    BY <1>1
  <1> QED
    BY <1>2, Invariance, PTL

\* No step delivers an event that quiet hours suppressed: neither the run that raised
\* it (alerts.AlertEngine.evaluate) nor dispatch_pending_alerts, whatever they deliver
\* at the same time.
THEOREM SilentTheorem == Spec => SuppressedIsSilent
  <1>1. ASSUME IInv, [Next]_vars
        PROVE  \A i \in 1 .. Len(alerts) : alerts[i].status = "suppressed" => ~ alerts'[i].sent
    <2>1. AlertsGrow
      BY <1>1, StepKeeps, StutterKeeps
    <2> QED
      BY <1>1, <2>1 DEF AlertsGrow, IInv, Facts, Silent
  <1>2. IInv /\ [Next]_vars =>
          [\A i \in 1 .. Len(alerts) : alerts[i].status = "suppressed" => ~ alerts'[i].sent]_vars
    BY <1>1
  <1> QED
    BY <1>2, Invariance, PTL DEF Spec, SuppressedIsSilent

\* A scheduler that goes on from a slot without having died has put the slot's task
\* into the queue (observation_scheduler: enqueue, then advance), for any number of
\* schedulers that race for the row.
THEOREM SlotTheorem == Spec => SlotIsQueued
  <1>1. ASSUME IInv, [Next]_vars, NEW t \in Ticker, tick[t].pc # "idle", tick'[t].pc = "idle", faults' = faults
        PROVE  task[tick[t].slot].status # "none"
    <2>1. PICK x \in Ticker : Advance(x) /\ tick'[t] # tick[t]
      <3>1. tick' # tick
        BY <1>1
      <3>2. PICK x \in Ticker : ClaimDue(x) \/ QueueSlot(x) \/ Advance(x) \/ TickerStops(x)
        BY ZenonT(30), <1>1, <3>1 DEF Next, vars, Pass, UpdateSchedule, WorldChanges, RunNow, Gone, Step, WorkerStops, Fails,
             Degrades, DispatchPending, Claim, Collect, Store, Unchanged, NewVersion, Match, SaveEvent, Send,
             QueueKnowledge, Skip, DeepAnalysis, Finish
      <3>3. ~ TickerStops(x)
        BY <1>1, Bounds DEF TickerStops, IInv, Shape, SchedulerShape
      <3>4. ~ ClaimDue(x) /\ ~ QueueSlot(x)
        BY <1>1 DEF ClaimDue, QueueSlot, IInv, Shape, SchedulerShape, TickOf
      <3> QED
        BY <1>1, <3>2, <3>3, <3>4
    <2>2. x = t /\ tick[t].pc = "queued"
      <3>1. PICK u : u = [tick[x] EXCEPT !.pc = "idle", !.slot = 1]
        OBVIOUS
      <3>2. tick' = [tick EXCEPT ![x] = u] /\ tick[x].pc = "queued"
        BY <2>1, <3>1 DEF Advance
      <3>3. tick \in [Ticker -> TickOf]
        BY <1>1 DEF IInv, Shape, SchedulerShape
      <3> QED
        BY <2>1, <3>2, <3>3
    <2> QED
      BY <1>1, <2>2 DEF IInv, Queues, Ticks
  <1>2. IInv /\ [Next]_vars =>
          [\A t \in Ticker : (tick[t].pc # "idle" /\ tick'[t].pc = "idle" /\ faults' = faults)
             => task[tick[t].slot].status # "none"]_vars
    BY <1>1
  <1> QED
    BY <1>2, Invariance, PTL DEF Spec, SlotIsQueued
=============================================================================
