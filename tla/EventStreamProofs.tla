------------------------- MODULE EventStreamProofs -------------------------
(***************************************************************************)
(* Proofs about EventStream for any number of tabs, any sizes of queues    *)
(* and buffer, and any bounds on steps, runs and lost connections.         *)
(***************************************************************************)
EXTENDS EventStream, SequenceTheorems, TLAPS

-----------------------------------------------------------------------------
(* The inductive invariant: emitters. *)

\* Ends that will still be emitted: those due, and at most one of the worker and one
\* of a cancellation in this run and in each that may follow.
Owed(e) == IF due[e] = "none" THEN 0 ELSE 1
Ahead == (IF worker = "on" THEN 1 ELSE 0) + (IF worker = "on" /\ status = "running" THEN 1 ELSE 0)
Ending ==
  /\ seq + Owed("worker") + Owed("endpoint") + Ahead + 2 * (MaxRuns - runs) <= MaxId
  /\ worker # "stopping" => due["worker"] = "none"
  /\ runs = 1 /\ due["endpoint"] # "none" => status = "ended"

EntryShape ==
  /\ status \in {"running", "ended"} /\ runs \in 1 .. MaxRuns
  /\ worker \in {"off", "on", "ending", "stopping"}
  /\ due \in [Emitter -> Ends \cup {"none"}]
  /\ drops \in 0 .. MaxDrops
  /\ seq \in Nat

\* The buffer holds the newest frames, numbered without gaps.
Frame == [id : Nat, kind : Kinds, run : 0 .. MaxRuns]
Before == seq - Len(buf)
BufferShape ==
  /\ buf \in Seq(Frame) /\ Len(buf) <= BufferSize /\ Len(buf) <= seq
  /\ buf = <<>> => seq = 0
  /\ \A i \in 1 .. Len(buf) : buf[i].id = Before + i

\* A frame anywhere is the one that was buffered under its number.
Agrees(f) ==
  /\ f \in Frame /\ f.id \in 1 .. seq
  /\ f.id > Before => f = buf[f.id - Before]

\* Emitter e has still to push to tab c.
OnWay(e, c) == em[e] = "numbered" \/ (em[e] # "idle" /\ c \in to[e])

EmitterShape ==
  /\ em \in [Emitter -> {"idle", "numbered", "pushing", "full", "room"}]
  /\ frame \in [Emitter -> Frame] /\ to \in [Emitter -> SUBSET Tab]
  /\ \A e \in Emitter :
       /\ em[e] # "idle" => Agrees(frame[e])
       /\ em[e] \in {"idle", "numbered"} => to[e] = {}
       /\ to[e] \subseteq subs
       /\ frame[e].id <= seq
  /\ \A e, d \in Emitter : em[e] # "idle" /\ em[d] # "idle" /\ frame[e].id = frame[d].id => e = d
  /\ \E e \in Emitter : em[e] = "idle" \/ frame[e].id = seq

-----------------------------------------------------------------------------
(* The inductive invariant: a tab and its connection. *)

ServerShape ==
  /\ subs = {c \in Tab : conn[c] # "off"}
  /\ queue \in [Tab -> Seq(Frame)] /\ replay \in [Tab -> Seq(Frame)]
  /\ conn \in [Tab -> {"off", "registered", "nothing", "replay", "live"}]
  /\ snap \in [Tab -> SUBSET Nat]
BrowserShape ==
  /\ page \in [Tab -> BOOLEAN] /\ last \in [Tab -> Nat] /\ got \in [Tab -> Seq(Nat)]
  /\ late \in [Tab -> SUBSET Nat] /\ dropped \in [Tab -> BOOLEAN] /\ raced \in [Tab -> BOOLEAN]

\* What is where in the life of a connection.
Connected(c) ==
  /\ conn[c] = "off" => queue[c] = <<>>
  /\ conn[c] \in {"off", "registered"} => snap[c] = {}
  /\ conn[c] = "replay" <=> replay[c] # <<>>
  /\ ~ page[c] => conn[c] = "off"

Queued(c) ==
  /\ Len(queue[c]) <= QueueSize
  /\ \A i \in 1 .. Len(queue[c]) : Agrees(queue[c][i])
  /\ \A i, j \in 1 .. Len(queue[c]) : queue[c][i].id = queue[c][j].id => i = j
  /\ \A e \in Emitter, i \in 1 .. Len(queue[c]) : OnWay(e, c) => queue[c][i].id # frame[e].id

\* The replay goes on from the last id, in order.
Replays(c) ==
  /\ \A i \in 1 .. Len(replay[c]) :
       Agrees(replay[c][i]) /\ replay[c][i].id > last[c] /\ replay[c][i].id \in snap[c]
  /\ \A i, j \in 1 .. Len(replay[c]) : i < j => replay[c][i].id < replay[c][j].id
  /\ \A n \in snap[c] : n \in 1 .. seq

Known(c, n) == n \in Received(c) \/ n \in late[c]
InQueue(c, n) == \E i \in 1 .. Len(queue[c]) : queue[c][i].id = n
InReplay(c, n) == \E i \in 1 .. Len(replay[c]) : replay[c][i].id = n
Coming(c, n) == InQueue(c, n) \/ \E e \in Emitter : OnWay(e, c) /\ frame[e].id = n

\* No buffered frame is missing: not up to the last id; not of the snapshot that is
\* not to be replayed any more; and none that is not on its way to the tab.
Gapless(c) ==
  ~ dropped[c] => \A n \in Before + 1 .. seq :
    /\ n <= last[c] => Known(c, n)
    /\ n \in snap[c] => Known(c, n) \/ InReplay(c, n)
    /\ conn[c] \notin {"off", "registered"} => Known(c, n) \/ InReplay(c, n) \/ Coming(c, n)

\* Nothing that comes is old, as long as the frames came in order.
InOrder(c) ==
  /\ got[c] = <<>> <=> last[c] = 0
  /\ last[c] <= seq
  /\ \A i \in 1 .. Len(got[c]) : got[c][i] \in 1 .. seq
  /\ late[c] \subseteq 1 .. seq
  /\ late[c] = {} =>
       /\ \A i \in 1 .. Len(got[c]) : got[c][i] <= last[c]
       /\ \A i, j \in 1 .. Len(got[c]) : i < j => got[c][i] < got[c][j]
       /\ \A n \in 1 .. seq : Coming(c, n) =>
            /\ n >= last[c]
            /\ n = last[c] /\ conn[c] \in {"nothing", "live"} => n \in snap[c]

\* A listening tab stopped at no end, and the newest end is still ahead of it: in the
\* replay, or at the end of the queue but for a frame of the other emitter.
NewestEnd == buf # <<>> /\ Newest(buf).kind # "step"
EndAhead(c) ==
  /\ page[c] /\ last[c] > Before => buf[last[c] - Before].kind = "step"
  /\ NewestEnd =>
       /\ seq \in snap[c] => InReplay(c, seq)
       /\ \A i \in 1 .. Len(queue[c]) : queue[c][i].id = seq =>
            i = Len(queue[c]) \/ (i = Len(queue[c]) - 1 /\ \A e \in Emitter : ~ OnWay(e, c))
       /\ conn[c] \notin {"off", "registered"} /\ ~ raced[c] => InReplay(c, seq) \/ Coming(c, seq)

TabInv(c) == Connected(c) /\ Queued(c) /\ Replays(c) /\ Gapless(c) /\ InOrder(c) /\ EndAhead(c)

IInv ==
  /\ EntryShape /\ Ending /\ BufferShape /\ EmitterShape /\ ServerShape /\ BrowserShape
  /\ \A c \in Tab : TabInv(c)

-----------------------------------------------------------------------------
(* What the invariant says of the properties. *)

LEMMA Bounds ==
  /\ QueueSize \in Nat /\ QueueSize > 1 /\ BufferSize \in Nat \ {0}
  /\ MaxSteps \in Nat /\ MaxRuns \in Nat \ {0} /\ MaxDrops \in Nat
  /\ MaxId \in Nat /\ MaxId = MaxSteps + 2 * MaxRuns
  /\ "worker" \in Emitter /\ "endpoint" \in Emitter
  BY NumberAssumption DEF MaxId, Emitter

LEMMA Numbered ==
  ASSUME EntryShape, Ending
  PROVE  seq \in 0 .. MaxId
  <1>1. Owed("worker") \in Nat /\ Owed("endpoint") \in Nat /\ Ahead \in Nat /\ MaxRuns - runs \in Nat
    BY Bounds DEF EntryShape, Owed, Ahead
  <1> QED
    BY <1>1, Bounds DEF EntryShape, Ending

LEMMA Window ==
  ASSUME BufferShape, seq \in Nat
  PROVE  /\ Len(buf) \in Nat /\ Before \in Nat /\ Before + Len(buf) = seq
         /\ \A n \in Before + 1 .. seq : n - Before \in 1 .. Len(buf) /\ buf[n - Before].id = n
         /\ \A i \in 1 .. Len(buf) : buf[i] \in Frame /\ buf[i].id = Before + i
         /\ Ids(buf) = Before + 1 .. seq
  <1>1. Len(buf) \in Nat /\ Before \in Nat /\ Before + Len(buf) = seq /\ DOMAIN buf = 1 .. Len(buf)
    BY DEF BufferShape, Before
  <1>2. \A i \in 1 .. Len(buf) : buf[i] \in Frame /\ buf[i].id = Before + i
    BY DEF BufferShape
  <1>3. \A n \in Before + 1 .. seq : n - Before \in 1 .. Len(buf) /\ buf[n - Before].id = n
    BY <1>1, <1>2
  <1>4. Ids(buf) = {buf[i].id : i \in 1 .. Len(buf)}
    BY <1>1 DEF Ids
  <1>5. ASSUME NEW n \in Ids(buf) PROVE n \in Before + 1 .. seq
    <2>1. PICK i \in 1 .. Len(buf) : n = buf[i].id
      BY <1>4, <1>5
    <2> QED
      BY <1>1, <1>2, <2>1
  <1>6. ASSUME NEW n \in Before + 1 .. seq PROVE n \in Ids(buf)
    BY <1>3, <1>4, <1>6
  <1> QED
    BY <1>1, <1>2, <1>3, <1>5, <1>6

-----------------------------------------------------------------------------
(* Steps that leave a tab alone. *)

SameTab(c) ==
  /\ queue'[c] = queue[c] /\ conn'[c] = conn[c] /\ replay'[c] = replay[c] /\ snap'[c] = snap[c]
  /\ page'[c] = page[c] /\ last'[c] = last[c] /\ got'[c] = got[c] /\ late'[c] = late[c]
  /\ dropped'[c] = dropped[c] /\ raced'[c] = raced[c]

\* What emitters have for a connected tab they keep for it.
SameWay(c) ==
  /\ \A e \in Emitter : OnWay(e, c)' => OnWay(e, c) /\ frame'[e] = frame[e]
  /\ conn[c] # "off" => \A e \in Emitter : OnWay(e, c) => OnWay(e, c)'

LEMMA TabKeeps ==
  ASSUME NEW c \in Tab, TabInv(c), SameTab(c), SameWay(c), UNCHANGED <<seq, buf>>
  PROVE  TabInv(c)'
  <1>1. \A f : Agrees(f)' <=> Agrees(f)
    BY DEF Agrees, Before
  <1>2. \A n : Coming(c, n)' => Coming(c, n)
    BY DEF Coming, InQueue, SameTab, SameWay
  <1>3. conn[c] # "off" => \A n : Coming(c, n) => Coming(c, n)'
    BY DEF Coming, InQueue, SameTab, SameWay
  <1>4. \A n : (Known(c, n)' <=> Known(c, n)) /\ (InReplay(c, n)' <=> InReplay(c, n))
    BY DEF Known, InReplay, Received, SameTab
  <1>5. Before' = Before /\ (NewestEnd' <=> NewestEnd)
    BY DEF Before, NewestEnd, Newest
  <1>6. Connected(c)'
    BY DEF TabInv, Connected, SameTab
  <1>7. Queued(c)'
    BY <1>1 DEF TabInv, Queued, SameTab, SameWay
  <1>8. Replays(c)'
    BY <1>1 DEF TabInv, Replays, SameTab
  <1>9. Gapless(c)'
    BY <1>3, <1>4, <1>5 DEF TabInv, Gapless, SameTab
  <1>10. InOrder(c)'
    BY <1>2 DEF TabInv, InOrder, SameTab
  <1>11. EndAhead(c)'
    BY <1>3, <1>4, <1>5 DEF TabInv, EndAhead, SameTab, SameWay
  <1> QED
    BY <1>6, <1>7, <1>8, <1>9, <1>10, <1>11 DEF TabInv

-----------------------------------------------------------------------------
(* The run, and the numbers its frames take. *)

LEMMA Emitted ==
  ASSUME NEW e \in Emitter, NEW kind \in Kinds, Emit(e, kind), EntryShape, EmitterShape
  PROVE  \/ UNCHANGED emission /\ kind = "cancelled"
         \/ \E f \in Frame :
              /\ em[e] = "idle" /\ UNCHANGED to
              /\ f.id = seq + 1 /\ f.kind = kind /\ seq' = seq + 1
              /\ frame' = [frame EXCEPT ![e] = f] /\ buf' = Buffered(f)
              /\ em' = [em EXCEPT ![e] = "numbered"]
  <1>1. CASE Repeated(kind)
    BY <1>1 DEF Emit, emission, Repeated
  <1>2. CASE ~ Repeated(kind)
    <2>1. PICK f : f = [id |-> seq + 1, kind |-> kind, run |-> runs]
      OBVIOUS
    <2>2. f \in Frame /\ f.id = seq + 1 /\ f.kind = kind
      BY <2>1 DEF Frame, EntryShape
    <2>3. /\ em[e] = "idle" /\ UNCHANGED to /\ seq' = seq + 1
          /\ frame' = [frame EXCEPT ![e] = f] /\ buf' = Buffered(frame'[e])
          /\ em' = [em EXCEPT ![e] = "numbered"]
      BY <1>2, <2>1 DEF Emit
    <2>4. frame'[e] = f
      BY <2>3 DEF EmitterShape
    <2> QED
      BY <2>2, <2>3, <2>4
  <1> QED
    BY <1>1, <1>2

LEMMA EntryStep ==
  ASSUME EntryShape, Ending, EmitterShape,
         \/ WorkerStep \/ Cancel \/ Rework
         \/ \E e \in Emitter : EmitDue(e)
  PROVE  EntryShape' /\ Ending'
  <1> USE DEF EntryShape, Ending, Owed, Ahead
  <1>0. MaxRuns \in Nat /\ MaxSteps \in Nat /\ MaxId \in Nat /\ MaxId = MaxSteps + 2 * MaxRuns
        /\ Emitter = {"worker", "endpoint"} /\ due["worker"] \in Ends \cup {"none"} /\ due["endpoint"] \in Ends \cup {"none"}
    BY Bounds DEF Emitter
  <1>1. CASE Step
    <2>1. UNCHANGED <<entry, drops>> /\ worker = "on" /\ seq < MaxSteps /\ Emit("worker", "step") /\ "step" \in Kinds
      BY <1>1 DEF Step, Kinds
    <2>2. seq' = seq + 1
      BY <1>0, <2>1, Emitted
    <2>3. Owed("worker") + Owed("endpoint") + Ahead <= 2 * runs
      BY <1>0, <2>1
    <2>4. 2 * (MaxRuns - runs) + 2 * runs = 2 * MaxRuns
      BY <1>0
    <2> QED
      BY <1>0, <2>1, <2>2, <2>3, <2>4 DEF entry
  <1>2. CASE End
    <2>1. worker = "on" /\ runs = 1 /\ worker' = "ending" /\ UNCHANGED <<status, runs, due, drops>>
          /\ Emit("worker", "end") /\ "end" \in Kinds
      BY <1>2 DEF End, Kinds, Ends
    <2>2. seq' = seq + 1
      BY <1>0, <2>1, Emitted
    <2> QED
      BY <1>0, <2>1, <2>2
  <1>3. CASE Ended
    BY <1>0, <1>3 DEF Ended, emission
  <1>4. CASE Stop
    <2>1. /\ worker = "on" /\ status = "ended" /\ worker' = "stopping" /\ UNCHANGED <<status, runs, seq, drops>>
          /\ due' = [due EXCEPT !["worker"] = IF runs = 1 THEN "cancelled" ELSE "none"]
      BY <1>4 DEF Stop, emission
    <2>2. due' \in [Emitter -> Ends \cup {"none"}] /\ due'["endpoint"] = due["endpoint"]
      BY <1>0, <2>1 DEF Ends
    <2> QED
      BY <1>0, <2>1, <2>2
  <1>5. CASE Stopped
    BY <1>0, <1>5 DEF Stopped, emission
  <1>6. ASSUME NEW kind \in {"end", "error"}, Finish(kind) PROVE EntryShape' /\ Ending'
    <2>1. /\ worker = "on" /\ worker' = "stopping" /\ status' = "ended" /\ UNCHANGED <<runs, seq, drops>>
          /\ due' = [due EXCEPT !["worker"] = kind]
      BY <1>6 DEF Finish, emission
    <2>2. due' \in [Emitter -> Ends \cup {"none"}] /\ due'["endpoint"] = due["endpoint"]
      BY <1>0, <2>1 DEF Ends
    <2> QED
      BY <1>0, <2>1, <2>2
  <1>7. CASE Cancel
    <2>1. /\ worker = "on" /\ status = "running" /\ status' = "ended" /\ UNCHANGED <<worker, runs, seq, drops>>
          /\ due["endpoint"] = "none" /\ due' = [due EXCEPT !["endpoint"] = "cancelled"]
      BY <1>7 DEF Cancel, emission
    <2>2. due' \in [Emitter -> Ends \cup {"none"}] /\ due'["worker"] = due["worker"]
      BY <1>0, <2>1 DEF Ends
    <2> QED
      BY <1>0, <2>1, <2>2
  <1>8. CASE Rework
    <2>1. /\ status = "ended" /\ worker = "off" /\ runs < MaxRuns /\ UNCHANGED <<due, seq, drops>>
          /\ status' = "running" /\ worker' = "on" /\ runs' = runs + 1
      BY <1>8 DEF Rework, emission
    <2>2. runs \in Nat /\ runs' \in 1 .. MaxRuns /\ runs' # 1
      BY <1>0, <2>1
    <2>3. Ahead = 0 /\ Ahead' = 2 /\ 2 * (MaxRuns - runs') + 2 = 2 * (MaxRuns - runs)
      BY <1>0, <2>1, <2>2
    <2>4. Owed("worker")' = Owed("worker") /\ Owed("endpoint")' = Owed("endpoint")
      BY <2>1
    <2>5. Owed("worker") \in Nat /\ Owed("endpoint") \in Nat /\ 2 * (MaxRuns - runs) \in Nat
      BY <1>0, <2>2
    <2> HIDE DEF Owed, Ahead
    <2>6. due["worker"] = "none"
      BY <2>1
    <2> QED
      BY <1>0, <2>1, <2>2, <2>3, <2>4, <2>5, <2>6
  <1>9. ASSUME NEW e \in Emitter, EmitDue(e) PROVE EntryShape' /\ Ending'
    <2>1. /\ due[e] # "none" /\ due[e] \in Kinds /\ Emit(e, due[e]) /\ UNCHANGED <<status, runs, worker, drops>>
          /\ due' = [due EXCEPT ![e] = "none"]
      BY <1>9 DEF EmitDue, Kinds
    <2>2. seq' = seq \/ seq' = seq + 1
      BY <2>1, Emitted DEF emission
    <2>3. due' \in [Emitter -> Ends \cup {"none"}] /\ due'[e] = "none" /\ \A d \in Emitter : d # e => due'[d] = due[d]
      BY <2>1
    <2>4. CASE e = "worker"
      BY <1>0, <2>1, <2>2, <2>3, <2>4
    <2>5. CASE e = "endpoint"
      BY <1>0, <2>1, <2>2, <2>3, <2>5
    <2> QED
      BY <1>0, <2>4, <2>5
  <1> QED
    BY <1>1, <1>2, <1>3, <1>4, <1>5, <1>6, <1>7, <1>8, <1>9 DEF WorkerStep

LEMMA EntrySame ==
  ASSUME EntryShape, Ending, UNCHANGED <<entry, seq>>, drops' \in 0 .. MaxDrops
  PROVE  EntryShape' /\ Ending'
  BY DEF EntryShape, Ending, Owed, Ahead, entry

-----------------------------------------------------------------------------
(* A new frame. *)

LEMMA BufferedIs ==
  ASSUME BufferShape, seq \in Nat, NEW f \in Frame, f.id = seq + 1, seq' = seq + 1, buf' = Buffered(f)
  PROVE  /\ BufferShape' /\ Before \in Nat /\ Before' \in Nat /\ Before <= Before' /\ Before' <= seq
         /\ buf' # <<>> /\ buf'[seq' - Before'] = f /\ Newest(buf)' = f
         /\ \A n \in Before' + 1 .. seq : buf'[n - Before'] = buf[n - Before]
  <1>0. PICK b : b = Append(buf, f)
    OBVIOUS
  <1>1. /\ b \in Seq(Frame) /\ Len(b) = Len(buf) + 1 /\ Len(buf) \in Nat /\ b[Len(buf) + 1] = f
        /\ \A i \in 1 .. Len(buf) : b[i] = buf[i]
    BY <1>0 DEF BufferShape
  <1>2. Len(buf) <= BufferSize /\ Len(buf) <= seq /\ BufferSize \in Nat \ {0}
    BY Bounds DEF BufferShape
  <1>3. \A i \in 1 .. Len(buf) : buf[i].id = seq - Len(buf) + i
    BY DEF BufferShape, Before
  <1>6. \A i \in 1 .. Len(buf) + 1 : b[i].id = seq - Len(buf) + i
    <2> TAKE i \in 1 .. Len(buf) + 1
    <2>1. CASE i = Len(buf) + 1
      BY <1>1, <1>2, <2>1
    <2>2. CASE i # Len(buf) + 1
      <3>1. i \in 1 .. Len(buf)
        BY <1>1, <2>2
      <3> QED
        BY <1>1, <1>3, <3>1
    <2> QED
      BY <2>1, <2>2
  <1>4. CASE Len(b) <= BufferSize
    <2>1. buf' = b
      BY <1>0, <1>1, <1>2, <1>4 DEF Buffered
    <2>2. Before' = Before /\ Before \in Nat /\ Before = seq - Len(buf)
      BY <1>1, <1>2, <2>1 DEF Before
    <2>3. \A i \in 1 .. Len(buf') : buf'[i].id = Before' + i
      BY <1>1, <1>2, <1>6, <2>1, <2>2
    <2>4. \A n \in Before' + 1 .. seq : buf'[n - Before'] = buf[n - Before]
      BY <1>1, <1>2, <2>1, <2>2
    <2>5. BufferShape' /\ buf' # <<>>
      BY <1>1, <1>2, <1>4, <2>1, <2>2, <2>3 DEF BufferShape
    <2>6. buf'[seq' - Before'] = f /\ Newest(buf)' = f
      BY <1>1, <1>2, <2>1, <2>2 DEF Newest
    <2> QED
      BY <1>1, <1>2, <2>2, <2>4, <2>5, <2>6
  <1>5. CASE Len(b) > BufferSize
    <2>1. Len(b) = BufferSize + 1 /\ Len(buf) = BufferSize
      BY <1>1, <1>2, <1>5
    <2>2. buf' = SubSeq(b, 2, Len(b))
      BY <1>0, <1>1, <1>2, <1>5, <2>1 DEF Buffered
    <2>3. buf' \in Seq(Frame) /\ Len(buf') = BufferSize /\ \A i \in 1 .. BufferSize : buf'[i] = b[i + 1]
      BY <1>1, <1>2, <2>1, <2>2
    <2>4. Before' = Before + 1 /\ Before \in Nat /\ Before = seq - Len(buf)
      BY <1>1, <1>2, <2>1, <2>3 DEF Before
    <2>5. \A i \in 1 .. Len(buf') : buf'[i].id = Before' + i
      <3> TAKE i \in 1 .. Len(buf')
      <3>1. i \in 1 .. BufferSize /\ i + 1 \in 1 .. Len(buf) + 1
        BY <1>2, <2>1, <2>3
      <3>2. buf'[i].id = seq - Len(buf) + (i + 1)
        BY <1>6, <2>3, <3>1
      <3>3. Before \in Nat /\ seq \in Nat /\ Len(buf) \in Nat
        BY <1>1, <2>4
      <3> QED
        BY <2>4, <3>1, <3>2, <3>3
    <2>6. \A n \in Before' + 1 .. seq : buf'[n - Before'] = buf[n - Before]
      <3> TAKE n \in Before' + 1 .. seq
      <3>1. n - Before' \in 1 .. BufferSize /\ n - Before' + 1 = n - Before /\ n - Before \in 1 .. Len(buf)
        BY <1>1, <1>2, <2>1, <2>4
      <3> QED
        BY <1>1, <2>3, <3>1
    <2>7. BufferShape' /\ buf' # <<>>
      BY <1>1, <1>2, <2>1, <2>3, <2>4, <2>5 DEF BufferShape
    <2>8. buf'[seq' - Before'] = f /\ Newest(buf)' = f
      <3>1. BufferSize \in 1 .. BufferSize /\ BufferSize + 1 = Len(buf) + 1 /\ seq' - Before' = BufferSize
        BY <1>1, <1>2, <2>1, <2>4
      <3>2. buf'[BufferSize] = f
        BY <1>1, <2>3, <3>1
      <3> QED
        BY <2>3, <3>1, <3>2 DEF Newest
    <2> QED
      BY <1>1, <1>2, <2>1, <2>4, <2>6, <2>7, <2>8
  <1> QED
    BY <1>1, <1>2, <1>4, <1>5

LEMMA AgreesStays ==
  ASSUME BufferShape, seq \in Nat, NEW f \in Frame, f.id = seq + 1, seq' = seq + 1, buf' = Buffered(f), NEW g, Agrees(g)
  PROVE  Agrees(g)'
  <1>1. /\ Before \in Nat /\ Before' \in Nat /\ Before <= Before'
        /\ \A n \in Before' + 1 .. seq : buf'[n - Before'] = buf[n - Before]
    BY BufferedIs
  <1>2. g \in Frame /\ g.id \in 1 .. seq /\ (g.id > Before => g = buf[g.id - Before])
    BY DEF Agrees
  <1>3. ASSUME g.id > Before' PROVE g = buf'[g.id - Before']
    <2>1. g.id \in Before' + 1 .. seq /\ g.id > Before
      BY <1>1, <1>2, <1>3
    <2> QED
      BY <1>1, <1>2, <2>1
  <1> QED
    BY <1>2, <1>3 DEF Agrees

\* A new frame is on its way to every tab.
LEMMA EmitTab ==
  ASSUME IInv, NEW c \in Tab, NEW e \in Emitter, NEW f \in Frame, em[e] = "idle", UNCHANGED <<to, server, browser>>,
         f.id = seq + 1, seq' = seq + 1, frame' = [frame EXCEPT ![e] = f], buf' = Buffered(f),
         em' = [em EXCEPT ![e] = "numbered"]
  PROVE  TabInv(c)'
  <1>1. BufferShape /\ seq \in Nat /\ TabInv(c) /\ EmitterShape
    BY DEF IInv, EntryShape
  <1>2. /\ Before \in Nat /\ Before' \in Nat /\ Before <= Before' /\ Before' <= seq
        /\ \A n \in Before' + 1 .. seq : buf'[n - Before'] = buf[n - Before]
    BY <1>1, BufferedIs
  <1>3. \A g : Agrees(g) => Agrees(g)'
    BY <1>1, AgreesStays
  <1>4. /\ OnWay(e, c)' /\ frame'[e].id = seq + 1 /\ ~ OnWay(e, c)
        /\ \A d \in Emitter : d # e => (OnWay(d, c)' <=> OnWay(d, c)) /\ frame'[d] = frame[d]
    BY <1>1 DEF EmitterShape, OnWay
  <1>5. \A n : Coming(c, n)' <=> Coming(c, n) \/ n = seq + 1
    BY <1>4 DEF Coming, InQueue, server
  <1>6. \A n : (Known(c, n)' <=> Known(c, n)) /\ (InReplay(c, n)' <=> InReplay(c, n))
    BY DEF Known, InReplay, Received, server, browser
  <1>7. Connected(c)'
    BY <1>1 DEF TabInv, Connected, server, browser
  <1>8. Queued(c)'
    <2>1. \A i \in 1 .. Len(queue[c]) : Agrees(queue[c][i])' /\ queue[c][i].id # seq + 1
      BY <1>1, <1>3 DEF TabInv, Queued, Agrees, server
    <2> QED
      BY <1>1, <1>4, <2>1 DEF TabInv, Queued, server
  <1>9. Replays(c)'
    <2>1. \A n \in 1 .. seq : n \in 1 .. seq'
      BY <1>1
    <2> QED
      BY <1>1, <1>3, <2>1 DEF TabInv, Replays, server, browser
  <1>10. Gapless(c)'
    <2>1. ASSUME ~ dropped[c], NEW n \in Before' + 1 .. seq'
          PROVE  /\ n <= last[c] => Known(c, n)
                 /\ n \in snap[c] => Known(c, n) \/ InReplay(c, n)
                 /\ conn[c] \notin {"off", "registered"} => Known(c, n) \/ InReplay(c, n) \/ Coming(c, n)'
      <3>1. CASE n = seq + 1
        <4>1. last[c] <= seq /\ last[c] \in Nat /\ n \notin snap[c]
          BY <1>1, <3>1 DEF TabInv, InOrder, Replays, IInv, BrowserShape
        <4> QED
          BY <1>1, <1>5, <3>1, <4>1
      <3>2. CASE n # seq + 1
        <4>1. n \in Before + 1 .. seq
          BY <1>1, <1>2, <3>2
        <4> QED
          BY <1>1, <1>5, <2>1, <4>1 DEF TabInv, Gapless
      <3> QED
        BY <3>1, <3>2
    <2> QED
      BY <1>6, <2>1 DEF Gapless, server, browser
  <1>11. InOrder(c)'
    <2>1. last[c] \in Nat /\ last[c] <= seq
      BY <1>1 DEF TabInv, InOrder, IInv, BrowserShape
    <2>2. late[c] = {} => \A n \in 1 .. seq' : Coming(c, n)' =>
            n >= last[c] /\ (n = last[c] /\ conn[c] \in {"nothing", "live"} => n \in snap[c])
      BY <1>1, <1>5, <2>1 DEF TabInv, InOrder
    <2>3. /\ last[c] <= seq' /\ (\A i \in 1 .. Len(got[c]) : got[c][i] \in 1 .. seq') /\ late[c] \subseteq 1 .. seq'
          /\ (got[c] = <<>> <=> last[c] = 0)
      BY <1>1, <2>1 DEF TabInv, InOrder
    <2>4. late[c] = {} =>
            /\ \A i \in 1 .. Len(got[c]) : got[c][i] <= last[c]
            /\ \A i, j \in 1 .. Len(got[c]) : i < j => got[c][i] < got[c][j]
      BY <1>1 DEF TabInv, InOrder
    <2> QED
      BY <2>2, <2>3, <2>4 DEF InOrder, server, browser
  <1>12. EndAhead(c)'
    <2>1. last[c] \in Nat /\ last[c] <= seq
      BY <1>1 DEF TabInv, InOrder, IInv, BrowserShape
    <2>2. page[c] /\ last[c] > Before' => buf'[last[c] - Before'].kind = "step"
      <3>1. ASSUME page[c], last[c] > Before' PROVE buf'[last[c] - Before'].kind = "step"
        <4>1. last[c] \in Before' + 1 .. seq /\ last[c] > Before
          BY <1>1, <1>2, <2>1, <3>1
        <4>2. buf'[last[c] - Before'] = buf[last[c] - Before]
          BY <1>2, <4>1
        <4> QED
          BY <1>1, <3>1, <4>1, <4>2 DEF TabInv, EndAhead
      <3> QED
        BY <3>1
    <2>3. seq' \notin snap[c] /\ \A i \in 1 .. Len(queue[c]) : queue[c][i].id # seq'
      BY <1>1 DEF TabInv, Replays, Queued, Agrees
    <2>4. Coming(c, seq)'
      BY <1>4 DEF Coming
    <2> QED
      BY <2>2, <2>3, <2>4 DEF EndAhead, server, browser
  <1> QED
    BY <1>7, <1>8, <1>9, <1>10, <1>11, <1>12 DEF TabInv

LEMMA SameBuffer ==
  ASSUME UNCHANGED <<seq, buf>>
  PROVE  /\ BufferShape => BufferShape'
         /\ Before' = Before /\ (NewestEnd' <=> NewestEnd)
         /\ \A f : Agrees(f)' <=> Agrees(f)
  BY DEF BufferShape, Before, NewestEnd, Newest, Agrees

\* A frame that is emitted, or the suppressed repetition of an end.
LEMMA EmitKeeps ==
  ASSUME IInv, NEW e \in Emitter, NEW kind \in Kinds, Emit(e, kind), UNCHANGED <<server, browser>>,
         EntryShape', Ending'
  PROVE  IInv'
  <1>1. EntryShape /\ BufferShape /\ EmitterShape /\ ServerShape /\ BrowserShape /\ seq \in Nat
    BY DEF IInv, EntryShape
  <1>2. ServerShape' /\ BrowserShape'
    BY <1>1 DEF ServerShape, BrowserShape, server, browser
  <1>3. CASE UNCHANGED emission
    <2>1. UNCHANGED <<seq, buf>>
      BY <1>3 DEF emission
    <2>2. EmitterShape'
      BY <1>1, <1>3, <2>1, SameBuffer DEF EmitterShape, emission, server
    <2>3. ASSUME NEW c \in Tab PROVE TabInv(c)'
      <3>1. SameTab(c) /\ SameWay(c)
        BY <1>3 DEF SameTab, SameWay, OnWay, emission, server, browser
      <3> QED
        BY <2>1, <3>1, TabKeeps DEF IInv
    <2> QED
      BY <1>1, <1>2, <2>1, <2>2, <2>3, SameBuffer DEF IInv
  <1>4. ASSUME NEW f \in Frame, em[e] = "idle", UNCHANGED to, f.id = seq + 1, f.kind = kind, seq' = seq + 1,
               frame' = [frame EXCEPT ![e] = f], buf' = Buffered(f), em' = [em EXCEPT ![e] = "numbered"]
        PROVE  IInv'
    <2>1. /\ BufferShape' /\ Before' \in Nat /\ Before' <= seq /\ buf'[seq' - Before'] = f
      BY <1>1, <1>4, BufferedIs
    <2>2. Agrees(f)'
      <3>1. f.id \in 1 .. seq' /\ f = buf'[f.id - Before']
        BY <1>1, <1>4, <2>1
      <3> QED
        BY <3>1 DEF Agrees
    <2>3. \A g : Agrees(g) => Agrees(g)'
      BY <1>1, <1>4, AgreesStays
    <2>4. /\ em'[e] = "numbered" /\ frame'[e] = f /\ to'[e] = {}
          /\ \A d \in Emitter : d # e => em'[d] = em[d] /\ frame'[d] = frame[d] /\ to'[d] = to[d]
          /\ em' \in [Emitter -> {"idle", "numbered", "pushing", "full", "room"}]
          /\ frame' \in [Emitter -> Frame] /\ to' \in [Emitter -> SUBSET Tab]
      BY <1>1, <1>4 DEF EmitterShape
    <2>5. \A d \in Emitter :
            /\ em'[d] # "idle" => Agrees(frame[d])'
            /\ em'[d] \in {"idle", "numbered"} => to'[d] = {}
            /\ to'[d] \subseteq subs'
            /\ frame'[d].id <= seq'
      <3> TAKE d \in Emitter
      <3>1. em'[d] # "idle" => Agrees(frame[d])'
        BY <1>1, <2>2, <2>3, <2>4 DEF EmitterShape, Agrees
      <3>2. frame'[d].id <= seq'
        <4>1. d # e => frame'[d].id \in Nat /\ frame'[d].id <= seq
          BY <1>1, <2>4 DEF EmitterShape, Frame
        <4> QED
          BY <1>1, <1>4, <2>4, <4>1
      <3>3. to'[d] \subseteq subs' /\ (em'[d] \in {"idle", "numbered"} => to'[d] = {})
        BY <1>1, <2>4 DEF EmitterShape, server
      <3> QED
        BY <3>1, <3>2, <3>3
    <2>6. \A d, g \in Emitter : em'[d] # "idle" /\ em'[g] # "idle" /\ frame'[d].id = frame'[g].id => d = g
      <3>1. \A d \in Emitter : d # e => frame'[d].id \in Nat /\ frame'[d].id <= seq
        BY <1>1, <2>4 DEF EmitterShape, Frame
      <3> QED
        BY <1>1, <1>4, <2>4, <3>1 DEF EmitterShape
    <2>7. EmitterShape'
      BY <1>4, <2>4, <2>5, <2>6 DEF EmitterShape
    <2>8. \A c \in Tab : TabInv(c)'
      BY <1>4, EmitTab
    <2> QED
      BY <1>2, <2>1, <2>7, <2>8 DEF IInv
  <1> QED
    BY <1>1, <1>3, <1>4, Emitted

\* A step of the run that emits nothing.
LEMMA RunKeeps ==
  ASSUME IInv, UNCHANGED <<emission, server, browser>>, EntryShape', Ending'
  PROVE  IInv'
  <1>1. UNCHANGED <<seq, buf>>
    BY DEF emission
  <1>2. BufferShape' /\ EmitterShape' /\ ServerShape' /\ BrowserShape'
    BY <1>1, SameBuffer DEF IInv, EmitterShape, ServerShape, BrowserShape, emission, server, browser
  <1>3. ASSUME NEW c \in Tab PROVE TabInv(c)'
    <2>1. SameTab(c) /\ SameWay(c)
      BY DEF SameTab, SameWay, OnWay, emission, server, browser
    <2> QED
      BY <1>1, <2>1, TabKeeps DEF IInv
  <1> QED
    BY <1>2, <1>3 DEF IInv

LEMMA RunSteps ==
  ASSUME IInv, WorkerStep \/ Cancel \/ Rework \/ \E e \in Emitter : EmitDue(e)
  PROVE  IInv'
  <1>1. EntryShape' /\ Ending'
    BY EntryStep DEF IInv
  <1>2. CASE Ended \/ Stop \/ Stopped \/ Cancel \/ Rework \/ \E kind \in {"end", "error"} : Finish(kind)
    <2>1. UNCHANGED <<emission, server, browser>>
      BY <1>2 DEF Ended, Stop, Stopped, Cancel, Rework, Finish
    <2> QED
      BY <1>1, <2>1, RunKeeps
  <1>3. CASE Step
    BY <1>1, <1>3, Bounds, EmitKeeps DEF Step, Kinds
  <1>4. CASE End
    BY <1>1, <1>4, Bounds, EmitKeeps DEF End, Kinds, Ends
  <1>5. ASSUME NEW e \in Emitter, EmitDue(e) PROVE IInv'
    <2>1. due[e] \in Kinds /\ Emit(e, due[e]) /\ UNCHANGED <<server, browser>>
      BY <1>5 DEF EmitDue, IInv, EntryShape, Kinds
    <2> QED
      BY <1>1, <2>1, EmitKeeps
  <1> QED
    BY <1>2, <1>3, <1>4, <1>5 DEF WorkerStep

-----------------------------------------------------------------------------
(* Emitters that push. *)

LEMMA TailIs ==
  ASSUME NEW S, NEW s \in Seq(S), s # <<>>
  PROVE  /\ Len(s) \in Nat /\ Len(s) > 0 /\ Head(s) = s[1] /\ s[1] \in S
         /\ Tail(s) \in Seq(S) /\ Len(Tail(s)) = Len(s) - 1
         /\ \A i \in 1 .. Len(Tail(s)) : i + 1 \in 1 .. Len(s) /\ Tail(s)[i] = s[i + 1]
  OBVIOUS

\* Emitters only go on with what they have.
LEMMA EmitterMoves ==
  ASSUME EmitterShape, UNCHANGED <<seq, buf>>,
         em' \in [Emitter -> {"idle", "numbered", "pushing", "full", "room"}],
         frame' \in [Emitter -> Frame], to' \in [Emitter -> SUBSET Tab],
         \A d \in Emitter : em'[d] # "idle" => em[d] # "idle" /\ frame'[d] = frame[d],
         \A d \in Emitter :
           /\ frame'[d].id <= seq
           /\ to'[d] \subseteq subs'
           /\ em'[d] \in {"idle", "numbered"} => to'[d] = {}
  PROVE  EmitterShape'
  <1>1. \A d \in Emitter : em'[d] # "idle" => Agrees(frame[d])'
    BY DEF EmitterShape, Agrees, Before
  <1>2. \A d, g \in Emitter : em'[d] # "idle" /\ em'[g] # "idle" /\ frame'[d].id = frame'[g].id => d = g
    BY DEF EmitterShape
  <1>3. \E d \in Emitter : em'[d] = "idle" \/ frame'[d].id = seq'
    BY DEF EmitterShape
  <1> QED
    BY <1>1, <1>2, <1>3 DEF EmitterShape

\* A frame goes from its emitter to the end of the queue.
LEMMA PushTab ==
  ASSUME IInv, NEW e \in Emitter, NEW c \in Tab, em[e] # "idle", em[e] # "numbered", c \in to[e],
         Len(queue[c]) < QueueSize, queue'[c] = Append(queue[c], frame[e]),
         em'[e] = "pushing", to'[e] = to[e] \ {c},
         \A d \in Emitter : d # e => em'[d] = em[d] /\ to'[d] = to[d],
         UNCHANGED <<seq, buf, frame, conn, replay, snap, page, last, got, late>>,
         dropped'[c] = dropped[c], raced'[c] = raced[c]
  PROVE  TabInv(c)'
  <1>1. /\ TabInv(c) /\ EmitterShape /\ queue[c] \in Seq(Frame) /\ frame[e] \in Frame /\ QueueSize \in Nat
        /\ seq \in Nat /\ conn[c] # "off"
    BY Bounds DEF IInv, ServerShape, EmitterShape, EntryShape
  <1>2. /\ Len(queue[c]) \in Nat /\ Len(queue'[c]) = Len(queue[c]) + 1
        /\ queue'[c][Len(queue[c]) + 1] = frame[e]
        /\ \A i \in 1 .. Len(queue[c]) : queue'[c][i] = queue[c][i]
    BY <1>1
  <1>3. \A i \in 1 .. Len(queue'[c]) : i = Len(queue[c]) + 1 \/ i \in 1 .. Len(queue[c])
    BY <1>2
  <1>4. /\ OnWay(e, c) /\ ~ OnWay(e, c)'
        /\ \A d \in Emitter : d # e => (OnWay(d, c)' <=> OnWay(d, c))
    BY DEF OnWay
  <1>5. \A n : InQueue(c, n)' <=> InQueue(c, n) \/ n = frame[e].id
    BY <1>2, <1>3 DEF InQueue
  <1>6. \A n : Coming(c, n)' <=> Coming(c, n)
    BY <1>4, <1>5 DEF Coming
  <1>7. \A n : (Known(c, n)' <=> Known(c, n)) /\ (InReplay(c, n)' <=> InReplay(c, n))
    BY DEF Known, InReplay, Received
  <1>8. Agrees(frame[e]) /\ \A f : Agrees(f)' <=> Agrees(f)
    BY <1>1, SameBuffer DEF EmitterShape
  <1>9. Connected(c)'
    BY <1>1 DEF TabInv, Connected
  <1>10. Queued(c)'
    <2>1. \A i \in 1 .. Len(queue[c]) : queue[c][i].id # frame[e].id
      BY <1>1, <1>4 DEF TabInv, Queued
    <2>2. Len(queue'[c]) <= QueueSize
      BY <1>1, <1>2
    <2>3. \A i \in 1 .. Len(queue'[c]) : Agrees(queue[c][i])'
      <3> TAKE i \in 1 .. Len(queue'[c])
      <3>1. i \in 1 .. Len(queue[c]) => Agrees(queue[c][i])
        BY <1>1 DEF TabInv, Queued
      <3>2. Agrees(queue'[c][i])
        BY <1>2, <1>3, <1>8, <3>1
      <3> QED
        BY <3>2 DEF Agrees, Before
    <2>4. \A i, j \in 1 .. Len(queue'[c]) : queue'[c][i].id = queue'[c][j].id => i = j
      BY <1>1, <1>2, <1>3, <2>1 DEF TabInv, Queued
    <2>5. \A d \in Emitter, i \in 1 .. Len(queue'[c]) : OnWay(d, c)' => queue'[c][i].id # frame[d].id
      <3>1. \A d \in Emitter : OnWay(d, c) /\ d # e => frame[d].id # frame[e].id
        BY <1>1, <1>4 DEF EmitterShape, OnWay
      <3> QED
        BY <1>1, <1>2, <1>3, <1>4, <3>1 DEF TabInv, Queued
    <2> QED
      BY <2>2, <2>3, <2>4, <2>5 DEF Queued
  <1>11. Replays(c)'
    BY <1>1, <1>8 DEF TabInv, Replays
  <1>12. Gapless(c)'
    BY <1>1, <1>6, <1>7, SameBuffer DEF TabInv, Gapless
  <1>13. InOrder(c)'
    BY <1>1, <1>6 DEF TabInv, InOrder
  <1>14. EndAhead(c)'
    <2>1. ASSUME NewestEnd, NEW i \in 1 .. Len(queue'[c]), queue'[c][i].id = seq
          PROVE  i = Len(queue'[c]) \/ (i = Len(queue'[c]) - 1 /\ \A d \in Emitter : ~ OnWay(d, c)')
      <3>1. CASE i = Len(queue[c]) + 1
        BY <1>2, <3>1
      <3>2. CASE i \in 1 .. Len(queue[c])
        <4>1. queue[c][i].id = seq
          BY <1>2, <2>1, <3>2
        <4>2. i = Len(queue[c])
          BY <1>1, <1>4, <2>1, <3>2, <4>1 DEF TabInv, EndAhead
        <4>3. \A d \in Emitter : OnWay(d, c) => frame[d].id # seq
          BY <1>1, <3>2, <4>1 DEF TabInv, Queued
        <4>4. \A d \in Emitter : d # e => em[d] = "idle" \/ ~ OnWay(d, c)
          <5>1. PICK g \in Emitter : em[g] = "idle" \/ frame[g].id = seq
            BY <1>1 DEF EmitterShape
          <5>2. g # e
            BY <1>4, <4>3, <5>1
          <5>3. \A d \in Emitter : d # e => d = g
            BY <5>2 DEF Emitter
          <5> QED
            BY <4>3, <5>1, <5>3
        <4>5. \A d \in Emitter : ~ OnWay(d, c)'
          BY <1>4, <4>4 DEF OnWay
        <4> QED
          BY <1>2, <4>2, <4>5
      <3> QED
        BY <1>3, <3>1, <3>2
    <2> QED
      BY <1>1, <1>6, <1>7, <2>1, SameBuffer DEF TabInv, EndAhead
  <1> QED
    BY <1>9, <1>10, <1>11, <1>12, <1>13, <1>14 DEF TabInv

\* A full queue gives up its oldest frame, which is not the newest end.
LEMMA RoomTab ==
  ASSUME IInv, NEW e \in Emitter, NEW c \in Tab, em[e] = "full", c \in to[e],
         queue[c] # <<>>, queue'[c] = Tail(queue[c]), em' = [em EXCEPT ![e] = "room"],
         UNCHANGED <<seq, buf, frame, to, conn, replay, snap, page, last, got, late>>,
         dropped'[c] = TRUE, raced'[c] = (raced[c] \/ Len(queue[c]) < QueueSize)
  PROVE  TabInv(c)'
  <1>1. /\ TabInv(c) /\ EmitterShape /\ queue[c] \in Seq(Frame) /\ conn[c] # "off"
        /\ QueueSize \in Nat /\ QueueSize > 1
    BY Bounds DEF IInv, ServerShape, EmitterShape
  <1>2. /\ Len(queue[c]) \in Nat /\ Len(queue[c]) > 0 /\ Len(queue'[c]) = Len(queue[c]) - 1
        /\ \A i \in 1 .. Len(queue'[c]) : i + 1 \in 1 .. Len(queue[c]) /\ queue'[c][i] = queue[c][i + 1]
    BY <1>1, TailIs
  <1>3. OnWay(e, c) /\ \A d \in Emitter : OnWay(d, c)' <=> OnWay(d, c)
    BY <1>1 DEF OnWay, EmitterShape
  <1>4. \A n : Coming(c, n)' => Coming(c, n)
    BY <1>2, <1>3 DEF Coming, InQueue
  <1>5. \A n : (Known(c, n)' <=> Known(c, n)) /\ (InReplay(c, n)' <=> InReplay(c, n))
    BY DEF Known, InReplay, Received
  <1>6. Connected(c)'
    BY <1>1 DEF TabInv, Connected
  <1>7. Queued(c)'
    <2>1. \A i \in 1 .. Len(queue'[c]) : Agrees(queue[c][i])'
      BY <1>1, <1>2 DEF TabInv, Queued, Agrees, Before
    <2>2. \A i, j \in 1 .. Len(queue'[c]) : queue'[c][i].id = queue'[c][j].id => i = j
      <3> TAKE i, j \in 1 .. Len(queue'[c])
      <3>1. queue[c][i + 1].id = queue[c][j + 1].id => i + 1 = j + 1
        BY <1>1, <1>2 DEF TabInv, Queued
      <3> QED
        BY <1>2, <3>1
    <2>3. \A d \in Emitter, i \in 1 .. Len(queue'[c]) : OnWay(d, c)' => queue'[c][i].id # frame[d].id
      <3>1. \A d \in Emitter, i \in 1 .. Len(queue[c]) : OnWay(d, c) => queue[c][i].id # frame[d].id
        BY <1>1 DEF TabInv, Queued
      <3> QED
        BY <1>2, <1>3, <3>1
    <2>4. Len(queue'[c]) <= QueueSize
      BY <1>1, <1>2 DEF TabInv, Queued
    <2> QED
      BY <2>1, <2>2, <2>3, <2>4 DEF Queued
  <1>8. Replays(c)'
    BY <1>1, SameBuffer DEF TabInv, Replays
  <1>9. Gapless(c)'
    BY DEF Gapless
  <1>10. InOrder(c)'
    BY <1>1, <1>4 DEF TabInv, InOrder
  <1>11. EndAhead(c)'
    <2>1. ASSUME NewestEnd, NEW i \in 1 .. Len(queue'[c]), queue'[c][i].id = seq
          PROVE  i = Len(queue'[c])
      <3>1. i + 1 = Len(queue[c])
        BY <1>1, <1>2, <1>3, <2>1 DEF TabInv, EndAhead
      <3> QED
        BY <1>2, <3>1
    <2>2. ASSUME NewestEnd, ~ raced'[c], Coming(c, seq) PROVE Coming(c, seq)'
      <3>1. CASE InQueue(c, seq)
        <4>1. PICK i \in 1 .. Len(queue[c]) : queue[c][i].id = seq
          BY <3>1 DEF InQueue
        <4>2. i = Len(queue[c]) /\ ~ Len(queue[c]) < QueueSize
          BY <1>1, <1>3, <2>2, <4>1 DEF TabInv, EndAhead
        <4>3. i - 1 \in 1 .. Len(queue'[c]) /\ queue'[c][i - 1].id = seq
          BY <1>1, <1>2, <4>1, <4>2
        <4> QED
          BY <4>3 DEF Coming, InQueue
      <3>2. CASE ~ InQueue(c, seq)
        BY <1>3, <2>2, <3>2 DEF Coming
      <3> QED
        BY <3>1, <3>2
    <2> QED
      BY <1>1, <1>5, <2>1, <2>2, SameBuffer DEF TabInv, EndAhead
  <1> QED
    BY <1>6, <1>7, <1>8, <1>9, <1>10, <1>11 DEF TabInv

\* No room was left: the frame is lost.
LEMMA LostTab ==
  ASSUME IInv, NEW e \in Emitter, NEW c \in Tab, em[e] = "room", c \in to[e],
         em'[e] = "pushing", to'[e] = to[e] \ {c},
         \A d \in Emitter : d # e => em'[d] = em[d] /\ to'[d] = to[d],
         UNCHANGED <<seq, buf, frame, queue, conn, replay, snap, page, last, got, late>>,
         dropped'[c] = TRUE, raced'[c] = TRUE
  PROVE  TabInv(c)'
  <1>1. TabInv(c)
    BY DEF IInv
  <1>2. \A d \in Emitter : OnWay(d, c)' => OnWay(d, c)
    BY DEF OnWay
  <1>3. \A n : Coming(c, n)' => Coming(c, n)
    BY <1>2 DEF Coming, InQueue
  <1>4. \A n : InReplay(c, n)' <=> InReplay(c, n)
    BY DEF InReplay
  <1>5. Connected(c)' /\ Gapless(c)'
    BY <1>1 DEF TabInv, Connected, Gapless
  <1>6. Queued(c)' /\ Replays(c)'
    BY <1>1, <1>2, SameBuffer DEF TabInv, Queued, Replays
  <1>7. InOrder(c)'
    BY <1>1, <1>3 DEF TabInv, InOrder
  <1>8. EndAhead(c)'
    BY <1>1, <1>2, <1>4, SameBuffer DEF TabInv, EndAhead
  <1> QED
    BY <1>1, <1>5, <1>6, <1>7, <1>8 DEF TabInv

LEMMA Moves ==
  ASSUME IInv, NEW e \in Emitter,
         Collect(e) \/ Return(e) \/ \E c \in Tab : Push(e, c) \/ FindFull(e, c) \/ MakeRoom(e, c) \/ PushAgain(e, c)
  PROVE  IInv'
  <1>1. /\ EntryShape /\ Ending /\ BufferShape /\ EmitterShape /\ ServerShape /\ BrowserShape
        /\ \A c \in Tab : TabInv(c)
    BY DEF IInv
  <1>2. UNCHANGED <<entry, seq, buf, subs, conn, replay, snap, page, last, got, late, drops>>
    BY DEF Collect, Return, Push, FindFull, MakeRoom, PushAgain, server, browser
  <1>3. EntryShape' /\ Ending' /\ BufferShape'
    BY <1>1, <1>2, EntrySame, SameBuffer DEF EntryShape
  <1>4. CASE Collect(e)
    <2>1. /\ em[e] = "numbered" /\ em' = [em EXCEPT ![e] = "pushing"] /\ to' = [to EXCEPT ![e] = subs]
          /\ UNCHANGED <<frame, server, browser>>
      BY <1>4 DEF Collect
    <2>2. EmitterShape'
      BY <1>1, <1>2, <2>1, EmitterMoves DEF EmitterShape, ServerShape
    <2>3. ASSUME NEW c \in Tab PROVE TabInv(c)'
      <3>1. SameTab(c)
        BY <2>1 DEF SameTab, server, browser
      <3>2. SameWay(c)
        BY <1>1, <2>1 DEF SameWay, OnWay, EmitterShape, ServerShape
      <3> QED
        BY <1>1, <1>2, <3>1, <3>2, TabKeeps
    <2> QED
      BY <1>1, <1>3, <2>1, <2>2, <2>3 DEF IInv, ServerShape, BrowserShape, server, browser
  <1>5. CASE Return(e)
    <2>1. /\ em[e] = "pushing" /\ to[e] = {} /\ em' = [em EXCEPT ![e] = "idle"] /\ frame' = [frame EXCEPT ![e] = NoFrame]
          /\ UNCHANGED <<to, server, browser>> /\ NoFrame \in Frame /\ NoFrame.id = 0
      BY <1>1, <1>5, Bounds DEF Return, NoFrame, Frame, Kinds, EntryShape
    <2>2. EmitterShape'
      <3>1. \A d \in Emitter : frame'[d].id <= seq
        BY <1>1, <2>1 DEF EmitterShape, EntryShape
      <3> QED
        BY <1>1, <1>2, <2>1, <3>1, EmitterMoves DEF EmitterShape, server
    <2>3. ASSUME NEW c \in Tab PROVE TabInv(c)'
      <3>1. SameTab(c)
        BY <2>1 DEF SameTab, server, browser
      <3>2. SameWay(c)
        BY <1>1, <2>1 DEF SameWay, OnWay, EmitterShape
      <3> QED
        BY <1>1, <1>2, <3>1, <3>2, TabKeeps
    <2> QED
      BY <1>1, <1>3, <2>1, <2>2, <2>3 DEF IInv, ServerShape, BrowserShape, server, browser
  <1>6. ASSUME NEW c \in Tab, FindFull(e, c) PROVE IInv'
    <2>1. em[e] = "pushing" /\ em' = [em EXCEPT ![e] = "full"] /\ UNCHANGED <<frame, to, server, browser>>
      BY <1>6 DEF FindFull
    <2>2. EmitterShape'
      BY <1>1, <1>2, <2>1, EmitterMoves DEF EmitterShape, server
    <2>3. ASSUME NEW d \in Tab PROVE TabInv(d)'
      <3>1. SameTab(d)
        BY <2>1 DEF SameTab, server, browser
      <3>2. SameWay(d)
        BY <1>1, <2>1 DEF SameWay, OnWay, EmitterShape
      <3> QED
        BY <1>1, <1>2, <3>1, <3>2, TabKeeps
    <2> QED
      BY <1>1, <1>3, <2>1, <2>2, <2>3 DEF IInv, ServerShape, BrowserShape, server, browser
  <1>7. ASSUME NEW c \in Tab, MakeRoom(e, c) PROVE IInv'
    <2>1. em[e] = "full" /\ c \in to[e] /\ em' = [em EXCEPT ![e] = "room"] /\ UNCHANGED <<frame, to>>
      BY <1>7 DEF MakeRoom, Serves
    <2>2. EmitterShape'
      BY <1>1, <1>2, <2>1, EmitterMoves DEF EmitterShape
    <2>3. \A d \in Tab : SameWay(d)
      BY <1>1, <2>1 DEF SameWay, OnWay, EmitterShape
    <2>4. CASE queue[c] = <<>> /\ UNCHANGED <<queue, dropped, raced>>
      <3>1. \A d \in Tab : SameTab(d)
        BY <1>2, <2>4 DEF SameTab
      <3> QED
        BY <1>1, <1>2, <1>3, <2>2, <2>3, <2>4, <3>1, TabKeeps DEF IInv, ServerShape, BrowserShape
    <2>5. CASE queue[c] # <<>>
      <3>1. /\ queue' = [queue EXCEPT ![c] = Tail(queue[c])] /\ dropped' = [dropped EXCEPT ![c] = TRUE]
            /\ raced' = [raced EXCEPT ![c] = raced[c] \/ Len(queue[c]) < QueueSize]
        BY <1>7, <2>5 DEF MakeRoom
      <3>2. queue[c] \in Seq(Frame) /\ Tail(queue[c]) \in Seq(Frame)
        BY <1>1, <2>5, TailIs DEF ServerShape
      <3>3. ServerShape'
        BY <1>1, <1>2, <3>1, <3>2 DEF ServerShape
      <3>4. BrowserShape'
        <4>1. \A b \in BOOLEAN : [raced EXCEPT ![c] = b] \in [Tab -> BOOLEAN] /\ [dropped EXCEPT ![c] = b] \in [Tab -> BOOLEAN]
          BY <1>1 DEF BrowserShape
        <4>2. (raced[c] \/ Len(queue[c]) < QueueSize) \in BOOLEAN
          BY <1>1 DEF BrowserShape
        <4>3. raced' \in [Tab -> BOOLEAN] /\ dropped' \in [Tab -> BOOLEAN]
          BY <3>1, <4>1, <4>2
        <4> QED
          BY <1>1, <1>2, <4>3 DEF BrowserShape
      <3>5. TabInv(c)'
        <4>1. queue'[c] = Tail(queue[c]) /\ dropped'[c] = TRUE /\ raced'[c] = (raced[c] \/ Len(queue[c]) < QueueSize)
          BY <1>1, <3>1 DEF ServerShape, BrowserShape
        <4> QED
          BY <1>2, <2>1, <2>5, <4>1, RoomTab
      <3>6. ASSUME NEW d \in Tab, d # c PROVE TabInv(d)'
        <4>1. SameTab(d)
          BY <1>1, <1>2, <3>1, <3>6 DEF SameTab, ServerShape, BrowserShape
        <4> QED
          BY <1>1, <1>2, <2>3, <4>1, TabKeeps
      <3> QED
        BY <1>3, <2>2, <3>3, <3>4, <3>5, <3>6 DEF IInv
    <2> QED
      BY <1>7, <2>4, <2>5 DEF MakeRoom
  <1>8. ASSUME NEW c \in Tab, Push(e, c) \/ PushAgain(e, c) PROVE IInv'
    <2>1. /\ em[e] \in {"pushing", "room"} /\ c \in to[e] /\ em' = [em EXCEPT ![e] = "pushing"]
          /\ to' = [to EXCEPT ![e] = to[e] \ {c}] /\ UNCHANGED frame
      BY <1>8 DEF Push, PushAgain, Serves, Served
    <2>2. EmitterShape'
      BY <1>1, <1>2, <2>1, EmitterMoves DEF EmitterShape
    <2>3. /\ em'[e] = "pushing" /\ to'[e] = to[e] \ {c}
          /\ \A d \in Emitter : d # e => em'[d] = em[d] /\ to'[d] = to[d]
      BY <1>1, <2>1 DEF EmitterShape
    <2>4. \A d \in Tab : d # c => SameWay(d)
      BY <1>1, <2>1, <2>3 DEF SameWay, OnWay, EmitterShape
    <2>5. queue[c] \in Seq(Frame) /\ frame[e] \in Frame /\ Len(queue[c]) \in Nat /\ QueueSize \in Nat /\ Len(queue[c]) <= QueueSize
      BY <1>1, Bounds DEF ServerShape, EmitterShape, TabInv, Queued
    <2>6. CASE Len(queue[c]) < QueueSize
      <3>1. queue' = [queue EXCEPT ![c] = Append(queue[c], frame[e])]
        BY <1>8, <2>6 DEF Push, PushAgain
      <3>2. UNCHANGED <<dropped, raced>>
        <4>1. CASE Push(e, c)
          BY <4>1 DEF Push, browser
        <4>2. CASE PushAgain(e, c)
          <5>1. (Len(queue[c]) = QueueSize) = FALSE
            BY <2>5, <2>6
          <5>2. \A b \in BOOLEAN : (b \/ FALSE) = b
            OBVIOUS
          <5>3. dropped[c] \in BOOLEAN /\ raced[c] \in BOOLEAN
            BY <1>1 DEF BrowserShape
          <5>4. dropped' = [dropped EXCEPT ![c] = dropped[c]] /\ raced' = [raced EXCEPT ![c] = raced[c]]
            BY <4>2, <5>1, <5>2, <5>3 DEF PushAgain
          <5> QED
            BY <1>1, <5>4 DEF BrowserShape
        <4> QED
          BY <1>8, <4>1, <4>2
      <3>3. ServerShape' /\ BrowserShape'
        <4>1. Append(queue[c], frame[e]) \in Seq(Frame)
          BY <2>5
        <4>2. queue' \in [Tab -> Seq(Frame)]
          BY <1>1, <3>1, <4>1 DEF ServerShape
        <4> QED
          BY <1>1, <1>2, <3>2, <4>2 DEF ServerShape, BrowserShape
      <3>4. TabInv(c)'
        <4>1. queue'[c] = Append(queue[c], frame[e])
          BY <1>1, <3>1 DEF ServerShape
        <4> QED
          BY <1>2, <2>1, <2>3, <2>6, <3>2, <4>1, PushTab
      <3>5. ASSUME NEW d \in Tab, d # c PROVE TabInv(d)'
        <4>1. SameTab(d)
          BY <1>1, <1>2, <3>1, <3>2, <3>5 DEF SameTab, ServerShape
        <4> QED
          BY <1>1, <1>2, <2>4, <3>5, <4>1, TabKeeps
      <3> QED
        BY <1>3, <2>2, <3>3, <3>4, <3>5 DEF IInv
    <2>7. CASE ~ Len(queue[c]) < QueueSize
      <3>1. PushAgain(e, c) /\ Len(queue[c]) = QueueSize
        BY <1>8, <2>5, <2>7 DEF Push
      <3>2. UNCHANGED queue /\ em[e] = "room" /\ dropped' = [dropped EXCEPT ![c] = TRUE] /\ raced' = [raced EXCEPT ![c] = TRUE]
        BY <2>7, <3>1 DEF PushAgain
      <3>3. ServerShape' /\ BrowserShape'
        BY <1>1, <1>2, <3>2 DEF ServerShape, BrowserShape
      <3>4. TabInv(c)'
        <4>1. dropped'[c] = TRUE /\ raced'[c] = TRUE
          BY <1>1, <3>2 DEF BrowserShape
        <4> QED
          BY <1>2, <2>1, <2>3, <3>2, <4>1, LostTab
      <3>5. ASSUME NEW d \in Tab, d # c PROVE TabInv(d)'
        <4>1. SameTab(d)
          BY <1>1, <1>2, <3>2, <3>5 DEF SameTab, BrowserShape
        <4> QED
          BY <1>1, <1>2, <2>4, <3>5, <4>1, TabKeeps
      <3> QED
        BY <1>3, <2>2, <3>3, <3>4, <3>5 DEF IInv
    <2> QED
      BY <2>6, <2>7
  <1> QED
    BY <1>4, <1>5, <1>6, <1>7, <1>8

-----------------------------------------------------------------------------
(* Tabs and their connections. *)

SameBrowser(d) ==
  /\ page'[d] = page[d] /\ last'[d] = last[d] /\ got'[d] = got[d] /\ late'[d] = late[d]
  /\ dropped'[d] = dropped[d] /\ raced'[d] = raced[d]
SameServer(d) ==
  /\ queue'[d] = queue[d] /\ conn'[d] = conn[d] /\ replay'[d] = replay[d] /\ snap'[d] = snap[d]

LEMMA TabStep ==
  ASSUME IInv, NEW c \in Tab, UNCHANGED <<entry, seq, buf, em, frame, to, drops>>, subs \subseteq subs',
         ServerShape', BrowserShape', TabInv(c)', \A d \in Tab : d # c => SameBrowser(d) /\ SameServer(d)
  PROVE  IInv'
  <1>1. EntryShape' /\ Ending' /\ BufferShape'
    BY EntrySame, SameBuffer DEF IInv, EntryShape
  <1>2. EmitterShape'
    BY SameBuffer DEF IInv, EmitterShape
  <1>3. ASSUME NEW d \in Tab, d # c PROVE TabInv(d)'
    <2>1. SameTab(d) /\ SameWay(d)
      BY <1>3 DEF SameTab, SameBrowser, SameServer, SameWay, OnWay
    <2> QED
      BY <2>1, TabKeeps DEF IInv
  <1> QED
    BY <1>1, <1>2, <1>3 DEF IInv

\* What a connection that closes leaves behind.
LEMMA CloseStep ==
  ASSUME IInv, NEW c \in Tab, Close(c), UNCHANGED <<entry, seq, buf, frame>>, drops' \in 0 .. MaxDrops,
         BrowserShape', \A d \in Tab : d # c => SameBrowser(d),
         ~ dropped'[c] => \A n \in Before + 1 .. seq : n <= last'[c] => Known(c, n)',
         (\A n : Coming(c, n)' => Coming(c, n)) /\ conn'[c] = "off" => InOrder(c)',
         page'[c] /\ last'[c] > Before => buf[last'[c] - Before].kind = "step"
  PROVE  IInv'
  <1>1. EntryShape' /\ Ending' /\ BufferShape'
    BY EntrySame, SameBuffer DEF IInv, EntryShape
  <1>2. /\ to' = [e \in Emitter |-> to[e] \ {c}]
        /\ em' = [e \in Emitter |-> IF Serves(e, c) /\ em[e] \in {"full", "room"} THEN "pushing" ELSE em[e]]
        /\ conn' = [conn EXCEPT ![c] = "off"] /\ subs' = subs \ {c}
        /\ queue' = [queue EXCEPT ![c] = <<>>] /\ replay' = [replay EXCEPT ![c] = <<>>] /\ snap' = [snap EXCEPT ![c] = {}]
    BY DEF Close
  <1>3. EmitterShape /\ ServerShape /\ \A d \in Tab : TabInv(d)
    BY DEF IInv
  <1>4. \A e \in Emitter :
          /\ to'[e] = to[e] \ {c} /\ em'[e] \in {"idle", "numbered", "pushing", "full", "room"}
          /\ (em'[e] = "idle" <=> em[e] = "idle") /\ (em'[e] = "numbered" <=> em[e] = "numbered")
    BY <1>2, <1>3 DEF EmitterShape
  <1>5. EmitterShape'
    <2>1. /\ em' \in [Emitter -> {"idle", "numbered", "pushing", "full", "room"}]
          /\ to' \in [Emitter -> SUBSET Tab]
      BY <1>2, <1>3, <1>4 DEF EmitterShape
    <2> QED
      BY <1>2, <1>3, <1>4, <2>1, EmitterMoves DEF EmitterShape
  <1>6. ServerShape'
    BY <1>2, <1>3 DEF ServerShape
  <1>7. ASSUME NEW d \in Tab, d # c PROVE TabInv(d)'
    <2>1. SameTab(d)
      BY <1>2, <1>3, <1>7 DEF SameTab, SameBrowser, ServerShape
    <2>2. SameWay(d)
      BY <1>4, <1>7 DEF SameWay, OnWay
    <2> QED
      BY <1>3, <2>1, <2>2, TabKeeps
  <1>8. TabInv(c)'
    <2>1. conn'[c] = "off" /\ queue'[c] = <<>> /\ replay'[c] = <<>> /\ snap'[c] = {}
      BY <1>2, <1>3 DEF ServerShape
    <2>2. \A e \in Emitter : OnWay(e, c)' => OnWay(e, c)
      BY <1>4 DEF OnWay
    <2>3. \A n : Coming(c, n)' => Coming(c, n)
      BY <2>1, <2>2 DEF Coming, InQueue
    <2>4. Connected(c)' /\ Replays(c)'
      BY <2>1 DEF Connected, Replays
    <2>5. Queued(c)'
      BY <2>1, Bounds DEF Queued
    <2>6. Gapless(c)'
      BY <2>1 DEF Gapless, Before
    <2>7. InOrder(c)'
      BY <2>1, <2>3
    <2>8. EndAhead(c)'
      BY <2>1 DEF EndAhead, Before
    <2> QED
      BY <2>4, <2>5, <2>6, <2>7, <2>8 DEF TabInv
  <1> QED
    BY <1>1, <1>5, <1>6, <1>7, <1>8 DEF IInv

\* A connection that closes for a reason other than a frame.
LEMMA JustClosed ==
  ASSUME IInv, NEW c \in Tab, Close(c), UNCHANGED <<entry, seq, buf, frame, last, got, late, dropped, raced>>,
         drops' \in 0 .. MaxDrops, \E b \in BOOLEAN : page' = [page EXCEPT ![c] = b] /\ (b => page[c])
  PROVE  IInv'
  <1>1. PICK b \in BOOLEAN : page' = [page EXCEPT ![c] = b] /\ (b => page[c])
    OBVIOUS
  <1>2. BrowserShape /\ TabInv(c)
    BY DEF IInv
  <1>3. BrowserShape' /\ page'[c] = b /\ \A d \in Tab : d # c => SameBrowser(d)
    BY <1>1, <1>2 DEF BrowserShape, SameBrowser
  <1>4. ~ dropped'[c] => \A n \in Before + 1 .. seq : n <= last'[c] => Known(c, n)'
    BY <1>2 DEF TabInv, Gapless, Known, Received
  <1>5. (\A n : Coming(c, n)' => Coming(c, n)) /\ conn'[c] = "off" => InOrder(c)'
    BY <1>2 DEF TabInv, InOrder
  <1>6. page'[c] /\ last'[c] > Before => buf[last'[c] - Before].kind = "step"
    BY <1>1, <1>2, <1>3 DEF TabInv, EndAhead
  <1> QED
    BY <1>3, <1>4, <1>5, <1>6, CloseStep

LEMMA Closings ==
  ASSUME IInv, NEW c \in Tab,
         \/ IdleEnd(c) \/ Drop(c)
         \/ NothingNew(c) /\ status = "ended" /\ Close(c)
         \/ Poll(c) /\ page[c]
  PROVE  IInv'
  <1>1. page \in [Tab -> BOOLEAN] /\ drops \in 0 .. MaxDrops /\ MaxDrops \in Nat
    BY Bounds DEF IInv, BrowserShape, EntryShape
  <1>2. page = [page EXCEPT ![c] = page[c]] /\ page[c] \in BOOLEAN
    BY <1>1
  <1>3. CASE IdleEnd(c)
    <2>1. /\ Close(c) /\ UNCHANGED <<entry, seq, buf, frame, last, got, late, dropped, raced, drops>>
          /\ page' = [page EXCEPT ![c] = FALSE]
      BY <1>3 DEF IdleEnd
    <2> QED
      BY <1>1, <2>1, JustClosed
  <1>4. CASE Drop(c)
    <2>1. /\ Close(c) /\ UNCHANGED <<entry, seq, buf, frame, page, last, got, late, dropped, raced>>
          /\ drops' \in 0 .. MaxDrops
      BY <1>1, <1>4 DEF Drop, browser
    <2> QED
      BY <1>2, <2>1, JustClosed
  <1>5. CASE NothingNew(c) /\ status = "ended" /\ Close(c)
    <2>1. UNCHANGED <<entry, seq, buf, frame, page, last, got, late, dropped, raced, drops>>
      BY <1>5 DEF NothingNew, browser
    <2> QED
      BY <1>1, <1>2, <1>5, <2>1, JustClosed
  <1>6. CASE Poll(c) /\ page[c]
    <2>1. /\ Close(c) /\ UNCHANGED <<entry, seq, buf, frame, last, got, late, dropped, raced, drops>>
          /\ page' = [page EXCEPT ![c] = ~ page[c]]
      BY <1>6 DEF Poll
    <2>2. (~ page[c]) = FALSE
      BY <1>6
    <2> QED
      BY <1>1, <2>1, <2>2, JustClosed
  <1> QED
    BY <1>3, <1>4, <1>5, <1>6

\* A connection opens; one with nothing to replay goes live; a tab listens to a new run.
LEMMA Openings ==
  ASSUME IInv, NEW c \in Tab,
         \/ Connect(c)
         \/ NothingNew(c) /\ ~ Close(c)
         \/ Poll(c) /\ ~ page[c]
  PROVE  IInv'
  <1>1. TabInv(c) /\ ServerShape /\ BrowserShape /\ EmitterShape /\ BufferShape /\ seq \in Nat
    BY DEF IInv, EntryShape
  <1>2. CASE Connect(c)
    <2>1. /\ page[c] /\ conn[c] = "off" /\ conn' = [conn EXCEPT ![c] = "registered"] /\ subs' = subs \cup {c}
          /\ UNCHANGED <<entry, seq, buf, em, frame, to, queue, replay, snap, browser, drops>>
      BY <1>2 DEF Connect, emission
    <2>2. ServerShape' /\ BrowserShape' /\ conn'[c] = "registered"
      BY <1>1, <2>1 DEF ServerShape, BrowserShape, browser
    <2>3. \A d \in Tab : d # c => SameBrowser(d) /\ SameServer(d)
      BY <1>1, <2>1 DEF SameBrowser, SameServer, ServerShape, browser
    <2>4. \A n : (Coming(c, n)' <=> Coming(c, n)) /\ (Known(c, n)' <=> Known(c, n)) /\ (InReplay(c, n)' <=> InReplay(c, n))
      BY <2>1 DEF Coming, InQueue, OnWay, Known, InReplay, Received, browser
    <2>5. Connected(c)' /\ Replays(c)' /\ Gapless(c)' /\ InOrder(c)' /\ EndAhead(c)'
      BY <1>1, <2>1, <2>2, <2>4, SameBuffer
      DEF TabInv, Connected, Replays, Gapless, InOrder, EndAhead, OnWay, browser
    <2>6. Queued(c)'
      BY <1>1, <2>1, SameBuffer DEF TabInv, Queued, OnWay
    <2>7. TabInv(c)'
      BY <2>5, <2>6 DEF TabInv
    <2> QED
      BY <2>1, <2>2, <2>3, <2>7, TabStep
  <1>3. CASE NothingNew(c) /\ ~ Close(c)
    <2>1. /\ conn[c] = "nothing" /\ conn' = [conn EXCEPT ![c] = "live"]
          /\ UNCHANGED <<entry, seq, buf, em, frame, to, subs, queue, replay, snap, browser, drops>>
      BY <1>3 DEF NothingNew
    <2>2. ServerShape' /\ BrowserShape' /\ conn'[c] = "live"
      BY <1>1, <2>1 DEF ServerShape, BrowserShape, browser
    <2>3. \A d \in Tab : d # c => SameBrowser(d) /\ SameServer(d)
      BY <1>1, <2>1 DEF SameBrowser, SameServer, ServerShape, browser
    <2>4. \A n : (Coming(c, n)' <=> Coming(c, n)) /\ (Known(c, n)' <=> Known(c, n)) /\ (InReplay(c, n)' <=> InReplay(c, n))
      BY <2>1 DEF Coming, InQueue, OnWay, Known, InReplay, Received, browser
    <2>5. Connected(c)' /\ Replays(c)' /\ Gapless(c)' /\ InOrder(c)' /\ EndAhead(c)'
      BY <1>1, <2>1, <2>2, <2>4, SameBuffer
      DEF TabInv, Connected, Replays, Gapless, InOrder, EndAhead, OnWay, browser
    <2>6. Queued(c)'
      BY <1>1, <2>1, SameBuffer DEF TabInv, Queued, OnWay
    <2>7. TabInv(c)'
      BY <2>5, <2>6 DEF TabInv
    <2> QED
      BY <2>1, <2>2, <2>3, <2>7, TabStep
  <1>4. CASE Poll(c) /\ ~ page[c]
    <2>1. /\ page' = [page EXCEPT ![c] = ~ page[c]] /\ last' = [last EXCEPT ![c] = 0] /\ got' = [got EXCEPT ![c] = <<>>]
          /\ late' = [late EXCEPT ![c] = {}]
          /\ dropped' = [dropped EXCEPT ![c] = FALSE] /\ raced' = [raced EXCEPT ![c] = FALSE]
          /\ UNCHANGED <<entry, seq, buf, em, frame, to, server, drops>>
      BY <1>4 DEF Poll
    <2>2. BrowserShape' /\ ServerShape' /\ UNCHANGED subs
      <3>1. (~ page[c]) \in BOOLEAN
        OBVIOUS
      <3>2. \A b \in BOOLEAN : [page EXCEPT ![c] = b] \in [Tab -> BOOLEAN]
        BY <1>1 DEF BrowserShape
      <3>3. page' \in [Tab -> BOOLEAN]
        BY <2>1, <3>1, <3>2
      <3> QED
        BY <1>1, <2>1, <3>3 DEF BrowserShape, ServerShape, server
    <2>3. \A d \in Tab : d # c => SameBrowser(d) /\ SameServer(d)
      BY <1>1, <2>1 DEF SameBrowser, SameServer, BrowserShape, server
    <2>4. /\ last'[c] = 0 /\ got'[c] = <<>> /\ late'[c] = {} /\ conn'[c] = "off" /\ queue'[c] = <<>> /\ replay'[c] = <<>>
          /\ snap'[c] = {}
      BY <1>1, <1>4, <2>1 DEF BrowserShape, TabInv, Connected, server
    <2>5. Before \in Nat /\ UNCHANGED <<seq, buf>>
      BY <1>1, <2>1, Window
    <2>6. Connected(c)' /\ Replays(c)'
      BY <2>4 DEF Connected, Replays
    <2>7. Queued(c)'
      BY <2>4, Bounds DEF Queued
    <2>8. Gapless(c)'
      BY <2>4, <2>5, SameBuffer DEF Gapless
    <2>9. InOrder(c)'
      BY <1>1, <2>4, <2>5 DEF InOrder
    <2>10. EndAhead(c)'
      BY <2>4, <2>5, SameBuffer DEF EndAhead
    <2>11. TabInv(c)'
      BY <2>6, <2>7, <2>8, <2>9, <2>10 DEF TabInv
    <2> QED
      BY <2>1, <2>2, <2>3, <2>11, TabStep
  <1> QED
    BY <1>2, <1>3, <1>4

\* What a snapshot replays: the buffer from some place on, and nothing the tab has.
LEMMA UnseenIs ==
  ASSUME IInv, NEW c \in Tab
  PROVE  \E k \in 0 .. Len(buf) :
           /\ Unseen(c) \in Seq(Frame) /\ Len(Unseen(c)) = Len(buf) - k
           /\ \A i \in 1 .. Len(Unseen(c)) : k + i \in 1 .. Len(buf) /\ Unseen(c)[i] = buf[k + i]
           /\ last[c] <= Before + k
           /\ k > 0 => last[c] = Before + k
  <1>1. /\ BufferShape /\ seq \in Nat /\ last[c] \in Nat /\ last[c] <= seq
        /\ Len(buf) \in Nat /\ Before \in Nat /\ Before + Len(buf) = seq /\ Ids(buf) = Before + 1 .. seq
        /\ buf \in Seq(Frame) /\ DOMAIN buf = 1 .. Len(buf)
        /\ \A i \in 1 .. Len(buf) : buf[i].id = Before + i
    BY Window DEF IInv, EntryShape, BrowserShape, TabInv, InOrder, BufferShape
  <1>2. CASE last[c] \in Ids(buf)
    <2>1. PICK k \in 1 .. Len(buf) : k = last[c] - Before
      BY <1>1, <1>2
    <2>2. ReplayIndex(c) \in DOMAIN buf /\ buf[ReplayIndex(c)].id = last[c]
      <3>1. \E i \in DOMAIN buf : buf[i].id = last[c]
        BY <1>2 DEF Ids
      <3> QED
        BY <3>1 DEF ReplayIndex
    <2>3. ReplayIndex(c) = k
      BY <1>1, <2>1, <2>2
    <2>4. Unseen(c) = SubSeq(buf, k + 1, Len(buf))
      BY <1>2, <2>3 DEF Unseen
    <2>5. /\ Unseen(c) \in Seq(Frame) /\ Len(Unseen(c)) = Len(buf) - k
          /\ \A i \in 1 .. Len(Unseen(c)) : k + i \in 1 .. Len(buf) /\ Unseen(c)[i] = buf[k + i]
      <3>1. k + 1 \in Int /\ Len(buf) \in Int /\ \A i \in k + 1 .. Len(buf) : buf[i] \in Frame
        BY <1>1, <2>1
      <3>2. /\ SubSeq(buf, k + 1, Len(buf)) \in Seq(Frame)
            /\ Len(SubSeq(buf, k + 1, Len(buf))) = IF k + 1 <= Len(buf) THEN Len(buf) - (k + 1) + 1 ELSE 0
            /\ \A i \in 1 .. Len(buf) - (k + 1) + 1 : SubSeq(buf, k + 1, Len(buf))[i] = buf[k + 1 + i - 1]
        BY <3>1, SubSeqProperties
      <3>3. Len(Unseen(c)) = Len(buf) - k
        <4>1. Len(buf) \in Nat /\ k \in Nat /\ k <= Len(buf)
          BY <1>1, <2>1
        <4>2. (IF k + 1 <= Len(buf) THEN Len(buf) - (k + 1) + 1 ELSE 0) = Len(buf) - k
          BY <4>1
        <4>3. Len(SubSeq(buf, k + 1, Len(buf))) = Len(buf) - k
          BY <3>2, <4>2
        <4> QED
          BY <2>4, <4>3
      <3>4. \A i \in 1 .. Len(buf) - k : k + i \in 1 .. Len(buf) /\ Unseen(c)[i] = buf[k + i]
        <4> TAKE i \in 1 .. Len(buf) - k
        <4>0. Len(buf) \in Nat /\ k \in Nat
          BY <1>1, <2>1
        <4>1. i \in 1 .. Len(buf) - (k + 1) + 1 /\ k + 1 + i - 1 = k + i /\ k + i \in 1 .. Len(buf)
          BY <4>0
        <4> QED
          BY <2>4, <3>2, <4>1
      <3> QED
        BY <2>4, <3>2, <3>3, <3>4
    <2>6. k \in 0 .. Len(buf) /\ last[c] = Before + k
      BY <1>1, <2>1
    <2>7. last[c] <= Before + k
      BY <1>1, <2>6
    <2> WITNESS k \in 0 .. Len(buf)
    <2> QED
      BY <2>5, <2>6, <2>7
  <1>3. CASE last[c] \notin Ids(buf)
    <2>1. Unseen(c) = buf /\ last[c] <= Before
      BY <1>1, <1>3 DEF Unseen
    <2>2. 0 \in 0 .. Len(buf) /\ Len(buf) - 0 = Len(buf) /\ Before + 0 = Before /\ \A i \in 1 .. Len(buf) : 0 + i = i
      BY <1>1
    <2> WITNESS 0 \in 0 .. Len(buf)
    <2> QED
      BY <1>1, <2>1, <2>2
  <1> QED
    BY <1>2, <1>3

LEMMA Snapshots ==
  ASSUME IInv, NEW c \in Tab, Snapshot(c)
  PROVE  IInv'
  <1>1. /\ TabInv(c) /\ ServerShape /\ BrowserShape /\ BufferShape /\ seq \in Nat /\ last[c] \in Nat
        /\ Len(buf) \in Nat /\ Before \in Nat /\ Before + Len(buf) = seq /\ Ids(buf) = Before + 1 .. seq
        /\ \A i \in 1 .. Len(buf) : buf[i] \in Frame /\ buf[i].id = Before + i
        /\ Len(buf) = 0 => seq = 0
    BY Window DEF IInv, EntryShape, BrowserShape, BufferShape
  <1>2. PICK u : u = Unseen(c)
    OBVIOUS
  <1>3. PICK k \in 0 .. Len(buf) :
           /\ u \in Seq(Frame) /\ Len(u) = Len(buf) - k
           /\ \A i \in 1 .. Len(u) : k + i \in 1 .. Len(buf) /\ u[i] = buf[k + i]
           /\ last[c] <= Before + k
           /\ k > 0 => last[c] = Before + k
    BY <1>2, UnseenIs
  <1>4. /\ conn[c] = "registered" /\ conn' = [conn EXCEPT ![c] = IF u = <<>> THEN "nothing" ELSE "replay"]
        /\ replay' = [replay EXCEPT ![c] = u] /\ snap' = [snap EXCEPT ![c] = Ids(buf)]
        /\ UNCHANGED <<entry, seq, buf, em, frame, to, subs, queue, browser, drops>>
    BY <1>2 DEF Snapshot, emission
  <1>5. /\ conn'[c] = (IF u = <<>> THEN "nothing" ELSE "replay") /\ replay'[c] = u /\ snap'[c] = Before + 1 .. seq
        /\ page[c] /\ page'[c] = page[c] /\ last'[c] = last[c] /\ UNCHANGED <<seq, buf>>
    BY <1>1, <1>4 DEF ServerShape, TabInv, Connected, browser
  <1>6. ServerShape' /\ BrowserShape'
    <2>1. Ids(buf) \in SUBSET Nat
      BY <1>1
    <2>2. (IF u = <<>> THEN "nothing" ELSE "replay") \in {"off", "registered", "nothing", "replay", "live"}
      OBVIOUS
    <2>3. /\ snap' \in [Tab -> SUBSET Nat] /\ conn' \in [Tab -> {"off", "registered", "nothing", "replay", "live"}]
          /\ replay' \in [Tab -> Seq(Frame)]
      BY <1>1, <1>3, <1>4, <2>1, <2>2 DEF ServerShape
    <2>4. \A d \in Tab : conn'[d] # "off" <=> conn[d] # "off"
      BY <1>1, <1>4, <1>5 DEF ServerShape
    <2> QED
      BY <1>1, <1>4, <2>3, <2>4 DEF ServerShape, BrowserShape, browser
  <1>7. \A d \in Tab : d # c => SameBrowser(d) /\ SameServer(d)
    BY <1>1, <1>4 DEF SameBrowser, SameServer, ServerShape, browser
  <1>8. \A n : (Coming(c, n)' <=> Coming(c, n)) /\ (Known(c, n)' <=> Known(c, n))
    BY <1>4 DEF Coming, InQueue, OnWay, Known, Received, browser
  <1>9. \A i \in 1 .. Len(u) : u[i] \in Frame /\ u[i].id = Before + k + i /\ k + i \in 1 .. Len(buf)
    <2> TAKE i \in 1 .. Len(u)
    <2>1. PICK j \in 1 .. Len(buf) : j = k + i /\ u[i] = buf[j]
      BY <1>3
    <2>2. buf[j] \in Frame /\ buf[j].id = Before + j
      BY <1>1
    <2> QED
      BY <1>1, <2>1, <2>2
  <1>10. \A n \in Before + 1 .. seq : n > Before + k => InReplay(c, n)'
    <2>1. ASSUME NEW n \in Before + 1 .. seq, n > Before + k PROVE \E i \in 1 .. Len(u) : u[i].id = n
      <3>1. PICK i \in 1 .. Len(u) : Before + k + i = n
        <4>1. n - Before - k \in 1 .. Len(u) /\ Before + k + (n - Before - k) = n
          BY <1>1, <1>3, <2>1
        <4> QED
          BY <4>1
      <3> QED
        BY <1>9, <3>1
    <2> QED
      BY <1>5, <2>1 DEF InReplay
  <1>11. Connected(c)'
    BY <1>1, <1>4, <1>5 DEF TabInv, Connected
  <1>12. Queued(c)'
    BY <1>1, <1>4, SameBuffer DEF TabInv, Queued, OnWay
  <1>13. Replays(c)'
    <2>1. \A i \in 1 .. Len(u) : Agrees(u[i]) /\ u[i].id > last[c] /\ u[i].id \in Before + 1 .. seq
      <3> TAKE i \in 1 .. Len(u)
      <3>1. u[i].id > last[c] /\ u[i].id \in Before + 1 .. seq /\ u[i].id \in 1 .. seq /\ u[i].id - Before = k + i
        <4>1. u[i].id = Before + k + i /\ k + i \in 1 .. Len(buf)
          BY <1>9
        <4>2. Before \in Nat /\ k \in Nat /\ i \in Nat \ {0} /\ Before + Len(buf) = seq /\ Len(buf) \in Nat
          BY <1>1, <1>3
        <4>3. last[c] \in Nat /\ last[c] <= Before + k
          BY <1>1, <1>3
        <4> QED
          BY <4>1, <4>2, <4>3
      <3>2. Agrees(u[i])
        BY <1>3, <1>9, <3>1 DEF Agrees
      <3> QED
        BY <3>1, <3>2
    <2>2. \A i \in 1 .. Len(replay'[c]) : Agrees(replay[c][i])'
      BY <1>5, <2>1 DEF Agrees, Before
    <2>3. \A i, j \in 1 .. Len(u) : i < j => u[i].id < u[j].id
      <3> TAKE i, j \in 1 .. Len(u)
      <3>1. u[i].id = Before + k + i /\ u[j].id = Before + k + j
        BY <1>9
      <3>2. Before \in Nat /\ k \in Nat /\ i \in Nat /\ j \in Nat
        BY <1>1, <1>3
      <3> QED
        BY <3>1, <3>2
    <2>4. \A n \in Before + 1 .. seq : n \in 1 .. seq
      BY <1>1
    <2> QED
      BY <1>5, <2>1, <2>2, <2>3, <2>4 DEF Replays
  <1>14. Gapless(c)'
    <2>1. ASSUME ~ dropped[c], NEW n \in Before + 1 .. seq
          PROVE  /\ n <= last[c] => Known(c, n)
                 /\ Known(c, n) \/ InReplay(c, n)'
      <3>1. n <= last[c] => Known(c, n)
        BY <1>1, <2>1 DEF TabInv, Gapless
      <3>2. n > Before + k \/ n <= last[c]
        BY <1>1, <1>3, <2>1
      <3> QED
        BY <1>10, <3>1, <3>2
    <2> QED
      BY <1>4, <1>5, <1>8, <2>1, SameBuffer DEF Gapless, browser
  <1>15. InOrder(c)'
    <2>1. ASSUME NEW n \in 1 .. seq, n = last[c], u = <<>> PROVE n \in Before + 1 .. seq
      BY <1>1, <1>3, <2>1
    <2>2. late[c] = {} => \A n \in 1 .. seq : Coming(c, n)' =>
            n >= last[c] /\ (n = last[c] /\ conn'[c] \in {"nothing", "live"} => n \in snap'[c])
      BY <1>1, <1>5, <1>8, <2>1 DEF TabInv, InOrder
    <2> QED
      BY <1>1, <1>4, <1>5, <2>2 DEF TabInv, InOrder, browser
  <1>16. EndAhead(c)'
    <2>1. ASSUME NewestEnd PROVE InReplay(c, seq)'
      <3>1. Len(buf) > 0 /\ buf[Len(buf)].kind # "step"
        BY <1>1, <2>1 DEF NewestEnd, Newest, BufferShape
      <3>2. ASSUME k = Len(buf) PROVE FALSE
        <4>1. last[c] = seq /\ last[c] > Before /\ last[c] - Before = Len(buf)
          BY <1>1, <1>3, <3>1, <3>2
        <4> QED
          BY <1>1, <1>5, <3>1, <4>1 DEF TabInv, EndAhead
      <3>3. seq \in Before + 1 .. seq /\ seq > Before + k
        BY <1>1, <1>3, <3>1, <3>2
      <3>4. PICK n : n = seq
        OBVIOUS
      <3>5. InReplay(c, n)'
        BY <1>10, <3>3, <3>4
      <3> QED
        BY <1>5, <3>4, <3>5 DEF InReplay
    <2>2. \A d \in Emitter : OnWay(d, c)' <=> OnWay(d, c)
      BY <1>4 DEF OnWay
    <2>3. UNCHANGED <<queue, page, last>>
      BY <1>4 DEF browser
    <2> QED
      BY <1>1, <1>5, <2>1, <2>2, <2>3, SameBuffer DEF TabInv, EndAhead
  <1>17. TabInv(c)'
    BY <1>11, <1>12, <1>13, <1>14, <1>15, <1>16 DEF TabInv
  <1> QED
    BY <1>4, <1>6, <1>7, <1>17, TabStep

-----------------------------------------------------------------------------
(* Frames that reach a tab. *)

\* The tab gets a frame newer than what it has, or some frame was late; what is still
\* missing below it is noted as late.
LEMMA Receiving ==
  ASSUME IInv, NEW c \in Tab, NEW f, Agrees(f), Receive(c, f),
         late[c] = {} => f.id > last[c],
         ~ dropped[c] => \A n \in Before + 1 .. seq : n < f.id => Known(c, n) \/ Coming(c, n)
  PROVE  /\ BrowserShape' /\ \A d \in Tab : d # c => SameBrowser(d)
         /\ dropped'[c] = dropped[c] /\ raced'[c] = raced[c]
         /\ f.kind # "error" => last'[c] = f.id /\ page'[c] = (f.kind = "step") /\ Known(c, f.id)'
         /\ \A n : Known(c, n) => Known(c, n)'
         /\ ~ dropped'[c] => \A n \in Before + 1 .. seq : n <= last'[c] => Known(c, n)'
         /\ got'[c] = <<>> <=> last'[c] = 0
         /\ last'[c] <= seq
         /\ \A i \in 1 .. Len(got'[c]) : got'[c][i] \in 1 .. seq
         /\ late'[c] \subseteq 1 .. seq
         /\ late'[c] = {} =>
              /\ \A i \in 1 .. Len(got'[c]) : got'[c][i] <= last'[c]
              /\ \A i, j \in 1 .. Len(got'[c]) : i < j => got'[c][i] < got'[c][j]
              /\ \A n \in 1 .. seq : Coming(c, n) => n >= f.id /\ n >= last'[c]
         /\ page'[c] /\ last'[c] > Before => buf[last'[c] - Before].kind = "step"
  <1>1. TabInv(c) /\ BrowserShape /\ ServerShape /\ BufferShape /\ EmitterShape /\ seq \in Nat /\ Before \in Nat
    BY Window DEF IInv, EntryShape
  <1>2. /\ f \in Frame /\ f.id \in 1 .. seq /\ (f.id > Before => f = buf[f.id - Before])
        /\ last[c] \in Nat /\ last[c] <= seq /\ got[c] \in Seq(Nat) /\ f.id \in Nat
    BY <1>1 DEF Agrees, BrowserShape, TabInv, InOrder
  <1>3. late' = [late EXCEPT ![c] = late[c] \cup Overtaken(c, f.id)] /\ UNCHANGED <<dropped, raced>>
    BY DEF Receive
  <1>4. Overtaken(c, f.id) \subseteq 1 .. f.id - 1 /\ Overtaken(c, f.id) \subseteq 1 .. seq
    BY <1>1, <1>2 DEF Overtaken
  <1>5. late'[c] = late[c] \cup Overtaken(c, f.id) /\ late' \in [Tab -> SUBSET Nat] /\ late'[c] \subseteq 1 .. seq
    BY <1>1, <1>3, <1>4 DEF BrowserShape, TabInv, InOrder
  <1>6. \A n \in 1 .. seq : n < f.id /\ Coming(c, n) => n \in Overtaken(c, f.id)
    <2>1. queue[c] \in Seq(Frame) /\ DOMAIN queue[c] = 1 .. Len(queue[c])
      BY <1>1 DEF ServerShape
    <2>2. \A n : InQueue(c, n) => n \in Ids(queue[c])
      BY <2>1 DEF InQueue, Ids
    <2>3. \A e \in Emitter : OnWay(e, c) => em[e] # "idle"
      BY <1>1 DEF OnWay
    <2> QED
      BY <1>2, <2>2, <2>3 DEF Coming, Overtaken
  <1>7. ~ dropped[c] => \A n \in Before + 1 .. seq : n < f.id => Known(c, n) \/ n \in late'[c]
    <2>1. \A n \in Before + 1 .. seq : n \in 1 .. seq
      BY <1>1
    <2> QED
      BY <1>5, <1>6, <2>1
  <1>8. late'[c] = {} => late[c] = {} /\ f.id > last[c] /\ \A n \in 1 .. seq : Coming(c, n) => n >= f.id
    BY <1>2, <1>5, <1>6
  <1>9. CASE f.kind = "error"
    <2>1. UNCHANGED <<got, last, page>>
      BY <1>9 DEF Receive
    <2>2. BrowserShape' /\ \A d \in Tab : d # c => SameBrowser(d)
      BY <1>1, <1>3, <1>5, <2>1 DEF BrowserShape, SameBrowser
    <2>3. \A n : Known(c, n) => Known(c, n)'
      BY <1>5, <2>1 DEF Known, Received
    <2>4. ~ dropped'[c] => \A n \in Before + 1 .. seq : n <= last'[c] => Known(c, n)'
      BY <1>1, <1>3, <2>1, <2>3 DEF TabInv, Gapless
    <2>5. late'[c] = {} => \A n \in 1 .. seq : Coming(c, n) => n >= f.id /\ n >= last'[c]
      BY <1>2, <1>8, <2>1
    <2> QED
      BY <1>1, <1>3, <1>5, <1>8, <1>9, <2>1, <2>2, <2>3, <2>4, <2>5 DEF TabInv, InOrder, EndAhead
  <1>10. CASE f.kind # "error"
    <2>1. /\ got' = [got EXCEPT ![c] = Append(got[c], f.id)] /\ last' = [last EXCEPT ![c] = f.id]
          /\ page' = [page EXCEPT ![c] = f.kind = "step"]
      BY <1>10 DEF Receive
    <2>2. (f.kind = "step") \in BOOLEAN /\ \A b \in BOOLEAN : [page EXCEPT ![c] = b] \in [Tab -> BOOLEAN] /\ [page EXCEPT ![c] = b][c] = b
      BY <1>1 DEF BrowserShape
    <2>3. page' \in [Tab -> BOOLEAN] /\ page'[c] = (f.kind = "step")
      BY <2>1, <2>2
    <2>4. Append(got[c], f.id) \in Seq(Nat)
      BY <1>2
    <2>5. BrowserShape' /\ \A d \in Tab : d # c => SameBrowser(d)
      BY <1>1, <1>2, <1>3, <1>5, <2>1, <2>3, <2>4 DEF BrowserShape, SameBrowser
    <2>6. /\ last'[c] = f.id /\ got'[c] = Append(got[c], f.id) /\ Len(got[c]) \in Nat /\ Len(got'[c]) = Len(got[c]) + 1
          /\ got'[c][Len(got[c]) + 1] = f.id /\ \A i \in 1 .. Len(got[c]) : got'[c][i] = got[c][i]
      BY <1>1, <1>2, <2>1 DEF BrowserShape
    <2>7. \A i \in 1 .. Len(got'[c]) : i = Len(got[c]) + 1 \/ i \in 1 .. Len(got[c])
      BY <2>6
    <2>8. f.id \in Received(c)' /\ \A n \in Received(c) : n \in Received(c)'
      <3>1. DOMAIN got[c] = 1 .. Len(got[c]) /\ DOMAIN got'[c] = 1 .. Len(got'[c])
        BY <1>2, <2>4, <2>6
      <3>2. Len(got[c]) + 1 \in DOMAIN got'[c] /\ \A i \in DOMAIN got[c] : i \in DOMAIN got'[c]
        BY <2>6, <3>1
      <3> QED
        BY <2>6, <3>1, <3>2 DEF Received
    <2>9. Known(c, f.id)' /\ \A n : Known(c, n) => Known(c, n)'
      BY <1>5, <2>8 DEF Known
    <2>10. ~ dropped'[c] => \A n \in Before + 1 .. seq : n <= last'[c] => Known(c, n)'
      <3> SUFFICES ASSUME ~ dropped'[c], NEW n \in Before + 1 .. seq, n <= last'[c] PROVE Known(c, n)'
        OBVIOUS
      <3>1. n = f.id \/ n < f.id
        BY <1>1, <1>2, <2>6
      <3>2. n < f.id => Known(c, n) \/ n \in late'[c]
        BY <1>3, <1>7
      <3>3. n \in late'[c] => Known(c, n)'
        BY DEF Known
      <3> QED
        BY <2>9, <3>1, <3>2, <3>3
    <2>11. \A i \in 1 .. Len(got'[c]) : got'[c][i] \in 1 .. seq
      <3>1. \A i \in 1 .. Len(got[c]) : got[c][i] \in 1 .. seq
        BY <1>1 DEF TabInv, InOrder
      <3> QED
        BY <1>2, <2>6, <2>7, <3>1
    <2>12. got'[c] # <<>> /\ last'[c] # 0 /\ last'[c] <= seq
      <3>1. got'[c] # <<>>
        <4>1. Len(<<>>) = 0 /\ Len(got'[c]) # 0
          BY <2>6
        <4> QED
          BY <4>1
      <3> QED
        BY <1>1, <1>2, <2>6, <3>1
    <2>13. ASSUME late'[c] = {}
           PROVE  /\ \A i \in 1 .. Len(got'[c]) : got'[c][i] <= last'[c]
                  /\ \A i, j \in 1 .. Len(got'[c]) : i < j => got'[c][i] < got'[c][j]
                  /\ \A n \in 1 .. seq : Coming(c, n) => n >= f.id /\ n >= last'[c]
      <3>1. \A i \in 1 .. Len(got[c]) : got[c][i] < f.id
        <4>1. \A i \in 1 .. Len(got[c]) : got[c][i] \in Nat /\ got[c][i] <= last[c]
          BY <1>1, <1>2, <1>8, <2>13 DEF TabInv, InOrder
        <4>2. last[c] \in Nat /\ f.id \in Nat /\ last[c] < f.id
          BY <1>2, <1>8, <2>13
        <4> QED
          BY <4>1, <4>2
      <3>2. \A i, j \in 1 .. Len(got[c]) : i < j => got[c][i] < got[c][j]
        BY <1>1, <1>8, <2>13 DEF TabInv, InOrder
      <3>3. \A i \in 1 .. Len(got'[c]) : got'[c][i] <= last'[c]
        <4> TAKE i \in 1 .. Len(got'[c])
        <4>1. CASE i = Len(got[c]) + 1
          BY <1>2, <2>6, <4>1
        <4>2. CASE i \in 1 .. Len(got[c])
          <5>1. got[c][i] \in Nat /\ got[c][i] < f.id
            BY <1>2, <3>1, <4>2
          <5> QED
            BY <1>2, <2>6, <4>2, <5>1
        <4> QED
          BY <2>7, <4>1, <4>2
      <3>4. \A i, j \in 1 .. Len(got'[c]) : i < j => got'[c][i] < got'[c][j]
        <4> SUFFICES ASSUME NEW i \in 1 .. Len(got'[c]), NEW j \in 1 .. Len(got'[c]), i < j PROVE got'[c][i] < got'[c][j]
          OBVIOUS
        <4>1. i \in 1 .. Len(got[c])
          BY <2>6
        <4>2. CASE j = Len(got[c]) + 1
          BY <2>6, <3>1, <4>1, <4>2
        <4>3. CASE j \in 1 .. Len(got[c])
          BY <2>6, <3>2, <4>1, <4>3
        <4> QED
          BY <2>7, <4>2, <4>3
      <3>5. \A n \in 1 .. seq : Coming(c, n) => n >= f.id /\ n >= last'[c]
        BY <1>8, <2>6, <2>13
      <3> QED
        BY <3>3, <3>4, <3>5
    <2>14. page'[c] /\ last'[c] > Before => buf[last'[c] - Before].kind = "step"
      BY <1>2, <2>3, <2>6
    <2> QED
      BY <1>3, <1>5, <1>10, <2>3, <2>5, <2>6, <2>9, <2>10, <2>11, <2>12, <2>13, <2>14 DEF BrowserShape
  <1> QED
    BY <1>9, <1>10

\* The frame closed the connection.
LEMMA LastFrame ==
  ASSUME IInv, NEW c \in Tab, NEW f, Agrees(f), Receive(c, f), Close(c), UNCHANGED <<entry, seq, buf, frame, drops>>,
         late[c] = {} => f.id > last[c],
         ~ dropped[c] => \A n \in Before + 1 .. seq : n < f.id => Known(c, n) \/ Coming(c, n)
  PROVE  IInv'
  <1>1. /\ BrowserShape' /\ \A d \in Tab : d # c => SameBrowser(d)
        /\ ~ dropped'[c] => \A n \in Before + 1 .. seq : n <= last'[c] => Known(c, n)'
        /\ page'[c] /\ last'[c] > Before => buf[last'[c] - Before].kind = "step"
    BY Receiving
  <1>2. (\A n : Coming(c, n)' => Coming(c, n)) /\ conn'[c] = "off" => InOrder(c)'
    BY Receiving DEF InOrder
  <1>3. drops' \in 0 .. MaxDrops
    BY DEF IInv, EntryShape
  <1> QED
    BY <1>1, <1>2, <1>3, CloseStep

\* The live loop takes the head of the queue.
LEMMA TailQueue ==
  ASSUME IInv, NEW c \in Tab, queue[c] # <<>>, queue'[c] = Tail(queue[c]), UNCHANGED <<seq, buf, em, frame, to>>
  PROVE  /\ Queued(c)' /\ Agrees(queue[c][1]) /\ Coming(c, queue[c][1].id) /\ Tail(queue[c]) \in Seq(Frame)
         /\ \A n : Coming(c, n)' <=> Coming(c, n) /\ n # queue[c][1].id
         /\ \A i \in 1 .. Len(queue'[c]) : i + 1 \in 1 .. Len(queue[c]) /\ queue'[c][i] = queue[c][i + 1]
         /\ Len(queue'[c]) = Len(queue[c]) - 1 /\ Len(queue[c]) \in Nat
  <1>1. /\ queue[c] \in Seq(Frame) /\ TabInv(c) /\ QueueSize \in Nat
    BY Bounds DEF IInv, ServerShape
  <1>2. /\ Len(queue[c]) \in Nat /\ Len(queue[c]) > 0 /\ Len(queue'[c]) = Len(queue[c]) - 1
        /\ Tail(queue[c]) \in Seq(Frame)
        /\ \A i \in 1 .. Len(queue'[c]) : i + 1 \in 1 .. Len(queue[c]) /\ queue'[c][i] = queue[c][i + 1]
    BY <1>1, TailIs
  <1>3. 1 \in 1 .. Len(queue[c])
    BY <1>2
  <1>4. \A d \in Emitter : OnWay(d, c)' <=> OnWay(d, c)
    BY DEF OnWay
  <1>5. \A n : InQueue(c, n)' <=> InQueue(c, n) /\ n # queue[c][1].id
    <2>1. ASSUME NEW n, InQueue(c, n)' PROVE InQueue(c, n) /\ n # queue[c][1].id
      <3>1. PICK i \in 1 .. Len(queue'[c]) : queue'[c][i].id = n
        BY <2>1 DEF InQueue
      <3>2. i + 1 \in 1 .. Len(queue[c]) /\ queue[c][i + 1].id = n /\ i + 1 # 1
        BY <1>2, <3>1
      <3> QED
        BY <1>1, <1>3, <3>2 DEF InQueue, TabInv, Queued
    <2>2. ASSUME NEW n, InQueue(c, n), n # queue[c][1].id PROVE InQueue(c, n)'
      <3>1. PICK i \in 1 .. Len(queue[c]) : queue[c][i].id = n
        BY <2>2 DEF InQueue
      <3>2. i - 1 \in 1 .. Len(queue'[c]) /\ i - 1 + 1 = i
        BY <1>2, <2>2, <3>1
      <3>3. queue'[c][i - 1] = queue[c][i]
        BY <1>2, <3>2
      <3> QED
        BY <3>1, <3>2, <3>3 DEF InQueue
    <2> QED
      BY <2>1, <2>2
  <1>6. \A d \in Emitter : OnWay(d, c) => frame[d].id # queue[c][1].id
    BY <1>1, <1>3 DEF TabInv, Queued
  <1>7. \A n : Coming(c, n)' <=> Coming(c, n) /\ n # queue[c][1].id
    BY <1>4, <1>5, <1>6 DEF Coming
  <1>8. Agrees(queue[c][1]) /\ Coming(c, queue[c][1].id)
    BY <1>1, <1>3 DEF TabInv, Queued, Coming, InQueue
  <1>9. Queued(c)'
    <2>1. \A i \in 1 .. Len(queue'[c]) : Agrees(queue[c][i])'
      BY <1>1, <1>2 DEF TabInv, Queued, Agrees, Before
    <2>2. \A i, j \in 1 .. Len(queue'[c]) : queue'[c][i].id = queue'[c][j].id => i = j
      <3> TAKE i, j \in 1 .. Len(queue'[c])
      <3>1. queue[c][i + 1].id = queue[c][j + 1].id => i + 1 = j + 1
        BY <1>1, <1>2 DEF TabInv, Queued
      <3> QED
        BY <1>2, <3>1
    <2>3. \A d \in Emitter, i \in 1 .. Len(queue'[c]) : OnWay(d, c)' => queue'[c][i].id # frame[d].id
      BY <1>1, <1>2, <1>4 DEF TabInv, Queued
    <2>4. Len(queue'[c]) <= QueueSize
      BY <1>1, <1>2 DEF TabInv, Queued
    <2> QED
      BY <2>1, <2>2, <2>3, <2>4 DEF Queued
  <1> QED
    BY <1>2, <1>7, <1>8, <1>9

\* The newest end stays where it is while the queue moves up.
LEMMA EndMovesUp ==
  ASSUME IInv, NEW c \in Tab, queue[c] # <<>>, queue'[c] = Tail(queue[c]), UNCHANGED <<seq, buf, em, frame, to>>, NewestEnd
  PROVE  \A i \in 1 .. Len(queue'[c]) : queue'[c][i].id = seq =>
            i = Len(queue'[c]) \/ (i = Len(queue'[c]) - 1 /\ \A e \in Emitter : ~ OnWay(e, c)')
  <1>1. /\ \A i \in 1 .. Len(queue'[c]) : i + 1 \in 1 .. Len(queue[c]) /\ queue'[c][i] = queue[c][i + 1]
        /\ Len(queue'[c]) = Len(queue[c]) - 1 /\ Len(queue[c]) \in Nat
    BY TailQueue
  <1>2. \A d \in Emitter : OnWay(d, c)' <=> OnWay(d, c)
    BY DEF OnWay
  <1> SUFFICES ASSUME NEW i \in 1 .. Len(queue'[c]), queue'[c][i].id = seq
               PROVE  i = Len(queue'[c]) \/ (i = Len(queue'[c]) - 1 /\ \A e \in Emitter : ~ OnWay(e, c)')
    OBVIOUS
  <1>3. i + 1 = Len(queue[c]) \/ (i + 1 = Len(queue[c]) - 1 /\ \A e \in Emitter : ~ OnWay(e, c))
    BY <1>1 DEF IInv, TabInv, EndAhead
  <1> QED
    BY <1>1, <1>2, <1>3

LEMMA Skips ==
  ASSUME IInv, NEW c \in Tab, Skip(c)
  PROVE  IInv'
  <1>1. /\ conn[c] = "live" /\ queue[c] # <<>> /\ Head(queue[c]).id \in snap[c]
        /\ queue' = [queue EXCEPT ![c] = Tail(queue[c])]
        /\ UNCHANGED <<entry, seq, buf, em, frame, to, subs, conn, replay, snap, browser, drops>>
    BY DEF Skip, emission
  <1>2. TabInv(c) /\ ServerShape /\ BrowserShape /\ queue'[c] = Tail(queue[c]) /\ Head(queue[c]) = queue[c][1]
    BY <1>1, TailIs DEF IInv, ServerShape
  <1>3. /\ Queued(c)' /\ Tail(queue[c]) \in Seq(Frame)
        /\ \A n : Coming(c, n)' <=> Coming(c, n) /\ n # queue[c][1].id
    BY <1>1, <1>2, TailQueue
  <1>4. ServerShape' /\ BrowserShape'
    BY <1>1, <1>2, <1>3 DEF ServerShape, BrowserShape, browser
  <1>5. \A d \in Tab : d # c => SameBrowser(d) /\ SameServer(d)
    BY <1>1, <1>2 DEF SameBrowser, SameServer, ServerShape, browser
  <1>6. \A n : (Known(c, n)' <=> Known(c, n)) /\ (InReplay(c, n)' <=> InReplay(c, n))
    BY <1>1 DEF Known, InReplay, Received, browser
  <1>7. Connected(c)' /\ Replays(c)'
    BY <1>1, <1>2, SameBuffer DEF TabInv, Connected, Replays, browser
  <1>8. Gapless(c)'
    BY <1>1, <1>2, <1>3, <1>6, SameBuffer DEF TabInv, Gapless, browser
  <1>9. InOrder(c)'
    BY <1>1, <1>2, <1>3 DEF TabInv, InOrder, browser
  <1>10. EndAhead(c)'
    <2>1. NewestEnd /\ queue[c][1].id = seq => InReplay(c, seq)
      BY <1>1, <1>2 DEF TabInv, EndAhead
    <2>2. NewestEnd /\ Coming(c, seq) => InReplay(c, seq) \/ Coming(c, seq)'
      <3>1. PICK n : n = seq
        OBVIOUS
      <3>2. Coming(c, n) => Coming(c, n)' \/ n = queue[c][1].id
        BY <1>3
      <3>3. Coming(c, n)' => Coming(c, seq)'
        BY <1>1, <3>1 DEF Coming, InQueue
      <3> QED
        BY <2>1, <3>1, <3>2, <3>3
    <2>3. NewestEnd => \A i \in 1 .. Len(queue'[c]) : queue'[c][i].id = seq =>
            i = Len(queue'[c]) \/ (i = Len(queue'[c]) - 1 /\ \A e \in Emitter : ~ OnWay(e, c)')
      BY <1>1, <1>2, EndMovesUp
    <2>4. UNCHANGED <<seq, buf, page, last, snap, conn, raced>> /\ (InReplay(c, seq)' <=> InReplay(c, seq))
      BY <1>1 DEF browser, InReplay
    <2> QED
      BY <1>2, <2>2, <2>3, <2>4, SameBuffer DEF TabInv, EndAhead
  <1>11. TabInv(c)'
    BY <1>3, <1>7, <1>8, <1>9, <1>10 DEF TabInv
  <1> QED
    BY <1>1, <1>4, <1>5, <1>11, TabStep

LEMMA Delivers ==
  ASSUME IInv, NEW c \in Tab, Deliver(c)
  PROVE  IInv'
  <1>1. /\ conn[c] = "live" /\ queue[c] # <<>> /\ Head(queue[c]).id \notin snap[c] /\ Receive(c, Head(queue[c]))
        /\ UNCHANGED <<entry, seq, buf, frame, drops>>
    BY DEF Deliver
  <1>2. /\ TabInv(c) /\ ServerShape /\ queue[c] \in Seq(Frame) /\ replay[c] = <<>> /\ seq \in Nat /\ Before \in Nat
        /\ last[c] \in Nat
    BY <1>1, Window DEF IInv, ServerShape, EntryShape, BrowserShape, TabInv, Connected
  <1>3. PICK f : f = queue[c][1] /\ f = Head(queue[c])
    BY <1>1, <1>2, TailIs
  <1>4. 1 \in 1 .. Len(queue[c])
    BY <1>1, <1>2, TailIs
  <1>5. Agrees(f) /\ Coming(c, f.id) /\ f.id \in 1 .. seq
    BY <1>2, <1>3, <1>4 DEF TabInv, Queued, Coming, InQueue, Agrees
  <1>6. late[c] = {} => f.id > last[c]
    <2>1. late[c] = {} => f.id >= last[c] /\ f.id # last[c]
      BY <1>1, <1>2, <1>3, <1>5 DEF TabInv, InOrder
    <2> QED
      BY <1>2, <1>5, <2>1
  <1>7. \A n : ~ InReplay(c, n)
    BY <1>2 DEF InReplay
  <1>8. ~ dropped[c] => \A n \in Before + 1 .. seq : n < f.id => Known(c, n) \/ Coming(c, n)
    BY <1>1, <1>2, <1>7 DEF TabInv, Gapless
  <1>9. CASE Close(c)
    BY <1>1, <1>3, <1>5, <1>6, <1>8, <1>9, LastFrame
  <1>10. CASE ~ Close(c)
    <2>1. /\ f.kind = "step" /\ queue' = [queue EXCEPT ![c] = Tail(queue[c])]
          /\ UNCHANGED <<to, em, subs, conn, replay, snap>>
      BY <1>3, <1>10 DEF Deliver
    <2>2. queue'[c] = Tail(queue[c])
      BY <1>2, <2>1 DEF ServerShape
    <2>3. /\ BrowserShape' /\ \A d \in Tab : d # c => SameBrowser(d)
          /\ dropped'[c] = dropped[c] /\ raced'[c] = raced[c]
          /\ last'[c] = f.id /\ page'[c] = TRUE /\ Known(c, f.id)'
          /\ \A n : Known(c, n) => Known(c, n)'
          /\ ~ dropped'[c] => \A n \in Before + 1 .. seq : n <= last'[c] => Known(c, n)'
          /\ got'[c] = <<>> <=> last'[c] = 0
          /\ last'[c] <= seq
          /\ \A i \in 1 .. Len(got'[c]) : got'[c][i] \in 1 .. seq
          /\ late'[c] \subseteq 1 .. seq
      BY <1>1, <1>3, <1>5, <1>6, <1>8, <2>1, Receiving
    <2>4. /\ late'[c] = {} =>
              /\ \A i \in 1 .. Len(got'[c]) : got'[c][i] <= last'[c]
              /\ \A i, j \in 1 .. Len(got'[c]) : i < j => got'[c][i] < got'[c][j]
              /\ \A n \in 1 .. seq : Coming(c, n) => n >= f.id /\ n >= last'[c]
          /\ page'[c] /\ last'[c] > Before => buf[last'[c] - Before].kind = "step"
      BY <1>1, <1>3, <1>5, <1>6, <1>8, <2>1, Receiving
    <2>5. Queued(c)' /\ Tail(queue[c]) \in Seq(Frame) /\ \A n : Coming(c, n)' <=> Coming(c, n) /\ n # f.id
      BY <1>1, <1>3, <2>1, <2>2, TailQueue
    <2>6. ServerShape'
      BY <1>2, <2>1, <2>5 DEF ServerShape
    <2>7. \A d \in Tab : d # c => SameServer(d)
      BY <1>2, <2>1 DEF SameServer, ServerShape
    <2>8. \A n : InReplay(c, n)' <=> InReplay(c, n)
      BY <2>1 DEF InReplay
    <2>9. Connected(c)'
      BY <1>1, <1>2, <2>1, <2>3 DEF TabInv, Connected
    <2>10. Replays(c)'
      BY <1>1, <1>2, <2>1 DEF TabInv, Replays
    <2>11. Gapless(c)'
      BY <1>1, <1>2, <2>1, <2>3, <2>5, <2>8, SameBuffer DEF TabInv, Gapless
    <2>12. InOrder(c)'
      BY <1>1, <2>1, <2>3, <2>4, <2>5 DEF InOrder
    <2>13. EndAhead(c)'
      <3>1. NewestEnd => f.id # seq
        <4>1. f.id > Before => f = buf[f.id - Before]
          BY <1>5 DEF Agrees
        <4>2. NewestEnd => Len(buf) \in Nat /\ Len(buf) > 0 /\ buf[Len(buf)].kind # "step" /\ Before = seq - Len(buf)
          BY DEF NewestEnd, Newest, IInv, BufferShape, Before
        <4> QED
          BY <1>2, <2>1, <4>1, <4>2
      <3>2. NewestEnd /\ Coming(c, seq) => Coming(c, seq)'
        <4>1. PICK n : n = seq
          OBVIOUS
        <4>2. Coming(c, n)' => Coming(c, seq)'
          BY <1>1, <4>1 DEF Coming, InQueue
        <4> QED
          BY <2>5, <3>1, <4>1, <4>2
      <3>3. NewestEnd => \A i \in 1 .. Len(queue'[c]) : queue'[c][i].id = seq =>
              i = Len(queue'[c]) \/ (i = Len(queue'[c]) - 1 /\ \A e \in Emitter : ~ OnWay(e, c)')
        BY <1>1, <2>1, <2>2, EndMovesUp
      <3>4. UNCHANGED <<seq, buf>> /\ (InReplay(c, seq)' <=> InReplay(c, seq))
        BY <1>1, <2>1 DEF InReplay
      <3> QED
        BY <1>2, <2>1, <2>3, <2>4, <3>2, <3>3, <3>4, SameBuffer DEF TabInv, EndAhead
    <2>14. TabInv(c)'
      BY <2>5, <2>9, <2>10, <2>11, <2>12, <2>13 DEF TabInv
    <2> QED
      BY <1>1, <2>1, <2>3, <2>6, <2>7, <2>14, TabStep
  <1> QED
    BY <1>9, <1>10

LEMMA ReplaySteps ==
  ASSUME IInv, NEW c \in Tab, Replay(c)
  PROVE  IInv'
  <1>1. /\ conn[c] = "replay" /\ Receive(c, Head(replay[c]))
        /\ UNCHANGED <<entry, seq, buf, frame, drops>>
    BY DEF Replay
  <1>2. /\ TabInv(c) /\ ServerShape /\ replay[c] \in Seq(Frame) /\ replay[c] # <<>> /\ seq \in Nat /\ Before \in Nat
        /\ last[c] \in Nat
    BY <1>1, Window DEF IInv, ServerShape, EntryShape, BrowserShape, TabInv, Connected
  <1>3. PICK f : f = replay[c][1] /\ f = Head(replay[c])
    BY <1>2, TailIs
  <1>4. 1 \in 1 .. Len(replay[c]) /\ Len(replay[c]) \in Nat
    BY <1>2, TailIs
  <1>5. Agrees(f) /\ f.id > last[c] /\ f.id \in snap[c] /\ f.id \in 1 .. seq
    BY <1>2, <1>3, <1>4 DEF TabInv, Replays, Agrees
  <1>6. \A n \in 1 .. seq : n < f.id => ~ InReplay(c, n)
    <2> SUFFICES ASSUME NEW n \in 1 .. seq, n < f.id, NEW i \in 1 .. Len(replay[c]), replay[c][i].id = n PROVE FALSE
      BY DEF InReplay
    <2>1. i = 1 \/ 1 < i
      BY <1>4
    <2>2. 1 < i => f.id < n
      BY <1>2, <1>3, <1>4 DEF TabInv, Replays
    <2> QED
      BY <1>3, <1>5, <2>1, <2>2
  <1>7. ~ dropped[c] => \A n \in Before + 1 .. seq : n < f.id => Known(c, n) \/ Coming(c, n)
    <2>1. \A n \in Before + 1 .. seq : n \in 1 .. seq
      BY <1>2
    <2> QED
      BY <1>1, <1>2, <1>6, <2>1 DEF TabInv, Gapless
  <1>8. CASE Close(c)
    BY <1>1, <1>3, <1>5, <1>7, <1>8, LastFrame
  <1>9. CASE ~ Close(c)
    <2>1. /\ f.kind = "step" /\ replay' = [replay EXCEPT ![c] = Tail(replay[c])]
          /\ conn' = [conn EXCEPT ![c] = IF Len(replay[c]) = 1 THEN "live" ELSE "replay"]
          /\ UNCHANGED <<to, em, subs, queue, snap>>
      BY <1>3, <1>9 DEF Replay
    <2>2. /\ Tail(replay[c]) \in Seq(Frame) /\ Len(Tail(replay[c])) = Len(replay[c]) - 1 /\ replay'[c] = Tail(replay[c])
          /\ \A i \in 1 .. Len(replay'[c]) : i + 1 \in 1 .. Len(replay[c]) /\ replay'[c][i] = replay[c][i + 1]
          /\ conn'[c] = (IF Len(replay[c]) = 1 THEN "live" ELSE "replay")
      BY <1>2, <2>1, TailIs DEF ServerShape
    <2>3. /\ BrowserShape' /\ \A d \in Tab : d # c => SameBrowser(d)
          /\ dropped'[c] = dropped[c] /\ raced'[c] = raced[c]
          /\ last'[c] = f.id /\ page'[c] = TRUE /\ Known(c, f.id)'
          /\ \A n : Known(c, n) => Known(c, n)'
          /\ ~ dropped'[c] => \A n \in Before + 1 .. seq : n <= last'[c] => Known(c, n)'
          /\ got'[c] = <<>> <=> last'[c] = 0
          /\ last'[c] <= seq
          /\ \A i \in 1 .. Len(got'[c]) : got'[c][i] \in 1 .. seq
          /\ late'[c] \subseteq 1 .. seq
      BY <1>1, <1>3, <1>5, <1>7, <2>1, Receiving
    <2>4. /\ late'[c] = {} =>
              /\ \A i \in 1 .. Len(got'[c]) : got'[c][i] <= last'[c]
              /\ \A i, j \in 1 .. Len(got'[c]) : i < j => got'[c][i] < got'[c][j]
              /\ \A n \in 1 .. seq : Coming(c, n) => n >= f.id /\ n >= last'[c]
          /\ page'[c] /\ last'[c] > Before => buf[last'[c] - Before].kind = "step"
      BY <1>1, <1>3, <1>5, <1>7, <2>1, Receiving
    <2>5. ServerShape'
      <3>1. (IF Len(replay[c]) = 1 THEN "live" ELSE "replay") \in {"off", "registered", "nothing", "replay", "live"}
        OBVIOUS
      <3>2. conn' \in [Tab -> {"off", "registered", "nothing", "replay", "live"}] /\ \A d \in Tab : conn'[d] # "off" <=> conn[d] # "off"
        BY <1>1, <1>2, <2>1, <2>2, <3>1 DEF ServerShape
      <3> QED
        BY <1>2, <2>1, <2>2, <3>2 DEF ServerShape
    <2>6. \A d \in Tab : d # c => SameServer(d)
      BY <1>2, <2>1 DEF SameServer, ServerShape
    <2>7. \A n : Coming(c, n)' <=> Coming(c, n)
      BY <1>1, <2>1 DEF Coming, InQueue, OnWay
    <2>8. \A n : InReplay(c, n) => n = f.id \/ InReplay(c, n)'
      <3> SUFFICES ASSUME NEW i \in 1 .. Len(replay[c]), i # 1 PROVE \E j \in 1 .. Len(replay'[c]) : replay'[c][j] = replay[c][i]
        BY <1>3 DEF InReplay
      <3>1. i - 1 \in 1 .. Len(replay'[c]) /\ i - 1 + 1 = i
        BY <1>4, <2>2
      <3>2. replay'[c][i - 1] = replay[c][i]
        BY <2>2, <3>1
      <3> QED
        BY <3>1, <3>2
    <2>9. Connected(c)'
      <3>1. replay'[c] = <<>> <=> Len(replay[c]) = 1
        <4>1. \A s \in Seq(Frame) : s = <<>> <=> Len(s) = 0
          OBVIOUS
        <4>2. replay'[c] \in Seq(Frame) /\ (Len(replay'[c]) = 0 <=> Len(replay[c]) = 1)
          BY <1>4, <2>2
        <4> QED
          BY <4>1, <4>2
      <3> QED
        BY <1>1, <1>2, <2>1, <2>2, <2>3, <3>1 DEF TabInv, Connected
    <2>10. Queued(c)'
      BY <1>1, <1>2, <2>1, SameBuffer DEF TabInv, Queued, OnWay
    <2>11. Replays(c)'
      <3>1. \A i \in 1 .. Len(replay'[c]) : Agrees(replay[c][i])'
        BY <1>1, <1>2, <2>2 DEF TabInv, Replays, Agrees, Before
      <3>2. \A i \in 1 .. Len(replay'[c]) : replay'[c][i].id > f.id /\ replay'[c][i].id \in snap[c]
        <4> TAKE i \in 1 .. Len(replay'[c])
        <4>1. i + 1 \in 1 .. Len(replay[c]) /\ 1 < i + 1 /\ replay'[c][i] = replay[c][i + 1]
          BY <2>2
        <4>2. f.id < replay[c][i + 1].id
          BY <1>2, <1>3, <1>4, <4>1 DEF TabInv, Replays
        <4>3. replay[c][i + 1].id \in snap[c] /\ replay[c][i + 1] \in Frame
          BY <1>2, <4>1 DEF TabInv, Replays
        <4>4. f.id \in Nat /\ replay[c][i + 1].id \in Nat
          BY <1>5, <4>3 DEF Frame
        <4> QED
          BY <4>1, <4>2, <4>3, <4>4
      <3>3. \A i, j \in 1 .. Len(replay'[c]) : i < j => replay'[c][i].id < replay'[c][j].id
        <4> TAKE i, j \in 1 .. Len(replay'[c])
        <4>1. i + 1 < j + 1 => replay[c][i + 1].id < replay[c][j + 1].id
          BY <1>2, <2>2 DEF TabInv, Replays
        <4> QED
          BY <2>2, <4>1
      <3> QED
        BY <1>1, <1>2, <2>1, <2>3, <3>1, <3>2, <3>3 DEF TabInv, Replays
    <2>12. Gapless(c)'
      <3> SUFFICES ASSUME ~ dropped'[c], NEW n \in Before + 1 .. seq
                   PROVE  /\ n <= last'[c] => Known(c, n)'
                          /\ n \in snap'[c] => Known(c, n)' \/ InReplay(c, n)'
                          /\ Known(c, n)' \/ InReplay(c, n)' \/ Coming(c, n)'
        BY <1>1, SameBuffer DEF Gapless
      <3>1. n <= last'[c] => Known(c, n)'
        BY <2>3
      <3>2. n = f.id => Known(c, n)'
        BY <2>3
      <3>3. n \in snap[c] => Known(c, n) \/ InReplay(c, n)
        BY <1>2, <2>3 DEF TabInv, Gapless
      <3>4. Known(c, n) \/ InReplay(c, n) \/ Coming(c, n)
        BY <1>1, <1>2, <2>3 DEF TabInv, Gapless
      <3> QED
        BY <2>1, <2>3, <2>7, <2>8, <3>1, <3>2, <3>3, <3>4
    <2>13. InOrder(c)'
      BY <1>1, <1>5, <2>1, <2>3, <2>4, <2>7 DEF InOrder
    <2>14. EndAhead(c)'
      <3>1. NewestEnd => f.id # seq
        <4>1. f.id > Before => f = buf[f.id - Before]
          BY <1>5 DEF Agrees
        <4>2. NewestEnd => Len(buf) \in Nat /\ Len(buf) > 0 /\ buf[Len(buf)].kind # "step" /\ Before = seq - Len(buf)
          BY DEF NewestEnd, Newest, IInv, BufferShape, Before
        <4> QED
          BY <1>2, <2>1, <4>1, <4>2
      <3>2. UNCHANGED <<seq, buf, queue, snap>> /\ \A e \in Emitter : OnWay(e, c)' <=> OnWay(e, c)
        BY <1>1, <2>1 DEF OnWay
      <3>3. NewestEnd /\ InReplay(c, seq) => InReplay(c, seq)'
        <4>1. PICK n : n = seq
          OBVIOUS
        <4>2. InReplay(c, n)' => InReplay(c, seq)'
          BY <3>2, <4>1 DEF InReplay
        <4> QED
          BY <2>8, <3>1, <4>1, <4>2
      <3>4. Coming(c, seq) => Coming(c, seq)'
        BY <1>1, <3>2 DEF Coming, InQueue
      <3> QED
        BY <1>1, <1>2, <2>3, <2>4, <3>2, <3>3, <3>4, SameBuffer DEF TabInv, EndAhead
    <2>15. TabInv(c)'
      BY <2>9, <2>10, <2>11, <2>12, <2>13, <2>14 DEF TabInv
    <2> QED
      BY <1>1, <2>1, <2>3, <2>5, <2>6, <2>15, TabStep
  <1> QED
    BY <1>8, <1>9

-----------------------------------------------------------------------------
(* The theorems. *)

LEMMA InitHolds ==
  ASSUME Init
  PROVE  IInv
  <1> USE DEF Init
  <1>1. EntryShape /\ Ending
    <2>1. Owed("worker") = 0 /\ Owed("endpoint") = 0 /\ Ahead = 2
      BY Bounds DEF Owed, Ahead
    <2>2. 2 + 2 * (MaxRuns - 1) <= MaxId /\ 1 \in 1 .. MaxRuns
      BY Bounds
    <2>3. due \in [Emitter -> Ends \cup {"none"}] /\ due["endpoint"] = "none"
      BY Bounds
    <2> QED
      BY <2>1, <2>2, <2>3, Bounds DEF EntryShape, Ending
  <1>2. Len(buf) = 0 /\ Before = 0 /\ ~ NewestEnd
    <2>1. Len(<<>>) = 0
      OBVIOUS
    <2>2. Len(buf) = 0 /\ seq = 0
      BY <2>1
    <2>3. ~ NewestEnd
      BY DEF NewestEnd
    <2> HIDE DEF Init
    <2>4. Before = 0
      BY <2>2 DEF Before
    <2> QED
      BY <2>2, <2>3, <2>4
  <1>3. BufferShape
    BY <1>2, Bounds DEF BufferShape
  <1>4. EmitterShape
    <2>1. NoFrame \in Frame /\ NoFrame.id = 0
      BY Bounds DEF NoFrame, Frame, Kinds
    <2> QED
      BY <2>1, Bounds DEF EmitterShape
  <1>5. ServerShape /\ BrowserShape
    BY DEF ServerShape, BrowserShape
  <1>6. ASSUME NEW c \in Tab PROVE TabInv(c)
    <2>1. \A n : ~ Coming(c, n)
      BY DEF Coming, InQueue, OnWay
    <2>2. Connected(c) /\ Queued(c) /\ Replays(c)
      BY Bounds DEF Connected, Queued, Replays
    <2>3. Gapless(c) /\ InOrder(c) /\ EndAhead(c)
      BY <1>2, <2>1 DEF Gapless, InOrder, EndAhead
    <2> QED
      BY <2>2, <2>3 DEF TabInv
  <1> QED
    BY <1>1, <1>3, <1>4, <1>5, <1>6 DEF IInv

LEMMA StepInv ==
  ASSUME IInv, [Next]_vars
  PROVE  IInv'
  <1>1. CASE UNCHANGED vars
    <2>1. UNCHANGED <<emission, server, browser, entry, drops, seq>>
      BY <1>1 DEF vars, emission
    <2>2. EntryShape' /\ Ending'
      BY <2>1, EntrySame DEF IInv, EntryShape
    <2> QED
      BY <2>1, <2>2, RunKeeps
  <1>2. ASSUME NEW e \in Emitter, EmitterStep(e) PROVE IInv'
    BY <1>2, RunSteps, Moves DEF EmitterStep
  <1>3. CASE WorkerStep \/ Cancel \/ Rework
    BY <1>3, RunSteps
  <1>4. ASSUME NEW c \in Tab, Connect(c) \/ Generator(c) \/ IdleEnd(c) \/ Drop(c) \/ Poll(c) PROVE IInv'
    <2>1. CASE NothingNew(c)
      <3>1. Close(c) => status = "ended" \/ ~ NothingNew(c) \/ conn' = [conn EXCEPT ![c] = "live"]
        BY DEF NothingNew
      <3>2. Close(c) => conn' = [conn EXCEPT ![c] = "off"]
        BY DEF Close
      <3>3. Close(c) => conn'[c] = "off"
        BY <3>2 DEF IInv, ServerShape
      <3>4. Close(c) => status = "ended"
        BY <2>1, <3>1, <3>3 DEF IInv, ServerShape
      <3> QED
        BY <2>1, <3>4, Closings, Openings
    <2>2. CASE Poll(c)
      BY <2>2, Closings, Openings
    <2>3. CASE Connect(c) \/ IdleEnd(c) \/ Drop(c)
      BY <2>3, Closings, Openings
    <2>4. CASE Snapshot(c) \/ Replay(c) \/ Skip(c) \/ Deliver(c)
      BY <2>4, Snapshots, ReplaySteps, Skips, Delivers
    <2> QED
      BY <1>4, <2>1, <2>2, <2>3, <2>4 DEF Generator
  <1> QED
    BY <1>1, <1>2, <1>3, <1>4 DEF Next

LEMMA Invariance == Spec => []IInv
  BY InitHolds, StepInv, PTL DEF Spec

LEMMA SeqOf ==
  ASSUME NEW S, NEW T, NEW s \in Seq(S), \A i \in 1 .. Len(s) : s[i] \in T
  PROVE  s \in Seq(T)
  BY SeqDef

LEMMA Typed ==
  ASSUME IInv
  PROVE  TypeOK
  <1>1. /\ EntryShape /\ BufferShape /\ EmitterShape /\ ServerShape /\ BrowserShape
        /\ \A c \in Tab : TabInv(c)
    BY DEF IInv
  <1>2. seq \in 0 .. MaxId /\ MaxId \in Nat /\ seq \in Nat
    BY Numbered, Bounds DEF IInv, EntryShape
  <1>3. \A f \in Frame : f.id <= seq => f \in Frames
    BY <1>2 DEF Frame, Frames
  <1>4. ASSUME NEW s \in Seq(Frame), \A i \in 1 .. Len(s) : s[i].id <= seq PROVE s \in Seq(Frames)
    <2>1. \A i \in 1 .. Len(s) : s[i] \in Frames
      BY <1>3, <1>4
    <2> QED
      BY <1>4, <2>1, SeqOf
  <1>5. buf \in Seq(Frames) /\ Len(buf) <= BufferSize
    <2>1. \A i \in 1 .. Len(buf) : buf[i].id <= seq
      BY <1>1, <1>2, Window
    <2> QED
      BY <1>1, <1>4, <2>1 DEF BufferShape
  <1>6. frame \in [Emitter -> Frames]
    <2>1. \A e \in Emitter : frame[e] \in Frames
      BY <1>1, <1>3 DEF EmitterShape
    <2> QED
      BY <1>1, <2>1 DEF EmitterShape
  <1>7. \A n \in 1 .. seq : n \in 1 .. MaxId
    BY <1>2
  <1>8. ASSUME NEW c \in Tab
        PROVE  /\ queue[c] \in Seq(Frames) /\ Len(queue[c]) <= QueueSize
               /\ replay[c] \in Seq(Frames) /\ got[c] \in Seq(1 .. MaxId)
               /\ snap[c] \subseteq 1 .. MaxId /\ late[c] \subseteq 1 .. MaxId
               /\ last[c] \in 0 .. MaxId
    <2>1. /\ \A i \in 1 .. Len(queue[c]) : queue[c][i].id <= seq
          /\ \A i \in 1 .. Len(replay[c]) : replay[c][i].id <= seq
      BY <1>1, <1>2 DEF TabInv, Queued, Replays, Agrees
    <2>2. queue[c] \in Seq(Frames) /\ replay[c] \in Seq(Frames)
      BY <1>1, <1>4, <2>1 DEF ServerShape
    <2>3. got[c] \in Seq(1 .. MaxId)
      <3>1. got[c] \in Seq(Nat) /\ \A i \in 1 .. Len(got[c]) : got[c][i] \in 1 .. MaxId
        BY <1>1, <1>7 DEF BrowserShape, TabInv, InOrder
      <3> QED
        BY <3>1, SeqOf
    <2>4. /\ snap[c] \subseteq 1 .. MaxId /\ late[c] \subseteq 1 .. MaxId
      BY <1>1, <1>7 DEF TabInv, Replays, InOrder
    <2>5. last[c] \in 0 .. MaxId
      BY <1>1, <1>2 DEF BrowserShape, TabInv, InOrder
    <2> QED
      BY <1>1, <2>2, <2>3, <2>4, <2>5 DEF TabInv, Queued
  <1>9. last \in [Tab -> 0 .. MaxId] /\ snap \in [Tab -> SUBSET (1 .. MaxId)] /\ late \in [Tab -> SUBSET (1 .. MaxId)]
    BY <1>1, <1>8 DEF BrowserShape, ServerShape
  <1>10. subs \subseteq Tab
    BY <1>1 DEF ServerShape
  <1> QED
    BY <1>1, <1>2, <1>5, <1>6, <1>8, <1>9, <1>10 DEF TypeOK, EntryShape, EmitterShape, ServerShape, BrowserShape

\* A tab that has caught up has every buffered frame, over any reconnections, and a tab
\* whose frames came in order has none twice: _emit_event numbers under the lock and
\* pushes outside it, _stream_events_sync registers, takes its snapshot, replays and
\* skips the queued copies of what it replayed.
THEOREM DeliveredTheorem == Spec => []DeliveredOnce
  <1>1. ASSUME IInv PROVE DeliveredOnce
    <2>1. TypeOK
      BY <1>1, Typed
    <2>2. \A c \in Tab : TabInv(c) /\ got[c] \in Seq(Nat)
      BY <1>1 DEF IInv, BrowserShape
    <2>3. ASSUME NEW c \in Tab, Quiet, Drained(c), ~ dropped[c], NEW n \in Ids(buf) PROVE n \in Received(c) \cup late[c]
      <3>1. n \in Before + 1 .. seq
        BY <1>1, <2>3, Window DEF IInv, EntryShape
      <3>2. ~ Coming(c, n) /\ ~ InReplay(c, n)
        BY <2>2, <2>3 DEF Quiet, Drained, Coming, InQueue, OnWay, InReplay, TabInv, Connected
      <3>3. Known(c, n)
        BY <2>2, <2>3, <3>1, <3>2 DEF TabInv, Gapless, Drained
      <3> QED
        BY <3>3 DEF Known
    <2>4. ASSUME NEW c \in Tab, late[c] = {}, NEW i \in DOMAIN got[c], NEW j \in DOMAIN got[c], got[c][i] = got[c][j] PROVE i = j
      <3>1. i \in 1 .. Len(got[c]) /\ j \in 1 .. Len(got[c]) /\ got[c][i] \in Nat
        BY <2>2, <2>4
      <3>2. ~ i < j /\ ~ j < i
        BY <2>2, <2>4, <3>1 DEF TabInv, InOrder
      <3> QED
        BY <3>1, <3>2
    <2> QED
      BY <2>1, <2>3, <2>4 DEF DeliveredOnce
  <1> QED
    BY <1>1, Invariance, PTL

\* A listening tab has the newest frame still in its queue if that is an end, although
\* _put_queue_frame drops the oldest frame of a full queue, unless two emitters raced.
THEOREM EndKeptTheorem == Spec => []EndIsKept
  <1>1. ASSUME IInv PROVE EndIsKept
    <2> SUFFICES ASSUME NEW c \in Tab, Quiet, conn[c] = "live", ~ raced[c], buf # <<>>, Newest(buf).kind # "step"
                 PROVE  \E i \in DOMAIN queue[c] : queue[c][i] = Newest(buf)
      BY DEF EndIsKept
    <2>1. TabInv(c) /\ queue[c] \in Seq(Frame) /\ BufferShape /\ seq \in Nat
      BY <1>1 DEF IInv, ServerShape, EntryShape
    <2>2. ~ InReplay(c, seq) /\ \A e \in Emitter : ~ OnWay(e, c)
      BY <2>1 DEF TabInv, Connected, InReplay, Quiet, OnWay
    <2>3. InQueue(c, seq)
      BY <2>1, <2>2 DEF TabInv, EndAhead, NewestEnd, Coming
    <2>4. PICK i \in 1 .. Len(queue[c]) : queue[c][i].id = seq
      BY <2>3 DEF InQueue
    <2>5. Len(buf) \in Nat /\ Len(buf) > 0 /\ Before = seq - Len(buf)
      BY <2>1 DEF BufferShape, Before
    <2>6. queue[c][i] = buf[seq - Before] /\ seq - Before = Len(buf)
      BY <2>1, <2>4, <2>5 DEF TabInv, Queued, Agrees
    <2> QED
      BY <2>1, <2>4, <2>6 DEF Newest
  <1> QED
    BY <1>1, Invariance, PTL
=============================================================================
