---------------------------- MODULE EventStream ----------------------------
(***************************************************************************)
(* The event stream of one analysis: _emit_event and _stream_events_sync   *)
(* of app/competition_router.py, and the browser tabs that listen through  *)
(* src/frontend/src/hooks/use-analysis-stream.ts.                          *)
(*                                                                         *)
(* An emitter numbers and buffers a frame under _stream_lock, looks up the *)
(* subscribers under the lock once more, and pushes to their queues without *)
(* it.  The worker of a run and the endpoint that cancels it emit          *)
(* concurrently.  Generator threads of the connections take snapshots and  *)
(* drain their queues between any two of these steps.                      *)
(***************************************************************************)
EXTENDS Integers, Sequences, FiniteSets

CONSTANTS
  Tab,         \* browser tabs on the analysis
  QueueSize,   \* maxsize of a subscriber queue (1024)
  BufferSize,  \* MAX_BUFFERED_EVENTS (128)
  MaxSteps,    \* bound: no step is numbered higher; ends are
  MaxRuns,     \* bound on runs: the first one and re-analyses
  MaxDrops     \* bound on lost connections

ASSUME NumberAssumption ==
  /\ QueueSize \in Nat /\ QueueSize > 1 /\ BufferSize \in Nat \ {0}
  /\ MaxSteps \in Nat /\ MaxRuns \in Nat \ {0} /\ MaxDrops \in Nat

VARIABLES
  status, runs,    \* the entry: "running" or "ended"; the number of its runs
  worker,          \* the run's thread: "off", "on", "ending", "stopping"
  due,             \* due[e]: the kind of end emitter e has still to emit
  seq, buf,        \* _event_counters, _event_buffers
  em, frame, to,   \* em[e]: where emitter e is; its frame; queues left to push to
  subs, queue,     \* _stream_subscribers and their queues
  conn,            \* conn[c]: where the connection of tab c is
  replay, snap,    \* its frames left to replay, the ids of its snapshot
  page, last,      \* the tab: does it want the stream; its lastEventId
  got,             \* history: ids the tab received since it last began to listen
  late,            \* history: ids not yet received when a later one was
  dropped, raced,  \* history: a full queue lost a frame for the tab since then; in
                   \* a race of two emitters, so not the oldest of a full queue
  drops

entry == <<status, runs, worker, due>>
emission == <<seq, buf, em, frame, to>>
server == <<subs, queue, conn, replay, snap>>
browser == <<page, last, got, late, dropped, raced>>
vars == <<entry, emission, server, browser, drops>>

Emitter == {"worker", "endpoint"}
Ends == {"end", "error", "cancelled"}
Kinds == Ends \cup {"step"}
MaxId == MaxSteps + 2 * MaxRuns
NoFrame == [id |-> 0, kind |-> "step", run |-> 0]
Frames == [id : 0 .. MaxId, kind : Kinds, run : 0 .. MaxRuns]
Ids(s) == {s[i].id : i \in DOMAIN s}
Newest(s) == s[Len(s)]

TypeOK ==
  /\ status \in {"running", "ended"} /\ runs \in 1 .. MaxRuns
  /\ worker \in {"off", "on", "ending", "stopping"}
  /\ due \in [Emitter -> Ends \cup {"none"}]
  /\ seq \in 0 .. MaxId
  /\ buf \in Seq(Frames) /\ Len(buf) <= BufferSize
  /\ em \in [Emitter -> {"idle", "numbered", "pushing", "full", "room"}]
  /\ frame \in [Emitter -> Frames]
  /\ to \in [Emitter -> SUBSET Tab]
  /\ subs \subseteq Tab
  /\ \A c \in Tab : queue[c] \in Seq(Frames) /\ Len(queue[c]) <= QueueSize
  /\ conn \in [Tab -> {"off", "registered", "nothing", "replay", "live"}]
  /\ \A c \in Tab : replay[c] \in Seq(Frames) /\ got[c] \in Seq(1 .. MaxId)
  /\ {snap, late} \subseteq [Tab -> SUBSET (1 .. MaxId)]
  /\ page \in [Tab -> BOOLEAN]
  /\ last \in [Tab -> 0 .. MaxId]
  /\ {dropped, raced} \subseteq [Tab -> BOOLEAN]
  /\ drops \in 0 .. MaxDrops

Init ==
  /\ status = "running" /\ runs = 1 /\ worker = "on"
  /\ due = [e \in Emitter |-> "none"]
  /\ seq = 0 /\ buf = << >>
  /\ em = [e \in Emitter |-> "idle"]
  /\ frame = [e \in Emitter |-> NoFrame] /\ to = [e \in Emitter |-> {}]
  /\ subs = {} /\ queue = [c \in Tab |-> << >>]
  /\ conn = [c \in Tab |-> "off"]
  /\ replay = [c \in Tab |-> << >>] /\ snap = [c \in Tab |-> {}]
  /\ page = [c \in Tab |-> TRUE] /\ last = [c \in Tab |-> 0]
  /\ got = [c \in Tab |-> << >>] /\ late = [c \in Tab |-> {}]
  /\ dropped = [c \in Tab |-> FALSE] /\ raced = [c \in Tab |-> FALSE]
  /\ drops = 0

-----------------------------------------------------------------------------
(* Emitting. *)

\* The circular buffer.
Buffered(f) ==
  LET b == Append(buf, f) IN
  IF Len(b) > BufferSize THEN SubSeq(b, Len(b) - BufferSize + 1, Len(b)) ELSE b

\* A second end of one cancellation is suppressed.
Repeated(kind) == kind = "cancelled" /\ buf # << >> /\ Newest(buf).kind = "cancelled"

\* The first part of _emit_event, under the lock.
Emit(e, kind) ==
  /\ em[e] = "idle"
  /\ UNCHANGED to
  /\ IF Repeated(kind)
       THEN UNCHANGED <<seq, buf, em, frame>>
       ELSE /\ seq' = seq + 1
            /\ frame' = [frame EXCEPT ![e] = [id |-> seq + 1, kind |-> kind, run |-> runs]]
            /\ buf' = Buffered(frame'[e])
            /\ em' = [em EXCEPT ![e] = "numbered"]

\* _put_stream_frame collects the subscribers, under the lock again.
Collect(e) ==
  /\ em[e] = "numbered"
  /\ em' = [em EXCEPT ![e] = "pushing"]
  /\ to' = [to EXCEPT ![e] = subs]
  /\ UNCHANGED <<entry, seq, buf, frame, server, browser, drops>>

\* The queues are served one by one, in some order.
Serves(e, c) == to[e] # {} /\ c = CHOOSE d \in to[e] : TRUE

Served(e, c) ==
  /\ to' = [to EXCEPT ![e] = @ \ {c}]
  /\ em' = [em EXCEPT ![e] = "pushing"]

\* No queue is left: _emit_event returns.
Return(e) ==
  /\ em[e] = "pushing" /\ to[e] = {}
  /\ em' = [em EXCEPT ![e] = "idle"]
  /\ frame' = [frame EXCEPT ![e] = NoFrame]
  /\ UNCHANGED <<entry, seq, buf, to, server, browser, drops>>

\* _put_queue_frame: a queue with room takes the frame.
Push(e, c) ==
  /\ em[e] = "pushing" /\ Serves(e, c) /\ Len(queue[c]) < QueueSize
  /\ queue' = [queue EXCEPT ![c] = Append(@, frame[e])]
  /\ Served(e, c)
  /\ UNCHANGED <<entry, seq, buf, frame, subs, conn, replay, snap, browser, drops>>

\* A full one ...
FindFull(e, c) ==
  /\ em[e] = "pushing" /\ Serves(e, c) /\ Len(queue[c]) = QueueSize
  /\ em' = [em EXCEPT ![e] = "full"]
  /\ UNCHANGED <<entry, seq, buf, frame, to, server, browser, drops>>

\* ... gives up its oldest frame; the tab, or another emitter, may have changed it ...
MakeRoom(e, c) ==
  /\ em[e] = "full" /\ Serves(e, c)
  /\ em' = [em EXCEPT ![e] = "room"]
  /\ \/ queue[c] = << >> /\ UNCHANGED <<queue, dropped, raced>>
     \/ /\ queue[c] # << >>
        /\ queue' = [queue EXCEPT ![c] = Tail(@)]
        /\ dropped' = [dropped EXCEPT ![c] = TRUE]
        /\ raced' = [raced EXCEPT ![c] = @ \/ Len(queue[c]) < QueueSize]
  /\ UNCHANGED <<entry, seq, buf, frame, to, subs, conn, replay, snap, page, last, got, late, drops>>

\* Mutant: the new frame is the one given up.
PushAgainNot(e, c) ==
  /\ em[e] = "room" /\ Serves(e, c)
  /\ Served(e, c)
  /\ UNCHANGED <<entry, seq, buf, frame, server, browser, drops>>

\* ... and is tried once more; another emitter may have taken the room, and then the
\* frame is the one lost.
PushAgain(e, c) ==
  /\ em[e] = "room" /\ Serves(e, c)
  /\ queue' = IF Len(queue[c]) < QueueSize THEN [queue EXCEPT ![c] = Append(@, frame[e])] ELSE queue
  /\ dropped' = [dropped EXCEPT ![c] = @ \/ Len(queue[c]) = QueueSize]
  /\ raced' = [raced EXCEPT ![c] = @ \/ Len(queue[c]) = QueueSize]
  /\ Served(e, c)
  /\ UNCHANGED <<entry, seq, buf, frame, subs, conn, replay, snap, page, last, got, late, drops>>

-----------------------------------------------------------------------------
(* The run and its cancellation. *)

\* _run_graph_sync and _reanalyze_sync emit while they run, also after a
\* cancellation they have not noticed.
Step ==
  /\ worker = "on" /\ seq < MaxSteps /\ Emit("worker", "step")
  /\ UNCHANGED <<entry, server, browser, drops>>

\* The end of a first run goes out before the entry says so ...
End ==
  /\ worker = "on" /\ runs = 1 /\ Emit("worker", "end")
  /\ worker' = "ending"
  /\ UNCHANGED <<status, runs, due, server, browser, drops>>

Ended ==
  /\ worker = "ending" /\ em["worker"] = "idle"
  /\ worker' = "off" /\ status' = "ended"
  /\ UNCHANGED <<runs, due, emission, server, browser, drops>>

\* Mutant: the end is forgotten.
FinishSilently(kind) ==
  /\ worker = "on" /\ em["worker"] = "idle"
  /\ kind = "end" => runs > 1
  /\ status' = "ended" /\ worker' = "stopping"
  /\ UNCHANGED <<runs, due, emission, server, browser, drops>>

\* ... that of a re-analysis, and of a failed run, after it.
Finish(kind) ==
  /\ worker = "on" /\ em["worker"] = "idle"
  /\ kind = "end" => runs > 1
  /\ status' = "ended" /\ worker' = "stopping"
  /\ due' = [due EXCEPT !["worker"] = kind]
  /\ UNCHANGED <<runs, emission, server, browser, drops>>

\* cancel_analysis: the entry, then the end.
Cancel ==
  /\ status = "running" /\ worker = "on" /\ em["endpoint"] = "idle" /\ due["endpoint"] = "none"
  /\ status' = "ended"
  /\ due' = [due EXCEPT !["endpoint"] = "cancelled"]
  /\ UNCHANGED <<runs, worker, emission, server, browser, drops>>

EmitDue(e) ==
  /\ due[e] # "none" /\ Emit(e, due[e])
  /\ due' = [due EXCEPT ![e] = "none"]
  /\ UNCHANGED <<status, runs, worker, server, browser, drops>>

\* The worker notices: _finalize_cancelled ends a first run; a re-analysis just stops.
Stop ==
  /\ worker = "on" /\ status = "ended" /\ em["worker"] = "idle"
  /\ worker' = "stopping"
  /\ due' = [due EXCEPT !["worker"] = IF runs = 1 THEN "cancelled" ELSE "none"]
  /\ UNCHANGED <<status, runs, emission, server, browser, drops>>

Stopped ==
  /\ worker = "stopping" /\ em["worker"] = "idle" /\ due["worker"] = "none"
  /\ worker' = "off"
  /\ UNCHANGED <<status, runs, due, emission, server, browser, drops>>

\* submit_decision: a re-analysis runs on the same stream.  (One that overtakes the
\* cancelled worker is in AnalysisLifecycle.)
Rework ==
  /\ status = "ended" /\ worker = "off" /\ runs < MaxRuns
  /\ status' = "running" /\ worker' = "on" /\ runs' = runs + 1
  /\ UNCHANGED <<due, emission, server, browser, drops>>

-----------------------------------------------------------------------------
(* Connections. *)

\* The generator ends: its subscriber is removed.  An emitter that had collected the
\* queue goes on with the next one: what it still puts there nobody reads.
Close(c) ==
  /\ to' = [e \in Emitter |-> to[e] \ {c}]
  /\ em' = [e \in Emitter |-> IF Serves(e, c) /\ em[e] \in {"full", "room"} THEN "pushing" ELSE em[e]]
  /\ conn' = [conn EXCEPT ![c] = "off"]
  /\ subs' = subs \ {c}
  /\ queue' = [queue EXCEPT ![c] = << >>]
  /\ replay' = [replay EXCEPT ![c] = << >>]
  /\ snap' = [snap EXCEPT ![c] = {}]

\* connect, and _register_stream_subscriber.
Connect(c) ==
  /\ page[c] /\ conn[c] = "off"
  /\ conn' = [conn EXCEPT ![c] = "registered"]
  /\ subs' = subs \cup {c}
  /\ UNCHANGED <<entry, emission, queue, replay, snap, browser, drops>>

\* Where Last-Event-ID is in the buffer.
ReplayIndex(c) == CHOOSE i \in DOMAIN buf : buf[i].id = last[c]

\* Mutant: an evicted Last-Event-ID replays nothing.
UnseenKnown(c) ==
  IF last[c] \in Ids(buf) THEN SubSeq(buf, ReplayIndex(c) + 1, Len(buf)) ELSE IF last[c] = 0 THEN buf ELSE << >>

\* What follows it, or everything.
Unseen(c) == IF last[c] \in Ids(buf) THEN SubSeq(buf, ReplayIndex(c) + 1, Len(buf)) ELSE buf

Snapshot(c) ==
  /\ conn[c] = "registered"
  /\ conn' = [conn EXCEPT ![c] = IF Unseen(c) = << >> THEN "nothing" ELSE "replay"]
  /\ replay' = [replay EXCEPT ![c] = Unseen(c)]
  /\ snap' = [snap EXCEPT ![c] = Ids(buf)]
  /\ UNCHANGED <<entry, emission, subs, queue, browser, drops>>

\* Smaller ids still on their way to tab c when it gets id n: frames are pushed
\* outside the lock that numbers them.
Overtaken(c, n) ==
  {i \in 1 .. n - 1 : i \in Ids(queue[c]) \/ \E e \in Emitter : em[e] # "idle" /\ frame[e].id = i}

\* A frame reaches the tab.  An end closes its stream, whichever run it is of; an
\* error frame fires the handler of connection errors, which reconnects.
Receive(c, f) ==
  /\ late' = [late EXCEPT ![c] = @ \cup Overtaken(c, f.id)]
  /\ IF f.kind = "error"
       THEN UNCHANGED <<got, last, page>>
       ELSE /\ got' = [got EXCEPT ![c] = Append(@, f.id)]
            /\ last' = [last EXCEPT ![c] = f.id]
            /\ page' = [page EXCEPT ![c] = f.kind = "step"]
  /\ UNCHANGED <<dropped, raced>>

Replay(c) ==
  /\ conn[c] = "replay"
  /\ Receive(c, Head(replay[c]))
  /\ \/ Head(replay[c]).kind # "step" /\ Close(c)
     \/ /\ Head(replay[c]).kind = "step"
        /\ replay' = [replay EXCEPT ![c] = Tail(@)]
        /\ conn' = [conn EXCEPT ![c] = IF Len(replay[c]) = 1 THEN "live" ELSE "replay"]
        /\ UNCHANGED <<to, em, subs, queue, snap>>
  /\ UNCHANGED <<entry, seq, buf, frame, drops>>

\* Nothing to replay of an analysis that has ended: the server closes, and the tab
\* tries again until it learns the status.
NothingNew(c) ==
  /\ conn[c] = "nothing"
  /\ \/ status = "ended" /\ Close(c)
     \/ /\ status = "running"
        /\ conn' = [conn EXCEPT ![c] = "live"]
        /\ UNCHANGED <<to, em, subs, queue, replay, snap>>
  /\ UNCHANGED <<entry, seq, buf, frame, browser, drops>>

\* The live loop: a queued copy of a frame in the snapshot is skipped.
Skip(c) ==
  /\ conn[c] = "live" /\ queue[c] # << >> /\ Head(queue[c]).id \in snap[c]
  /\ queue' = [queue EXCEPT ![c] = Tail(@)]
  /\ UNCHANGED <<entry, emission, subs, conn, replay, snap, browser, drops>>

Deliver(c) ==
  /\ conn[c] = "live" /\ queue[c] # << >> /\ Head(queue[c]).id \notin snap[c]
  /\ Receive(c, Head(queue[c]))
  /\ \/ Head(queue[c]).kind # "step" /\ Close(c)
     \/ /\ Head(queue[c]).kind = "step"
        /\ queue' = [queue EXCEPT ![c] = Tail(@)]
        /\ UNCHANGED <<to, em, subs, conn, replay, snap>>
  /\ UNCHANGED <<entry, seq, buf, frame, drops>>

\* 300 seconds without a frame: the stream ends, whether the run has or not.
IdleEnd(c) ==
  /\ conn[c] = "live" /\ queue[c] = << >>
  /\ Close(c)
  /\ page' = [page EXCEPT ![c] = FALSE]
  /\ UNCHANGED <<entry, seq, buf, frame, last, got, late, dropped, raced, drops>>

\* The connection is lost; the tab reconnects with the last id it has.
Drop(c) ==
  /\ conn[c] # "off" /\ drops < MaxDrops
  /\ drops' = drops + 1
  /\ Close(c)
  /\ UNCHANGED <<entry, seq, buf, frame, browser>>

\* The tab learns the status, reloaded or by the decision it submits: it listens anew to
\* a run (its effect starts without a last id), or not any more.
Poll(c) ==
  /\ page[c] # (status = "running")
  /\ page' = [page EXCEPT ![c] = ~@]
  /\ \/ page[c] /\ Close(c) /\ UNCHANGED <<last, got, late, dropped, raced>>
     \/ /\ ~page[c]
        /\ last' = [last EXCEPT ![c] = 0] /\ got' = [got EXCEPT ![c] = << >>]
        /\ late' = [late EXCEPT ![c] = {}]
        /\ dropped' = [dropped EXCEPT ![c] = FALSE] /\ raced' = [raced EXCEPT ![c] = FALSE]
        /\ UNCHANGED <<to, em, server>>
  /\ UNCHANGED <<entry, seq, buf, frame, drops>>

-----------------------------------------------------------------------------
EmitterStep(e) == EmitDue(e) \/ Collect(e) \/ Return(e) \/ \E c \in Tab : Push(e, c) \/ FindFull(e, c) \/ MakeRoom(e, c) \/ PushAgain(e, c)
WorkerStep == Step \/ End \/ Ended \/ Stop \/ Stopped \/ \E kind \in {"end", "error"} : Finish(kind)
Generator(c) == Snapshot(c) \/ Replay(c) \/ NothingNew(c) \/ Skip(c) \/ Deliver(c)

Next ==
  \/ \E e \in Emitter : EmitterStep(e)
  \/ WorkerStep \/ Cancel \/ Rework
  \/ \E c \in Tab : Connect(c) \/ Generator(c) \/ IdleEnd(c) \/ Drop(c) \/ Poll(c)

Spec == Init /\ [][Next]_vars

\* Threads run.  Users, tabs and networks are not fair, nor is the idle end: what
\* NoIdleWait says must not need its 300 seconds.
Fairness ==
  /\ \A e \in Emitter : WF_vars(EmitterStep(e))
  /\ \A c \in Tab : WF_vars(Generator(c))
FairSpec == Spec /\ Fairness

-----------------------------------------------------------------------------
(* Properties. *)

Quiet == \A e \in Emitter : em[e] = "idle"
Drained(c) == conn[c] = "live" /\ queue[c] = << >>

\* "replay and live delivery have no registration gap" (competition_router.py:6152):
\* a tab that has caught up has every buffered frame, over any reconnections, unless
\* a full queue lost one or it reconnected with an id that had overtaken another; and
\* a tab whose frames came in order never gets one twice, although frames are both
\* replayed and queued.
Received(c) == {got[c][i] : i \in DOMAIN got[c]}
DeliveredOnce ==
  /\ TypeOK
  /\ \A c \in Tab : Quiet /\ Drained(c) /\ ~dropped[c] => Ids(buf) \subseteq Received(c) \cup late[c]
  /\ \A c \in Tab : late[c] = {} => \A i, j \in DOMAIN got[c] : got[c][i] = got[c][j] => i = j

\* "A terminal frame therefore remains deliverable even when that client is slow"
\* (competition_router.py:492): a listening tab has not lost the newest frame if that
\* is an end, although full queues drop frames, unless another emitter raced for room.
EndIsKept ==
  \A c \in Tab :
    Quiet /\ conn[c] = "live" /\ ~raced[c] /\ buf # << >> /\ Newest(buf).kind # "step" =>
      \E i \in DOMAIN queue[c] : queue[c][i] = Newest(buf)

\* A stream must not "leave an idle stream open for five minutes" once the run is over
\* (competition_router.py:6208): its end, or the status, closes the connection, unless
\* queue or buffer lost the end or the tab got it out of order.
EndLost(c) ==
  \/ dropped[c] \/ late[c] # {}
  \/ Len(buf) = BufferSize /\ \A i \in DOMAIN buf : buf[i].kind = "step"
NoIdleWait ==
  \A c \in Tab :
    conn[c] # "off" /\ status = "ended" ~> conn[c] = "off" \/ status = "running" \/ EndLost(c)

\* competition_router.py:6209: "When a new re-analysis is already running, keep the
\* connection open even if retained history contains an older end."
OldEndKeepsOpen ==
  [][\A c \in Tab :
       (conn[c] = "replay" /\ Head(replay[c]).run < runs /\ status = "running") =>
         (conn'[c] # "off" \/ drops' # drops)]_vars

=============================================================================
