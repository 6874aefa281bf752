------------------------------- MODULE WsClient -------------------------------
(***************************************************************************)
(* One protocol-v2 connection of the server: WsClient in                   *)
(* src/wsctl/server/client.py, with the callers that queue into it (the    *)
(* session's broadcast, repaint, resync and memory limit, and the endpoint *)
(* that closes it) and the writer task that drains it.                     *)
(*                                                                         *)
(* The event loop runs each method to its next await, so each method is    *)
(* one action; the writer awaits the socket between taking an item and     *)
(* looking at what is left, so it takes two.  The one loop a method runs   *)
(* without awaiting, the raw replay of resync, is a step per frame during  *)
(* which nothing else is enabled.                                          *)
(***************************************************************************)
EXTENDS OutboundQueue

CONSTANTS
  MaxEnd,      \* bound: bytes the session's stream grows to
  MaxFrame,    \* bytes of one terminal read, and the most of a replay frame
  MaxSnapshot, \* bound: bytes of a rendered screen
  MaxRepairs,  \* bound: resyncs, repaints and memory sheds
  MaxNotices   \* bound: control messages of other kinds (notices, pongs)

ASSUME EnvironmentBounds ==
  /\ MaxEnd \in Nat /\ MaxRepairs \in Nat /\ MaxNotices \in Nat
  /\ MaxFrame \in Nat \ {0} /\ MaxSnapshot \in Nat \ {0}

VARIABLES
  end,       \* bytes the session's stream has produced
  queue,     \* the connection's outbound queue
  replay,    \* stream offset the replay under way has reached, or None
  closed,    \* close() was called, or the writer failed
  awake,     \* the event _wakeup is set
  writer,    \* the writer task: "idle" (at the top of its loop), "sending",
             \* "waiting" for _wakeup, or "exited"
  repairs,   \* repairs and memory sheds so far
  notices,   \* other control messages so far
  \* History, read by the properties only:
  owed,      \* bytes handed to put_data and not taken by the writer
  lastOut,   \* arrival number of the item taken last
  painting   \* chunks of the current snapshot taken in a row, None once broken

vars == <<end, queue, replay, closed, awake, writer, repairs, notices,
          owed, lastOut, painting>>

None == -1

Notice == [type |-> "notice"]
Evicted == [type |-> "evicted"]
Messages == [type : {"gap", "desync", "notice", "evicted"}]

Init ==
  /\ end = 0
  /\ queue = Empty
  /\ replay = None
  /\ closed = FALSE /\ awake = FALSE
  /\ writer = "idle"
  /\ repairs = 0 /\ notices = 0
  /\ owed = 0 /\ lastOut = 0
  /\ painting = 0

-----------------------------------------------------------------------------
(***************************************************************************)
(* The callers.  put and put_data raise ClientGone on a closed client.     *)
(* A caller only looks at dropped_events to see whether its own call lost  *)
(* something, so the model counts it from the start of each call.          *)
(***************************************************************************)
\* Whatever appends an item sets the event; a call whose own bytes are lost
\* without a report appends nothing, and does not.
Accept(after, bytes) ==
  /\ queue' = after
  /\ awake' = (awake \/ after.seq # queue.seq)
  /\ owed' = owed + bytes
  /\ UNCHANGED <<closed, writer, lastOut, painting>>

\* No replay is under way: the event loop is free to run something else.
Yielded == replay = None

Call(after, bytes) ==
  /\ Yielded
  /\ Accept([after EXCEPT !.droppedEvents = 0], bytes)
  /\ UNCHANGED replay

Repair ==
  /\ repairs < MaxRepairs
  /\ repairs' = repairs + 1
  /\ UNCHANGED <<end, notices>>

\* TermSession._broadcast of one read of the terminal.
Broadcast(len, inside) ==
  /\ ~closed
  /\ end + len <= MaxEnd
  /\ end' = end + len
  /\ Call(PutData(queue, end, len, "data", inside), len)
  /\ UNCHANGED <<repairs, notices>>

\* _broadcast of a muted repaint: shown, but not part of the stream.
Repaint(len, inside) ==
  /\ ~closed
  /\ Repair
  /\ Call(PutData(queue, end, len, "display", inside), len)

(***************************************************************************)
(* TermSession.resync.  The provider renders a screen of total bytes, or   *)
(* none (total = 0).  Unless that screen was queued without a loss, the    *)
(* screen is cleared and the ring replayed from its base in frames of at   *)
(* most replay_target_for bytes.                                           *)
(***************************************************************************)
ClearLen == 1
Clear(q) == PutData(q, end, ClearLen, "display", FALSE)

Resync(total, base) ==
  /\ Yielded
  /\ ~closed
  /\ Repair
  /\ LET drawn == IF total > 0 THEN PutSnapshot(queue, end, total) ELSE queue
     IN IF total > 0 /\ drawn.droppedEvents = 0
        THEN Call(drawn, total)
        ELSE /\ Accept([Clear(drawn) EXCEPT !.droppedEvents = 0], total + ClearLen)
             /\ replay' = IF base < end THEN base ELSE None

\* One frame of the replay; the rest follows before anything else can run.
ReplayTarget == IF MaxBytes = 0 \/ MaxFrame < MaxBytes THEN MaxFrame ELSE MaxBytes
ReplayFrame(inside) ==
  /\ replay # None
  /\ LET next == IF end - replay <= ReplayTarget THEN end ELSE replay + ReplayTarget
         len == next - replay
     IN /\ Accept([PutData(queue, replay, len, "data", inside)
                     EXCEPT !.droppedEvents = 0], len)
        /\ replay' = IF next = end THEN None ELSE next
  /\ UNCHANGED <<end, repairs, notices>>

\* A notice, pong, error or command event: put of a dict.
Control ==
  /\ ~closed
  /\ notices < MaxNotices
  /\ notices' = notices + 1
  /\ Call(PutControl(queue, Notice), 0)
  /\ UNCHANGED <<end, repairs>>

\* TermSession._enforce_memory_limit gives up backlog, closed client or not.
MemoryLimit(excess) ==
  /\ Repair
  /\ Call(ShedOldest(queue, excess), 0)

\* Mutant: the writer is not woken.
ClosedUnwoken == closed' = TRUE /\ awake' = awake

\* close(): also on a client that was evicted or whose writer has failed.
Closed == closed' = TRUE /\ awake' = TRUE

\* TermSession._enforce_memory_limit lets the viewer go: it is told, then closed.
Evict ==
  /\ Yielded
  /\ Closed
  /\ queue' = IF closed THEN queue ELSE PutControl(queue, Evicted)
  /\ notices < MaxNotices
  /\ notices' = notices + 1
  /\ UNCHANGED <<end, replay, writer, repairs, owed, lastOut, painting>>

\* The endpoint, or the session's end, is done with the connection.
Close ==
  /\ Yielded
  /\ Closed
  /\ UNCHANGED <<end, queue, replay, writer, repairs, notices,
                 owed, lastOut, painting>>

-----------------------------------------------------------------------------
(***************************************************************************)
(* The writer task.                                                        *)
(***************************************************************************)
Painting(item) ==
  IF ~BinaryFirst(queue) \/ item.kind # "snapshot" THEN painting
  ELSE IF item.part = 1 \/ item.part = painting + 1 THEN item.part
  ELSE None

WriterTakes ==
  /\ Yielded
  /\ writer = "idle"
  /\ ~Drained(queue)
  /\ LET item == NextItem(queue)
     IN /\ queue' = TakeNext(queue)
        /\ owed' = owed - IF BinaryFirst(queue) THEN item.len ELSE 0
        /\ lastOut' = item.order
        /\ painting' = Painting(item)
  /\ writer' = "sending"
  /\ UNCHANGED <<end, replay, closed, awake, repairs, notices>>

WriterSent ==
  /\ Yielded
  /\ writer = "sending"
  /\ queue' = AfterSend(queue)
  /\ writer' = IF closed /\ Drained(queue) THEN "exited" ELSE "idle"
  /\ UNCHANGED <<end, replay, closed, awake, repairs, notices,
                 owed, lastOut, painting>>

\* The peer is gone: the send raises.  The client marks itself closed and
\* leaves the event as it is.
WriterFails ==
  /\ Yielded
  /\ writer = "sending"
  /\ writer' = "exited"
  /\ closed' = TRUE
  /\ UNCHANGED <<end, queue, replay, awake, repairs, notices,
                 owed, lastOut, painting>>

\* Nothing to send: the event is cleared, and then the task ends if the client
\* is closed, or sleeps until the event is set.
WriterRests ==
  /\ Yielded
  /\ writer = "idle"
  /\ Drained(queue)
  /\ awake' = FALSE
  /\ writer' = IF closed THEN "exited" ELSE "waiting"
  /\ UNCHANGED <<end, queue, replay, closed, repairs, notices,
                 owed, lastOut, painting>>

WriterWakes ==
  /\ Yielded
  /\ writer = "waiting"
  /\ awake
  /\ writer' = "idle"
  /\ UNCHANGED <<end, queue, replay, closed, awake, repairs, notices,
                 owed, lastOut, painting>>

Writer == WriterTakes \/ WriterSent \/ WriterRests \/ WriterWakes

Next ==
  \/ \E len \in 1 .. MaxFrame, inside \in BOOLEAN : Broadcast(len, inside)
  \/ \E len \in 1 .. MaxFrame, inside \in BOOLEAN : Repaint(len, inside)
  \/ \E total \in 0 .. MaxSnapshot, base \in 0 .. end : Resync(total, base)
  \/ \E inside \in BOOLEAN : ReplayFrame(inside)
  \/ Control
  \/ \E excess \in 1 .. MaxSnapshot : MemoryLimit(excess)
  \/ Evict
  \/ Close
  \/ Writer
  \/ WriterFails

\* The event loop schedules the writer task whenever it can run, and a send
\* either completes or raises; a replay goes on to its end; nothing obliges a
\* caller to queue or to close.
Advance == replay # None /\ replay' \in replay + 1 .. end \cup {None}

Spec ==
  /\ Init /\ [][Next]_vars
  /\ WF_replay(Advance) /\ WF_vars(Writer)

-----------------------------------------------------------------------------
(***************************************************************************)
(* Properties.                                                             *)
(***************************************************************************)
\* Every variable holds a value of its type.
TypeOK ==
  /\ end \in 0 .. MaxEnd
  /\ queue \in Queues(Messages)
  /\ replay \in 0 .. MaxEnd \cup {None}
  /\ closed \in BOOLEAN /\ awake \in BOOLEAN
  /\ writer \in {"idle", "sending", "waiting", "exited"}
  /\ repairs \in 0 .. MaxRepairs /\ notices \in 0 .. MaxNotices
  /\ owed \in Nat /\ lastOut \in Nat
  /\ painting \in Nat \cup {None}

(***************************************************************************)
(* A slow viewer costs bounded memory: whatever the callers queue and      *)
(* however far the writer lags, the terminal frames stay within the frame  *)
(* and byte budgets and the control messages within their own bound.       *)
(***************************************************************************)
BacklogBounded ==
  /\ Len(queue.binary) <= MaxPending
  /\ Len(queue.control) <= MaxControl
  /\ MaxBytes > 0 => queue.pending <= MaxBytes

(***************************************************************************)
(* Every byte handed to the client is sent, still waiting or counted as    *)
(* dropped, and the running total the byte budget is enforced with is the  *)
(* size of what waits: neither the floor at zero nor an early return of a  *)
(* shedding loop ever hides a byte.                                        *)
(***************************************************************************)
BytesConserved ==
  /\ queue.pending = Bytes(queue.binary)
  /\ owed = queue.pending + queue.droppedBytes

(***************************************************************************)
(* A shedding storm is reported once: at most one gap and one desync wait  *)
(* at any time, so a burst of losses does not become a burst of snapshot   *)
(* requests from the browser.                                              *)
(***************************************************************************)
Waiting(type) == {i \in DOMAIN queue.control : queue.control[i].msg.type = type}

OneReportPerBurst ==
  \A type \in {"gap", "desync"} :
    \A i, j \in Waiting(type) : i = j

\* The two deques cannot be told from one queue: items leave in the order in
\* which they came, each at most once.
Order == INSTANCE ArrivalOrder WITH
  clock <- queue.seq,
  waiting <- {queue.binary[i].order : i \in DOMAIN queue.binary} \cup
             {queue.control[i].order : i \in DOMAIN queue.control},
  lastOut <- lastOut

ArrivalOrderKept == Order!Spec

(***************************************************************************)
(* close() always ends the writer, whether it sends, sleeps or is about to *)
(* sleep, and also when the client had been closed before: what is still   *)
(* queued is sent first, then the task returns.  No wake-up is lost        *)
(* between the writer's look at the deques and its wait for the event.     *)
(***************************************************************************)
CloseEndsWriter == closed ~> writer = "exited"

\* What CloseEndsWriter rests on: a writer that sleeps with the event unset has
\* nothing to send and nobody has closed the client.
NoWakeUpLost == writer = "waiting" /\ ~awake => ~closed /\ Drained(queue)

(***************************************************************************)
(* The docstring of _queue_snapshot: a snapshot is one atomic unit, all    *)
(* chunks or none.  The writer never takes the last chunk of a snapshot    *)
(* (which makes the browser adopt its anchor as its resume cursor) without *)
(* having taken all the others before it.  It does not hold, and no run    *)
(* checks it: see "Known not to hold" in README.md.                        *)
(***************************************************************************)
SnapshotsWhole == painting # None

(***************************************************************************)
(* The docstring of _announce_shed: losing frames is the lesser evil,      *)
(* losing them silently is not.  Once the queue has drained and the burst  *)
(* is over, no lost range is left that no gap message has reported.        *)
(***************************************************************************)
NoSilentLoss ==
  replay = None /\ writer \in {"idle", "waiting"} /\ Drained(queue) /\ ~queue.gapOpen => ~queue.lost
=============================================================================
