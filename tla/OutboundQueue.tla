---------------------------- MODULE OutboundQueue ----------------------------
(***************************************************************************)
(* The outbound queue of one protocol-v2 connection, as operators on a     *)
(* record: WsClient in src/wsctl/server/client.py.  Terminal frames and    *)
(* control messages wait in two deques (binary, control) that share one    *)
(* arrival counter (seq, the code's _seq); the writer always takes the     *)
(* older head.  Terminal frames are shed from the front under byte or      *)
(* frame pressure; control messages have a bound of their own.             *)
(*                                                                         *)
(* A payload is abstracted to its length, to the stream offset of its      *)
(* first byte and to whether the ANSI parser is inside an escape sequence  *)
(* once the payload has been fed to it.  The range of stream offsets that  *)
(* the code collects for the next gap message is abstracted to whether     *)
(* there is one: the browser only shows its ends.                          *)
(***************************************************************************)
EXTENDS Integers, Sequences

CONSTANTS
  MaxPending,  \* frames of either kind that may wait (MAX_PENDING)
  MaxControl,  \* control messages that may wait (MAX_CONTROL_PENDING)
  MaxBytes,    \* byte budget of the terminal frames, 0 = none (max_bytes)
  MaxChunk     \* bytes of one snapshot chunk (MAX_DATA_FRAME)

ASSUME QueueBounds ==
  /\ MaxPending \in Nat \ {0}
  /\ MaxControl \in Nat \ {0}
  /\ MaxBytes \in Nat
  /\ MaxChunk \in Nat \ {0}

(***************************************************************************)
(* A terminal frame.  kind is the part of the flags byte the queue looks   *)
(* at: "data" is live or replayed stream output, "display" is output that  *)
(* is not part of the resumable stream (FLAG_DISPLAY), "snapshot" is one   *)
(* chunk of a full-screen repaint (FLAG_SNAPSHOT); last is FLAG_LAST.      *)
(* Two fields the code does not keep serve the model: part numbers the     *)
(* chunks of one snapshot, and upto is a running total of len along the    *)
(* deque, so that the bytes of a stretch of it are a difference.           *)
(***************************************************************************)
Kinds == {"data", "display", "snapshot"}

Frames == [order : Nat, upto : Nat, seq : Nat, len : Nat, kind : Kinds,
           inside : BOOLEAN, last : BOOLEAN, part : Nat]

Frame(seq, len, kind, inside) ==
  [order |-> 0, upto |-> 0, seq |-> seq, len |-> len, kind |-> kind,
   inside |-> inside, last |-> FALSE, part |-> 0]

Gap == [type |-> "gap"]
Desync == [type |-> "desync"]

Queues(messages) ==
  [binary : Seq(Frames), control : Seq([order : Nat, msg : messages]), seq : Nat,
   pending : Nat, droppedBytes : Nat, droppedEvents : Nat,
   noticeOpen : BOOLEAN, gapOpen : BOOLEAN, lost : BOOLEAN]

Empty ==
  [binary |-> <<>>, control |-> <<>>, seq |-> 0,
   pending |-> 0, droppedBytes |-> 0, droppedEvents |-> 0,
   noticeOpen |-> FALSE, gapOpen |-> FALSE, lost |-> FALSE]

Drained(q) == q.binary = <<>> /\ q.control = <<>>
QueueLen(q) == Len(q.binary) + Len(q.control)

Larger(a, b) == IF a < b THEN b ELSE a
Upto(frames) == IF frames = <<>> THEN 0 ELSE frames[Len(frames)].upto
Bytes(frames) ==
  IF frames = <<>> THEN 0 ELSE Upto(frames) - frames[1].upto + frames[1].len
Oldest(frames, n) == SubSeq(frames, 1, n)
Without(items, n) == SubSeq(items, n + 1, Len(items))

-----------------------------------------------------------------------------
(***************************************************************************)
(* Shedding.  One call of _drop_oldest_binary removes a prefix of the      *)
(* deque.  If the head is a snapshot chunk, the prefix is the rest of that *)
(* snapshot; otherwise it runs up to and including the first frame that    *)
(* ends outside an escape sequence.  CutPoints are the prefix lengths at   *)
(* which a succession of such calls may stop: a run of plain frames that   *)
(* reaches a snapshot chunk stops at that chunk, whatever its group.       *)
(***************************************************************************)
MidEscape(frames, i) == frames[i].kind # "snapshot" /\ frames[i].inside

SameSnapshot(f, g) == f.kind = "snapshot" /\ g.kind = "snapshot" /\ f.seq = g.seq

\* Frame i goes with the snapshot group at the head, not with a run of frames.
DroppedAsGroup(frames, i) ==
  /\ frames[i].kind = "snapshot"
  /\ i = 1 \/ ~MidEscape(frames, i - 1)

StopsAt(frames, i) ==
  \/ i = Len(frames)
  \/ frames[i].kind # "snapshot" /\ ~frames[i].inside
  \/ frames[i].kind = "snapshot" /\ ~DroppedAsGroup(frames, i)
  \/ frames[i].kind = "snapshot" /\ ~SameSnapshot(frames[i], frames[i + 1])

CutPoints(frames) == {i \in 1 .. Len(frames) : StopsAt(frames, i)}

\* Display-only output is not resumable: dropping it loses no stream bytes.
DropOldest(q, n) ==
  LET gone == Bytes(Oldest(q.binary, n))
  IN [q EXCEPT !.binary = Without(@, n),
               !.pending = Larger(0, @ - gone),
               !.droppedBytes = @ + gone,
               !.lost = @ \/ \E i \in 1 .. n : q.binary[i].kind # "display"]

\* Some call that removed frames among the n oldest reported success: it ended
\* outside an escape sequence.  A call that empties the deque without reaching
\* such a point reports failure although its frames are gone.
SomeDropSucceeded(q, n) ==
  \E i \in CutPoints(q.binary) : i <= n /\ ~MidEscape(q.binary, i)

\* Append, after _drop_oldest_control until the message fits.
Push(control, item) ==
  LET n == IF Len(control) < MaxControl THEN 0 ELSE Len(control) - MaxControl + 1
  IN Append(Without(control, n), item)

PutControl(q, message) ==
  [q EXCEPT !.seq = @ + 1,
            !.control = Push(@, [order |-> q.seq + 1, msg |-> message])]

\* Mutant: the gap does not remember that it was announced in this burst.
AnnounceGapPerDrop(q) ==
  IF ~q.lost THEN q ELSE PutControl([q EXCEPT !.lost = FALSE], Gap)

AnnounceGap(q) ==
  IF ~q.lost \/ q.gapOpen THEN q
  ELSE PutControl([q EXCEPT !.gapOpen = TRUE, !.lost = FALSE], Gap)

AnnounceNotice(q) ==
  IF q.noticeOpen THEN q
  ELSE PutControl([q EXCEPT !.noticeOpen = TRUE], Desync)

AnnounceShed(q) == AnnounceNotice(AnnounceGap(q))

CountedLoss(q) == AnnounceShed([q EXCEPT !.droppedEvents = @ + 1])

\* There is room for size more bytes once the n oldest frames are gone.
Room(q, n, size) ==
  /\ MaxBytes > 0 => q.pending - Bytes(Oldest(q.binary, n)) + size <= MaxBytes
  /\ QueueLen(q) - n < MaxPending

\* A shedding loop stops at the first of the points where it has enough, or
\* once nothing is left to drop.
StopPoint(q, enough) ==
  IF enough = {} THEN Len(q.binary)
  ELSE CHOOSE n \in enough : \A m \in enough : n <= m

\* _shed_for: drop until there is room, or until nothing is left to drop.
ShedFor(q, size) ==
  LET n == StopPoint(q, {i \in {0} \cup CutPoints(q.binary) : Room(q, i, size)})
      rest == DropOldest(q, n)
  IN IF SomeDropSucceeded(q, n) THEN CountedLoss(rest) ELSE rest

\* shed_oldest: give up at least target bytes for the session's memory cap.
ShedOldest(q, target) ==
  LET n == StopPoint(q, {i \in {0} \cup CutPoints(q.binary) :
                           Bytes(Oldest(q.binary, i)) >= target})
  IN IF n = 0 THEN q ELSE CountedLoss(DropOldest(q, n))

-----------------------------------------------------------------------------
(***************************************************************************)
(* Queueing.                                                               *)
(***************************************************************************)
\* Mutant: the running total is not kept.
EnqueueUncounted(q, frame) ==
  [q EXCEPT !.seq = @ + 1,
            !.binary = Append(@, [frame EXCEPT !.order = q.seq + 1,
                                               !.upto = Upto(q.binary) + frame.len])]

Enqueue(q, frame) ==
  [q EXCEPT !.seq = @ + 1, !.pending = @ + frame.len,
            !.binary = Append(@, [frame EXCEPT !.order = q.seq + 1,
                                               !.upto = Upto(q.binary) + frame.len])]

\* A frame larger than the whole budget is lost alone (_record_drop); if it is
\* display-only, no stream bytes are lost with it.
LoseAlone(q, len, kind) ==
  CountedLoss([q EXCEPT !.droppedBytes = @ + len, !.lost = @ \/ kind # "display"])

\* put_data for live, replayed and display-only output.
PutData(q, seq, len, kind, inside) ==
  IF MaxBytes > 0 /\ len > MaxBytes
  THEN LoseAlone(q, len, kind)
  ELSE Enqueue(ShedFor(q, len), Frame(seq, len, kind, inside))

Chunks(total) == (total + MaxChunk - 1) \div MaxChunk
EndOfChunk(total, i) == IF i < Chunks(total) THEN i * MaxChunk ELSE total

\* The chunks of a snapshot of total bytes anchored at seq; the last carries
\* FLAG_LAST.
SnapshotFrames(q, seq, total) ==
  [i \in 1 .. Chunks(total) |->
    [order |-> q.seq + i, upto |-> Upto(q.binary) + EndOfChunk(total, i),
     seq |-> seq, len |-> EndOfChunk(total, i) - (i - 1) * MaxChunk,
     kind |-> "snapshot", inside |-> FALSE, last |-> i = Chunks(total), part |-> i]]

\* Mutant: only the frame budget is looked at.
PutSnapshotAnyBytes(q, seq, total) ==
  LET r == ShedFor(q, total)
  IN IF QueueLen(r) + Chunks(total) <= MaxPending
     THEN [r EXCEPT !.binary = @ \o SnapshotFrames(r, seq, total),
                    !.seq = @ + Chunks(total),
                    !.pending = @ + total]
     ELSE [r EXCEPT !.droppedBytes = @ + total, !.droppedEvents = @ + 1]

\* _queue_snapshot: make room first, then queue every chunk or none.
PutSnapshot(q, seq, total) ==
  LET r == ShedFor(q, total)
      fits == /\ MaxBytes > 0 => r.pending + total <= MaxBytes
              /\ QueueLen(r) + Chunks(total) <= MaxPending
  IN IF fits
     THEN [r EXCEPT !.binary = @ \o SnapshotFrames(r, seq, total),
                    !.seq = @ + Chunks(total),
                    !.pending = @ + total]
     ELSE [r EXCEPT !.droppedBytes = @ + total, !.droppedEvents = @ + 1]

-----------------------------------------------------------------------------
(***************************************************************************)
(* The writer task (run): it takes the older of the two heads, and once a  *)
(* send has completed with nothing left to send it closes the burst.       *)
(***************************************************************************)
\* Mutant: terminal frames always go first.
BinaryFirstAlways(q) == q.binary # <<>>

BinaryFirst(q) ==
  /\ q.binary # <<>>
  /\ q.control = <<>> \/ q.binary[1].order < q.control[1].order

NextItem(q) == IF BinaryFirst(q) THEN q.binary[1] ELSE q.control[1]

TakeNext(q) ==
  IF BinaryFirst(q)
  THEN [q EXCEPT !.binary = Tail(@), !.pending = Larger(0, @ - q.binary[1].len)]
  ELSE [q EXCEPT !.control = Tail(@)]

AfterSend(q) ==
  IF Drained(q) THEN [q EXCEPT !.noticeOpen = FALSE, !.gapOpen = FALSE] ELSE q
=============================================================================
