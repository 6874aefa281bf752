---------------------------- MODULE WsClientProofs ----------------------------
(***************************************************************************)
(* A connection keeps its promises for every budget, every chunk size and  *)
(* every bound of the environment: what the operators of OutboundQueue     *)
(* preserve, the invariants of WsClient and its refinement of ArrivalOrder.*)
(***************************************************************************)
EXTENDS WsClient, WellFoundedInduction, TLAPS

(***************************************************************************)
(* The parts of the inductive invariant that are about one queue.          *)
(***************************************************************************)
\* The running totals along the deque are those of the lengths.
Marked(frames) ==
  /\ \A i, j \in 1 .. Len(frames) : i < j => frames[i].upto <= frames[j].upto - frames[j].len
  /\ \A i \in 1 .. Len(frames) - 1 : frames[i + 1].upto = frames[i].upto + frames[i + 1].len

\* Every arrival number is at most the counter and names one item; each deque
\* holds them in increasing order.
Ordered(binary, control, seq) ==
  /\ \A i \in 1 .. Len(binary) : binary[i].order \in 1 .. seq
  /\ \A i \in 1 .. Len(control) : control[i].order \in 1 .. seq
  /\ \A i, j \in 1 .. Len(binary) : i < j => binary[i].order < binary[j].order
  /\ \A i, j \in 1 .. Len(control) : i < j => control[i].order < control[j].order
  /\ \A i \in 1 .. Len(binary), j \in 1 .. Len(control) :
       binary[i].order # control[j].order

Budgeted(binary, control, pending) ==
  /\ Len(binary) <= MaxPending
  /\ Len(control) <= MaxControl
  /\ MaxBytes > 0 => pending <= MaxBytes

Reports(control, type) == {i \in 1 .. Len(control) : control[i].msg.type = type}

\* A report waits only while its burst is open, and then there is one.
OneReport(control, type, open) ==
  /\ \A i, j \in Reports(control, type) : i = j
  /\ ~open => Reports(control, type) = {}

Sound(q, messages) ==
  /\ q \in Queues(messages)
  /\ Marked(q.binary) /\ q.pending = Bytes(q.binary)
  /\ Ordered(q.binary, q.control, q.seq)
  /\ Budgeted(q.binary, q.control, q.pending)
  /\ OneReport(q.control, "gap", q.gapOpen)
  /\ OneReport(q.control, "desync", q.noticeOpen)

Orders(binary, control) ==
  {binary[i].order : i \in 1 .. Len(binary)} \cup
  {control[i].order : i \in 1 .. Len(control)}

\* r is q after a call: newer items may have come and others may be gone.
Follows(q, r) ==
  /\ r.seq >= q.seq
  /\ Orders(r.binary, r.control) \subseteq
       Orders(q.binary, q.control) \cup (q.seq + 1 .. r.seq)

\* The bytes r accounts for beyond those of q.
Accounts(q, r, bytes) ==
  r.pending + r.droppedBytes = q.pending + q.droppedBytes + bytes

-----------------------------------------------------------------------------
(***************************************************************************)
(* Numbers and stretches of the deque.                                     *)
(***************************************************************************)
\* A nonempty set of natural numbers has a least element.
LEMMA LeastElement ==
  ASSUME NEW S \in SUBSET Nat, S # {}
  PROVE  \E i \in S : \A j \in S : i <= j
<1>. DEFINE R == OpToRel(<, Nat)
<1>1. IsWellFoundedOn(R, Nat)
  BY NatLessThanWellFounded
<1>2. \A a, b \in Nat : a < b => <<a, b>> \in R
  BY DEF OpToRel
<1>. HIDE DEF R
<1>3. PICK x \in S : \A y \in S : ~ (<<y, x>> \in R)
  BY <1>1, WFMin
<1>4. \A y \in S : ~ (y < x)
  BY <1>2, <1>3, Zenon
<1>. QED
  BY <1>4, SMT

\* A shedding loop stops within the deque, at a point with enough if there is one.
LEMMA StopPointFacts ==
  ASSUME NEW q, q.binary \in Seq(Frames),
         NEW enough \in SUBSET (0 .. Len(q.binary))
  PROVE  /\ StopPoint(q, enough) \in 0 .. Len(q.binary)
         /\ enough # {} => StopPoint(q, enough) \in enough
         /\ enough = {} => StopPoint(q, enough) = Len(q.binary)
<1>1. CASE enough = {}
  BY <1>1 DEF StopPoint
<1>2. CASE enough # {}
  <2>1. PICK n \in enough : \A m \in enough : n <= m
    BY <1>2, LeastElement
  <2>2. StopPoint(q, enough) \in enough
    BY <1>2, <2>1 DEF StopPoint
  <2>. QED
    BY <1>2, <2>2
<1>. QED
  BY <1>1, <1>2

\* What is left of a deque without its n oldest items.
LEMMA WithoutFacts ==
  ASSUME NEW Items
  PROVE  \A items \in Seq(Items) : \A n \in 0 .. Len(items) :
           /\ Without(items, n) \in Seq(Items)
           /\ Len(Without(items, n)) = Len(items) - n
           /\ \A i \in 1 .. Len(items) - n : Without(items, n)[i] = items[i + n]
BY DEF Without

LEMMA FrameFields ==
  ASSUME NEW frames \in Seq(Frames), NEW i \in 1 .. Len(frames)
  PROVE  /\ frames[i] \in Frames
         /\ frames[i].order \in Nat /\ frames[i].upto \in Nat
         /\ frames[i].seq \in Nat /\ frames[i].len \in Nat
<1>1. frames[i] \in Frames
  OBVIOUS
<1>. QED
  BY <1>1 DEF Frames

LEMMA EmptyIffNoLength ==
  ASSUME NEW S, NEW s \in Seq(S)
  PROVE  Len(s) \in Nat /\ (s = <<>> <=> Len(s) = 0)
OBVIOUS

\* The n oldest frames and the rest share out the bytes, and both stay marked.
LEMMA SplitBytes ==
  \A frames \in Seq(Frames) : \A n \in 0 .. Len(frames) :
    Marked(frames) =>
      /\ Marked(Without(frames, n))
      /\ Bytes(Oldest(frames, n)) \in Nat /\ Bytes(Without(frames, n)) \in Nat
      /\ Bytes(frames) = Bytes(Oldest(frames, n)) + Bytes(Without(frames, n))
<1>. SUFFICES ASSUME NEW frames \in Seq(Frames), NEW n \in 0 .. Len(frames),
                     Marked(frames), NEW rest, rest = Without(frames, n)
              PROVE  /\ Marked(rest)
                     /\ Bytes(Oldest(frames, n)) \in Nat /\ Bytes(rest) \in Nat
                     /\ Bytes(frames) = Bytes(Oldest(frames, n)) + Bytes(rest)
  OBVIOUS
<1>. DEFINE old == Oldest(frames, n)
            upto(i) == frames[i].upto
            len(i) == frames[i].len
<1>1. /\ old \in Seq(Frames) /\ Len(old) = n
      /\ \A i \in 1 .. n : old[i] = frames[i]
  BY DEF Oldest
<1>2. /\ rest \in Seq(Frames) /\ Len(rest) = Len(frames) - n
      /\ \A i \in 1 .. Len(rest) : rest[i] = frames[i + n]
  BY WithoutFacts
<1>3. \A i \in 1 .. Len(frames) : upto(i) \in Nat /\ len(i) \in Nat
  BY FrameFields
<1>4. /\ \A i, j \in 1 .. Len(frames) : i < j => upto(i) <= upto(j) - len(j)
      /\ \A i \in 1 .. Len(frames) - 1 : upto(i + 1) = upto(i) + len(i + 1)
  BY DEF Marked
<1>5. Len(frames) \in Nat
  OBVIOUS
<1>6. /\ Bytes(frames) = IF Len(frames) = 0 THEN 0
                         ELSE upto(Len(frames)) - upto(1) + len(1)
      /\ Bytes(old) = IF n = 0 THEN 0 ELSE upto(n) - upto(1) + len(1)
      /\ Bytes(rest) = IF n = Len(frames) THEN 0
                       ELSE upto(Len(frames)) - upto(n + 1) + len(n + 1)
  <2>1. frames = <<>> <=> Len(frames) = 0
    BY EmptyIffNoLength
  <2>2. old = <<>> <=> n = 0
    BY <1>1, EmptyIffNoLength
  <2>3. rest = <<>> <=> n = Len(frames)
    <3>1. rest = <<>> <=> Len(rest) = 0
      BY <1>2, EmptyIffNoLength
    <3>2. Len(frames) - n = 0 <=> n = Len(frames)
      BY <1>5
    <3>. QED
      BY <1>2, <3>1, <3>2, Zenon
  <2>. HIDE DEF old
  <2>4. Bytes(frames) = IF Len(frames) = 0 THEN 0
                        ELSE upto(Len(frames)) - upto(1) + len(1)
    BY <2>1 DEF Bytes, Upto
  <2>5. Bytes(old) = IF n = 0 THEN 0 ELSE upto(n) - upto(1) + len(1)
    BY <1>1, <2>2 DEF Bytes, Upto
  <2>6. CASE n = Len(frames)
    BY <2>3, <2>4, <2>5, <2>6 DEF Bytes
  <2>7. CASE n # Len(frames)
    <3>1. Len(rest) \in 1 .. Len(rest) /\ 1 \in 1 .. Len(rest)
      BY <1>2, <1>5, <2>7
    <3>2. rest[Len(rest)] = frames[Len(rest) + n] /\ rest[1] = frames[1 + n]
      BY <1>2, <3>1
    <3>3. Len(rest) + n = Len(frames) /\ 1 + n = n + 1
      BY <1>2, <1>5
    <3>4. Upto(rest) = upto(Len(frames)) /\ rest[1] = frames[n + 1]
      BY <2>3, <2>7, <3>2, <3>3 DEF Upto
    <3>. QED
      BY <2>3, <2>4, <2>5, <2>7, <3>4 DEF Bytes
  <2>. QED
    BY <2>6, <2>7
<1>7. Marked(rest)
  <2>1. \A i \in 1 .. Len(rest) : rest[i].upto = upto(i + n) /\ rest[i].len = len(i + n)
    BY <1>2
  <2>. HIDE DEF upto, len
  <2>. QED
    BY <1>2, <1>4, <1>5, <2>1 DEF Marked
<1>. HIDE DEF old, upto, len
<1>8. Bytes(old) \in Nat /\ Bytes(rest) \in Nat /\ Bytes(frames) = Bytes(old) + Bytes(rest)
  <2>1. CASE n = 0
    <3>1. Len(frames) > 1 => upto(1) <= upto(Len(frames)) - len(Len(frames))
      BY <1>4, <1>5
    <3>. QED
      BY <1>3, <1>5, <1>6, <2>1, <3>1
  <2>2. CASE n > 0 /\ n = Len(frames)
    <3>1. n > 1 => upto(1) <= upto(n) - len(n)
      BY <1>4, <1>5, <2>2
    <3>. QED
      BY <1>3, <1>5, <1>6, <2>2, <3>1
  <2>3. CASE n > 0 /\ n < Len(frames)
    <3>1. n > 1 => upto(1) <= upto(n) - len(n)
      BY <1>4, <1>5, <2>3
    <3>2. n + 1 < Len(frames) => upto(n + 1) <= upto(Len(frames)) - len(Len(frames))
      BY <1>4, <1>5, <2>3
    <3>3. upto(n + 1) = upto(n) + len(n + 1)
      BY <1>4, <1>5, <2>3
    <3>4. /\ upto(1) \in Nat /\ len(1) \in Nat /\ upto(n) \in Nat /\ len(n) \in Nat
          /\ upto(n + 1) \in Nat /\ len(n + 1) \in Nat
          /\ upto(Len(frames)) \in Nat /\ len(Len(frames)) \in Nat
      BY <1>3, <1>5, <2>3
    <3>5. Bytes(old) \in Nat
      <4>1. Bytes(old) = upto(n) - upto(1) + len(1)
        BY <1>6, <2>3
      <4>2. CASE n = 1
        BY <3>4, <4>1, <4>2
      <4>3. CASE n > 1
        BY <3>1, <3>4, <4>1, <4>3
      <4>. QED
        BY <2>3, <4>2, <4>3
    <3>6. Bytes(rest) \in Nat
      <4>1. Bytes(rest) = upto(Len(frames)) - upto(n + 1) + len(n + 1)
        BY <1>5, <1>6, <2>3
      <4>2. CASE n + 1 = Len(frames)
        BY <3>4, <4>1, <4>2
      <4>3. CASE n + 1 < Len(frames)
        BY <3>2, <3>4, <4>1, <4>3
      <4>. QED
        BY <1>5, <2>3, <4>2, <4>3
    <3>7. Bytes(frames) = Bytes(old) + Bytes(rest)
      <4>1. /\ Bytes(frames) = upto(Len(frames)) - upto(1) + len(1)
            /\ Bytes(old) = upto(n) - upto(1) + len(1)
            /\ Bytes(rest) = upto(Len(frames)) - upto(n + 1) + len(n + 1)
        BY <1>5, <1>6, <2>3
      <4>. QED
        BY <3>3, <3>4, <4>1
    <3>. QED
      BY <3>5, <3>6, <3>7
  <2>. QED
    BY <1>5, <2>1, <2>2, <2>3
<1>. QED
  BY <1>2, <1>7, <1>8 DEF old
-----------------------------------------------------------------------------
(***************************************************************************)
(* Shedding.                                                               *)
(***************************************************************************)
LEMMA QueueFields ==
  ASSUME NEW messages, NEW q \in Queues(messages)
  PROVE  /\ q.binary \in Seq(Frames) /\ q.control \in Seq([order : Nat, msg : messages])
         /\ q.seq \in Nat /\ q.pending \in Nat
         /\ q.droppedBytes \in Nat /\ q.droppedEvents \in Nat
         /\ q.noticeOpen \in BOOLEAN /\ q.gapOpen \in BOOLEAN /\ q.lost \in BOOLEAN
         /\ Len(q.binary) \in Nat /\ Len(q.control) \in Nat
BY DEF Queues

\* A queue whose fields are replaced by values of their types is a queue.
LEMMA QueueUpdates ==
  ASSUME NEW messages, NEW q \in Queues(messages)
  PROVE  /\ \A b \in Seq(Frames), p \in Nat, d \in Nat, l \in BOOLEAN :
              [q EXCEPT !.binary = b, !.pending = p, !.droppedBytes = d, !.lost = l] \in Queues(messages)
         /\ \A s \in Nat, c \in Seq([order : Nat, msg : messages]) :
              [q EXCEPT !.seq = s, !.control = c] \in Queues(messages)
         /\ \A g \in BOOLEAN, l \in BOOLEAN :
              [q EXCEPT !.gapOpen = g, !.lost = l] \in Queues(messages)
         /\ \A n \in BOOLEAN :
              [q EXCEPT !.noticeOpen = n] \in Queues(messages)
         /\ \A e \in Nat :
              [q EXCEPT !.droppedEvents = e] \in Queues(messages)
         /\ \A s \in Nat, p \in Nat, b \in Seq(Frames) :
              [q EXCEPT !.seq = s, !.pending = p, !.binary = b] \in Queues(messages)
         /\ \A b \in Seq(Frames), s \in Nat, p \in Nat :
              [q EXCEPT !.binary = b, !.seq = s, !.pending = p] \in Queues(messages)
         /\ \A d \in Nat, l \in BOOLEAN :
              [q EXCEPT !.droppedBytes = d, !.lost = l] \in Queues(messages)
         /\ \A d \in Nat, e \in Nat :
              [q EXCEPT !.droppedBytes = d, !.droppedEvents = e] \in Queues(messages)
         /\ \A b \in Seq(Frames), p \in Nat :
              [q EXCEPT !.binary = b, !.pending = p] \in Queues(messages)
         /\ \A c \in Seq([order : Nat, msg : messages]) :
              [q EXCEPT !.control = c] \in Queues(messages)
         /\ \A n \in BOOLEAN, g \in BOOLEAN :
              [q EXCEPT !.noticeOpen = n, !.gapOpen = g] \in Queues(messages)
BY DEF Queues

\* Removing the n oldest frames keeps the arrival numbers in order.
LEMMA SuffixOrdered ==
  ASSUME NEW binary, NEW control, NEW seq, Ordered(binary, control, seq),
         Len(binary) \in Nat, NEW n \in 0 .. Len(binary),
         NEW rest, Len(rest) = Len(binary) - n,
         \A i \in 1 .. Len(rest) : rest[i] = binary[i + n]
  PROVE  /\ Ordered(rest, control, seq)
         /\ Orders(rest, control) \subseteq Orders(binary, control)
<1>1. \A i \in 1 .. Len(rest) : /\ i + n \in 1 .. Len(binary)
                                /\ rest[i] = binary[i + n]
  OBVIOUS
<1>2. \A i, j \in 1 .. Len(rest) : i < j => i + n < j + n
  OBVIOUS
<1>3. Ordered(rest, control, seq)
  BY <1>1, <1>2 DEF Ordered
<1>. QED
  BY <1>1, <1>3 DEF Orders

\* Taking away one part of a sum leaves the other, and the code's floor at zero
\* is never reached.
LEMMA DifferenceOfSum ==
  \A p, g, b, d \in Nat : p = g + b => Larger(0, p - g) = b /\ d + g \in Nat
BY DEF Larger

\* Dropping the n oldest frames moves their bytes from the backlog to the count
\* of what was dropped, and touches nothing else.
LEMMA DropOldestFacts ==
  ASSUME NEW messages, NEW q, Sound(q, messages), NEW n \in 0 .. Len(q.binary),
         NEW r, r = DropOldest(q, n)
  PROVE  /\ Sound(r, messages)
         /\ Follows(q, r) /\ Accounts(q, r, 0)
         /\ r.control = q.control /\ r.seq = q.seq
         /\ Len(r.binary) = Len(q.binary) - n
         /\ r.pending = q.pending - Bytes(Oldest(q.binary, n))
         /\ r.droppedEvents = q.droppedEvents
<1>. DEFINE gone == Bytes(Oldest(q.binary, n))
            rest == Without(q.binary, n)
            lost == q.lost \/ \E i \in 1 .. n : q.binary[i].kind # "display"
<1>1. /\ q \in Queues(messages) /\ Marked(q.binary) /\ q.pending = Bytes(q.binary)
      /\ Ordered(q.binary, q.control, q.seq)
      /\ Budgeted(q.binary, q.control, q.pending)
      /\ OneReport(q.control, "gap", q.gapOpen)
      /\ OneReport(q.control, "desync", q.noticeOpen)
  BY DEF Sound
<1>2. /\ q.binary \in Seq(Frames) /\ q.pending \in Nat /\ q.droppedBytes \in Nat
      /\ Len(q.binary) \in Nat /\ q.lost \in BOOLEAN /\ q.seq \in Nat
  BY <1>1, QueueFields
<1>3. /\ rest \in Seq(Frames) /\ Marked(rest)
      /\ Len(rest) = Len(q.binary) - n
      /\ \A i \in 1 .. Len(rest) : rest[i] = q.binary[i + n]
      /\ gone \in Nat /\ Bytes(rest) \in Nat
      /\ q.pending = gone + Bytes(rest)
  BY <1>1, <1>2, WithoutFacts, SplitBytes
<1>4. lost \in BOOLEAN
  OBVIOUS
<1>. HIDE DEF gone, rest, lost
<1>5. Larger(0, q.pending - gone) = Bytes(rest) /\ q.droppedBytes + gone \in Nat
  <2>1. /\ q.pending \in Nat /\ q.droppedBytes \in Nat
        /\ gone \in Nat /\ Bytes(rest) \in Nat
    BY <1>2, <1>3, Zenon
  <2>2. q.pending = gone + Bytes(rest)
    BY <1>3, Zenon
  <2>. QED
    BY <2>1, <2>2, DifferenceOfSum, Zenon
<1>6. r = [q EXCEPT !.binary = rest, !.pending = Bytes(rest),
                    !.droppedBytes = q.droppedBytes + gone, !.lost = lost]
  BY <1>5 DEF DropOldest, gone, rest, lost
<1>7. r \in Queues(messages)
  <2>1. Bytes(rest) \in Nat /\ q.droppedBytes + gone \in Nat
    BY <1>3, <1>5
  <2>2. \A b \in Seq(Frames), p \in Nat, d \in Nat, l \in BOOLEAN :
          [q EXCEPT !.binary = b, !.pending = p, !.droppedBytes = d, !.lost = l]
            \in Queues(messages)
    BY <1>1, QueueUpdates, Zenon
  <2>3. [q EXCEPT !.binary = rest, !.pending = Bytes(rest),
                  !.droppedBytes = q.droppedBytes + gone, !.lost = lost]
            \in Queues(messages)
    BY <1>3, <1>4, <2>1, <2>2, Zenon
  <2>. QED
    BY <1>6, <2>3, Zenon
<1>8. /\ r.binary = rest /\ r.pending = Bytes(rest)
      /\ r.droppedBytes = q.droppedBytes + gone
      /\ r.control = q.control /\ r.seq = q.seq
      /\ r.noticeOpen = q.noticeOpen /\ r.gapOpen = q.gapOpen
      /\ r.droppedEvents = q.droppedEvents
  BY <1>1, <1>6 DEF Queues
<1>9. /\ Ordered(rest, q.control, q.seq)
      /\ Orders(rest, q.control) \subseteq Orders(q.binary, q.control)
  BY <1>1, <1>2, <1>3, SuffixOrdered
<1>10. Budgeted(rest, q.control, Bytes(rest))
  BY <1>1, <1>2, <1>3, QueueBounds DEF Budgeted
<1>11. Sound(r, messages)
  BY <1>1, <1>3, <1>7, <1>8, <1>9, <1>10 DEF Sound
<1>12. Follows(q, r)
  BY <1>2, <1>8, <1>9 DEF Follows
<1>13. Accounts(q, r, 0) /\ r.pending = q.pending - gone
  BY <1>2, <1>3, <1>8 DEF Accounts
<1>14. r.pending = q.pending - Bytes(Oldest(q.binary, n))
  BY <1>13 DEF gone
<1>. QED
  BY <1>3, <1>8, <1>11, <1>12, <1>13, <1>14
-----------------------------------------------------------------------------
(***************************************************************************)
(* Control messages.                                                       *)
(***************************************************************************)
\* The control deque after a put: what is kept of it, then the new item, which
\* is the youngest of both deques.
LEMMA PushFacts ==
  ASSUME NEW Items, NEW item \in Items, NEW after
  PROVE  \A control \in Seq(Items), binary \in Seq(Frames), seq \in Nat :
           /\ Ordered(binary, control, seq)
           /\ item.order = seq + 1
           /\ after = Push(control, item)
           =>
           /\ after \in Seq(Items)
           /\ Len(after) <= MaxControl
           /\ Ordered(binary, after, seq + 1)
           /\ Orders(binary, after) \subseteq Orders(binary, control) \cup {seq + 1}
           /\ \A type, open :
                OneReport(control, type, open) /\ item.msg.type # type =>
                  OneReport(after, type, open)
           /\ \A type : OneReport(control, type, FALSE) => OneReport(after, type, TRUE)
<1>. SUFFICES
       ASSUME NEW control \in Seq(Items), NEW binary \in Seq(Frames), NEW seq \in Nat,
              Ordered(binary, control, seq), item.order = seq + 1,
              after = Push(control, item)
       PROVE  /\ after \in Seq(Items)
              /\ Len(after) <= MaxControl
              /\ Ordered(binary, after, seq + 1)
              /\ Orders(binary, after) \subseteq Orders(binary, control) \cup {seq + 1}
              /\ \A type, open :
                   OneReport(control, type, open) /\ item.msg.type # type =>
                     OneReport(after, type, open)
              /\ \A type : OneReport(control, type, FALSE) => OneReport(after, type, TRUE)
  BY Zenon
<1>. DEFINE n == IF Len(control) < MaxControl THEN 0 ELSE Len(control) - MaxControl + 1
            kept == Without(control, n)
            L == Len(control)
            M == Len(after)
<1>1. L \in Nat /\ Len(binary) \in Nat
  OBVIOUS
<1>2. n \in 0 .. L /\ L - n < MaxControl
  BY <1>1, QueueBounds
<1>3. after = Append(kept, item)
  BY DEF Push
<1>. HIDE DEF n
<1>4. /\ kept \in Seq(Items) /\ Len(kept) = L - n
      /\ \A i \in 1 .. L - n : kept[i] = control[i + n]
  BY <1>2, WithoutFacts
<1>. HIDE DEF kept
<1>5. /\ after \in Seq(Items)
      /\ M = Len(kept) + 1
      /\ \A i \in 1 .. Len(kept) : after[i] = kept[i]
      /\ after[Len(kept) + 1] = item
  BY <1>3, <1>4
<1>6. M <= MaxControl
  BY <1>1, <1>2, <1>4, <1>5, QueueBounds
<1>. HIDE DEF L, M
<1>7. /\ M \in Nat /\ M = L - n + 1 /\ after[M] = item
      /\ \A i \in 1 .. M : i < M => i + n \in 1 .. L /\ after[i] = control[i + n]
  BY <1>1, <1>2, <1>4, <1>5
<1>8. \A i \in 1 .. M : \/ after[i].order = seq + 1 /\ i = M
                        \/ after[i].order \in 1 .. seq /\ i < M
  <2>1. \A i \in 1 .. L : control[i].order \in 1 .. seq
    BY DEF Ordered, L
  <2>. QED
    BY <1>7, <2>1
<1>9. Ordered(binary, after, seq + 1)
  <2>1. \A i \in 1 .. Len(binary) : binary[i].order \in 1 .. seq + 1
    BY DEF Ordered
  <2>2. \A i \in 1 .. M : after[i].order \in 1 .. seq + 1
    BY <1>8
  <2>3. \A i, j \in 1 .. Len(binary) : i < j => binary[i].order < binary[j].order
    BY DEF Ordered
  <2>4. ASSUME NEW i \in 1 .. M, NEW j \in 1 .. M, i < j
        PROVE  after[i].order < after[j].order
    <3>1. CASE j = M
      BY <1>7, <1>8, <2>4, <3>1
    <3>2. CASE j < M
      <4>1. /\ i + n \in 1 .. L /\ after[i] = control[i + n]
            /\ j + n \in 1 .. L /\ after[j] = control[j + n]
            /\ i + n < j + n
        BY <1>2, <1>7, <2>4, <3>2
      <4>. QED
        BY <4>1 DEF Ordered, L
    <3>. QED
      BY <1>7, <3>1, <3>2
  <2>5. ASSUME NEW i \in 1 .. Len(binary), NEW j \in 1 .. M
        PROVE  binary[i].order # after[j].order
    <3>1. CASE j = M
      BY <1>7, <3>1 DEF Ordered
    <3>2. CASE j < M
      BY <1>7, <3>2 DEF Ordered, L
    <3>. QED
      BY <1>7, <3>1, <3>2
  <2>. QED
    BY <2>1, <2>2, <2>3, <2>4, <2>5 DEF Ordered, M
<1>10. Orders(binary, after) \subseteq Orders(binary, control) \cup {seq + 1}
  <2>1. ASSUME NEW i \in 1 .. M
        PROVE  \/ after[i].order = seq + 1
               \/ \E j \in 1 .. L : after[i].order = control[j].order
    <3>1. CASE i = M
      BY <1>7, <3>1
    <3>2. CASE i < M
      BY <1>7, <3>2
    <3>. QED
      BY <1>7, <3>1, <3>2
  <2>2. \A i \in 1 .. Len(after) :
           \/ after[i].order = seq + 1
           \/ \E j \in 1 .. Len(control) : after[i].order = control[j].order
    BY <2>1 DEF L, M
  <2>3. \A i \in 1 .. Len(after) :
          after[i].order \in {control[j].order : j \in 1 .. Len(control)} \cup {seq + 1}
    BY <2>2, Zenon
  <2>4. {after[i].order : i \in 1 .. Len(after)}
          \subseteq {control[j].order : j \in 1 .. Len(control)} \cup {seq + 1}
    BY <2>3, Zenon
  <2>. QED
    BY <2>4, Zenon DEF Orders
<1>11. ASSUME NEW type, NEW open, OneReport(control, type, open), item.msg.type # type
       PROVE  OneReport(after, type, open)
  <2>1. \A i \in Reports(after, type) : i + n \in Reports(control, type) /\ i \in Nat
    BY <1>7, <1>11 DEF Reports, L, M
  <2>2. \A i, j \in Nat : i + n = j + n => i = j
    BY <1>1, <1>2
  <2>3. \A i, j \in Reports(after, type) : i = j
    BY <1>11, <2>1, <2>2, Zenon DEF OneReport
  <2>4. ~open => Reports(after, type) = {}
    BY <1>11, <2>1, Zenon DEF OneReport
  <2>. QED
    BY <2>3, <2>4 DEF OneReport
<1>12. ASSUME NEW type, OneReport(control, type, FALSE)
       PROVE  OneReport(after, type, TRUE)
  <2>1. Reports(control, type) = {}
    BY <1>12 DEF OneReport
  <2>2. \A i \in Reports(after, type) : i = M
    BY <1>7, <2>1 DEF Reports, L, M
  <2>. QED
    BY <2>2 DEF OneReport
<1>. QED
  BY <1>5, <1>6, <1>9, <1>10, <1>11, <1>12 DEF M

\* What PutControl(q, message) may have made of q.
ControlPut(q, r, message, messages) ==
  /\ r \in Queues(messages)
  /\ Ordered(r.binary, r.control, r.seq)
  /\ Len(r.control) <= MaxControl
  /\ Follows(q, r)
  /\ r.binary = q.binary /\ r.pending = q.pending
  /\ r.droppedBytes = q.droppedBytes /\ r.droppedEvents = q.droppedEvents
  /\ r.noticeOpen = q.noticeOpen /\ r.gapOpen = q.gapOpen
  /\ \A type, open :
       OneReport(q.control, type, open) /\ message.type # type =>
         OneReport(r.control, type, open)
  /\ \A type : OneReport(q.control, type, FALSE) => OneReport(r.control, type, TRUE)

\* A control message takes the next arrival number; older control messages may
\* be gone, the terminal frames are untouched.
LEMMA PutControlFacts ==
  ASSUME NEW messages, NEW q \in Queues(messages), NEW message \in messages,
         Ordered(q.binary, q.control, q.seq),
         NEW r, r = PutControl(q, message)
  PROVE  ControlPut(q, r, message, messages)
<1>. DEFINE Items == [order : Nat, msg : messages]
            item == [order |-> q.seq + 1, msg |-> message]
            after == Push(q.control, item)
<1>1. /\ q.binary \in Seq(Frames) /\ q.control \in Seq(Items) /\ q.seq \in Nat
  BY QueueFields
<1>2. /\ item \in Items
      /\ item.order = q.seq + 1 /\ item.msg = message
  BY <1>1
<1>3. r = [q EXCEPT !.seq = q.seq + 1, !.control = after]
  BY DEF PutControl
<1>. HIDE DEF item, Items, after
<1>4. /\ after \in Seq(Items)
      /\ Len(after) <= MaxControl
      /\ Ordered(q.binary, after, q.seq + 1)
      /\ Orders(q.binary, after) \subseteq Orders(q.binary, q.control) \cup {q.seq + 1}
      /\ \A type, open :
           OneReport(q.control, type, open) /\ message.type # type =>
             OneReport(after, type, open)
      /\ \A type : OneReport(q.control, type, FALSE) => OneReport(after, type, TRUE)
  <2>1. after = Push(q.control, item)
    BY DEF after
  <2>2. /\ after \in Seq(Items)
        /\ Len(after) <= MaxControl
        /\ Ordered(q.binary, after, q.seq + 1)
        /\ Orders(q.binary, after) \subseteq Orders(q.binary, q.control) \cup {q.seq + 1}
        /\ \A type, open :
             OneReport(q.control, type, open) /\ item.msg.type # type =>
               OneReport(after, type, open)
        /\ \A type : OneReport(q.control, type, FALSE) => OneReport(after, type, TRUE)
    <3>1. \A control \in Seq(Items), binary \in Seq(Frames), seq \in Nat :
            /\ Ordered(binary, control, seq)
            /\ item.order = seq + 1
            /\ after = Push(control, item)
            =>
            /\ after \in Seq(Items)
            /\ Len(after) <= MaxControl
            /\ Ordered(binary, after, seq + 1)
            /\ Orders(binary, after) \subseteq Orders(binary, control) \cup {seq + 1}
            /\ \A type, open :
                 OneReport(control, type, open) /\ item.msg.type # type =>
                   OneReport(after, type, open)
            /\ \A type : OneReport(control, type, FALSE) => OneReport(after, type, TRUE)
      BY <1>2, PushFacts
    <3>. QED
      BY <1>1, <1>2, <2>1, <3>1, Zenon
  <2>. QED
    BY <1>2, <2>2, Zenon
<1>5. r \in Queues(messages)
  <2>1. \A s \in Nat, c \in Seq(Items) :
          [q EXCEPT !.seq = s, !.control = c] \in Queues(messages)
    BY QueueUpdates, Zenon DEF Items
  <2>2. q.seq + 1 \in Nat
    BY <1>1
  <2>. QED
    BY <1>3, <1>4, <2>1, <2>2, Zenon
<1>6. /\ r.seq = q.seq + 1 /\ r.control = after
      /\ r.binary = q.binary /\ r.pending = q.pending
      /\ r.droppedBytes = q.droppedBytes /\ r.droppedEvents = q.droppedEvents
      /\ r.noticeOpen = q.noticeOpen /\ r.gapOpen = q.gapOpen
  BY <1>3 DEF Queues
<1>7. Follows(q, r)
  BY <1>1, <1>4, <1>6 DEF Follows
<1>. QED
  BY <1>4, <1>5, <1>6, <1>7 DEF ControlPut

\* r is a sound queue that follows q and accounts for bytes more.
Serves(q, r, bytes, messages) ==
  Sound(r, messages) /\ Follows(q, r) /\ Accounts(q, r, bytes)

LEMMA SoundParts ==
  ASSUME NEW messages, NEW q, Sound(q, messages)
  PROVE  /\ q \in Queues(messages) /\ Marked(q.binary) /\ q.pending = Bytes(q.binary)
         /\ Ordered(q.binary, q.control, q.seq)
         /\ Budgeted(q.binary, q.control, q.pending)
         /\ OneReport(q.control, "gap", q.gapOpen)
         /\ OneReport(q.control, "desync", q.noticeOpen)
BY DEF Sound

LEMMA FollowsTransitive ==
  ASSUME NEW q, NEW r, NEW t, q.seq \in Nat, r.seq \in Nat, t.seq \in Nat,
         Follows(q, r), Follows(r, t)
  PROVE  Follows(q, t)
<1>1. q.seq <= r.seq /\ r.seq <= t.seq
  BY DEF Follows
<1>2. /\ q.seq + 1 .. r.seq \subseteq q.seq + 1 .. t.seq
      /\ r.seq + 1 .. t.seq \subseteq q.seq + 1 .. t.seq
  BY <1>1
<1>. QED
  BY <1>1, <1>2 DEF Follows

LEMMA ServesTransitive ==
  ASSUME NEW messages, NEW q, NEW r, NEW t, NEW m \in Int, NEW n \in Int,
         Sound(q, messages), Serves(q, r, m, messages), Serves(r, t, n, messages)
  PROVE  Serves(q, t, m + n, messages)
<1>1. /\ q.seq \in Nat /\ q.pending \in Nat /\ q.droppedBytes \in Nat
      /\ r.seq \in Nat /\ r.pending \in Nat /\ r.droppedBytes \in Nat
      /\ t.seq \in Nat /\ t.pending \in Nat /\ t.droppedBytes \in Nat
  BY SoundParts, QueueFields DEF Serves
<1>2. Follows(q, t)
  BY <1>1, FollowsTransitive DEF Serves
<1>3. Accounts(q, t, m + n)
  BY <1>1 DEF Serves, Accounts
<1>. QED
  BY <1>2, <1>3 DEF Serves

\* A message that is no loss report leaves the queue sound.
LEMMA PutMessage ==
  ASSUME NEW messages, NEW q, Sound(q, messages), NEW message \in messages,
         message.type \notin {"gap", "desync"},
         NEW r, r = PutControl(q, message)
  PROVE  Serves(q, r, 0, messages)
<1>1. /\ q \in Queues(messages) /\ Marked(q.binary) /\ q.pending = Bytes(q.binary)
      /\ Ordered(q.binary, q.control, q.seq)
      /\ Budgeted(q.binary, q.control, q.pending)
      /\ OneReport(q.control, "gap", q.gapOpen)
      /\ OneReport(q.control, "desync", q.noticeOpen)
  BY SoundParts
<1>2. q.seq \in Nat /\ q.pending \in Nat /\ q.droppedBytes \in Nat
  BY <1>1, QueueFields
<1>3. q \in Queues(messages) /\ Ordered(q.binary, q.control, q.seq)
  BY <1>1
<1>4. ControlPut(q, r, message, messages)
  BY <1>3, PutControlFacts
<1>5. /\ OneReport(r.control, "gap", r.gapOpen)
      /\ OneReport(r.control, "desync", r.noticeOpen)
  BY <1>1, <1>4 DEF ControlPut
<1>6. Budgeted(r.binary, r.control, r.pending)
  BY <1>1, <1>4 DEF Budgeted, ControlPut
<1>7. Accounts(q, r, 0)
  BY <1>2, <1>4 DEF Accounts, ControlPut
<1>. QED
  BY <1>1, <1>4, <1>5, <1>6, <1>7 DEF Serves, Sound, ControlPut

\* Announcing a loss queues at most one gap and one desync.
LEMMA AnnounceGapFacts ==
  ASSUME NEW messages, Gap \in messages, NEW q, Sound(q, messages),
         NEW r, r = AnnounceGap(q)
  PROVE  Serves(q, r, 0, messages) /\ r.binary = q.binary
         /\ r.droppedEvents = q.droppedEvents
<1>1. /\ q \in Queues(messages) /\ Marked(q.binary) /\ q.pending = Bytes(q.binary)
      /\ Ordered(q.binary, q.control, q.seq)
      /\ Budgeted(q.binary, q.control, q.pending)
      /\ OneReport(q.control, "gap", q.gapOpen)
      /\ OneReport(q.control, "desync", q.noticeOpen)
  BY SoundParts
<1>2. q.seq \in Nat /\ q.pending \in Nat /\ q.droppedBytes \in Nat
  BY <1>1, QueueFields
<1>3. CASE ~q.lost \/ q.gapOpen
  <2>1. r = q
    BY <1>3 DEF AnnounceGap
  <2>. QED
    BY <1>2, <2>1 DEF Serves, Follows, Accounts
<1>4. CASE ~(~q.lost \/ q.gapOpen)
  <2>. DEFINE o == [q EXCEPT !.gapOpen = TRUE, !.lost = FALSE]
  <2>1. r = PutControl(o, Gap)
    BY <1>4 DEF AnnounceGap
  <2>2. o \in Queues(messages)
    BY <1>1, QueueUpdates
  <2>3. /\ o.binary = q.binary /\ o.control = q.control /\ o.seq = q.seq
        /\ o.pending = q.pending /\ o.droppedBytes = q.droppedBytes
        /\ o.droppedEvents = q.droppedEvents
        /\ o.noticeOpen = q.noticeOpen /\ o.gapOpen = TRUE
    BY <1>1 DEF Queues
  <2>. HIDE DEF o
  <2>4. Ordered(o.binary, o.control, o.seq)
    BY <1>1, <2>3
  <2>5. ControlPut(o, r, Gap, messages)
    BY <2>1, <2>2, <2>4, PutControlFacts
  <2>6. q.gapOpen = FALSE
    BY <1>1, <1>4, QueueFields
  <2>7. OneReport(r.control, "gap", r.gapOpen)
    BY <1>1, <2>3, <2>5, <2>6 DEF ControlPut
  <2>8. OneReport(r.control, "desync", r.noticeOpen)
    BY <1>1, <2>3, <2>5 DEF Gap, ControlPut
  <2>9. Budgeted(r.binary, r.control, r.pending)
    BY <1>1, <2>3, <2>5 DEF Budgeted, ControlPut
  <2>10. Follows(q, r)
    BY <2>3, <2>5 DEF Follows, ControlPut
  <2>11. Accounts(q, r, 0)
    BY <1>2, <2>3, <2>5 DEF Accounts, ControlPut
  <2>. QED
    BY <1>1, <2>3, <2>5, <2>7, <2>8, <2>9, <2>10, <2>11 DEF Serves, Sound, ControlPut
<1>. QED
  BY <1>3, <1>4

LEMMA AnnounceNoticeFacts ==
  ASSUME NEW messages, Desync \in messages, NEW q, Sound(q, messages),
         NEW r, r = AnnounceNotice(q)
  PROVE  Serves(q, r, 0, messages) /\ r.binary = q.binary
         /\ r.droppedEvents = q.droppedEvents
<1>1. /\ q \in Queues(messages) /\ Marked(q.binary) /\ q.pending = Bytes(q.binary)
      /\ Ordered(q.binary, q.control, q.seq)
      /\ Budgeted(q.binary, q.control, q.pending)
      /\ OneReport(q.control, "gap", q.gapOpen)
      /\ OneReport(q.control, "desync", q.noticeOpen)
  BY SoundParts
<1>2. q.seq \in Nat /\ q.pending \in Nat /\ q.droppedBytes \in Nat
  BY <1>1, QueueFields
<1>3. CASE q.noticeOpen
  <2>1. r = q
    BY <1>3 DEF AnnounceNotice
  <2>. QED
    BY <1>2, <2>1 DEF Serves, Follows, Accounts
<1>4. CASE ~q.noticeOpen
  <2>. DEFINE o == [q EXCEPT !.noticeOpen = TRUE]
  <2>1. r = PutControl(o, Desync)
    BY <1>4 DEF AnnounceNotice
  <2>2. o \in Queues(messages)
    BY <1>1, QueueUpdates
  <2>3. /\ o.binary = q.binary /\ o.control = q.control /\ o.seq = q.seq
        /\ o.pending = q.pending /\ o.droppedBytes = q.droppedBytes
        /\ o.droppedEvents = q.droppedEvents
        /\ o.noticeOpen = TRUE /\ o.gapOpen = q.gapOpen
    BY <1>1 DEF Queues
  <2>. HIDE DEF o
  <2>4. Ordered(o.binary, o.control, o.seq)
    BY <1>1, <2>3
  <2>5. ControlPut(o, r, Desync, messages)
    BY <2>1, <2>2, <2>4, PutControlFacts
  <2>6. q.noticeOpen = FALSE
    BY <1>1, <1>4, QueueFields
  <2>7. OneReport(r.control, "desync", r.noticeOpen)
    BY <1>1, <2>3, <2>5, <2>6 DEF ControlPut
  <2>8. OneReport(r.control, "gap", r.gapOpen)
    BY <1>1, <2>3, <2>5 DEF Desync, ControlPut
  <2>9. Budgeted(r.binary, r.control, r.pending)
    BY <1>1, <2>3, <2>5 DEF Budgeted, ControlPut
  <2>10. Follows(q, r)
    BY <2>3, <2>5 DEF Follows, ControlPut
  <2>11. Accounts(q, r, 0)
    BY <1>2, <2>3, <2>5 DEF Accounts, ControlPut
  <2>. QED
    BY <1>1, <2>3, <2>5, <2>7, <2>8, <2>9, <2>10, <2>11 DEF Serves, Sound, ControlPut
<1>. QED
  BY <1>3, <1>4

\* Counting a loss and announcing it leaves the terminal frames alone.
LEMMA CountedLossFacts ==
  ASSUME NEW messages, Gap \in messages, Desync \in messages,
         NEW q, Sound(q, messages), NEW r, r = CountedLoss(q)
  PROVE  Serves(q, r, 0, messages) /\ r.binary = q.binary
<1>. DEFINE counted == [q EXCEPT !.droppedEvents = q.droppedEvents + 1]
            gapped == AnnounceGap(counted)
<1>1. q \in Queues(messages) /\ q.droppedEvents + 1 \in Nat /\ q.seq \in Nat
      /\ q.pending \in Nat /\ q.droppedBytes \in Nat
  <2>1. q \in Queues(messages)
    BY SoundParts
  <2>2. /\ q.droppedEvents \in Nat /\ q.seq \in Nat
        /\ q.pending \in Nat /\ q.droppedBytes \in Nat
    BY <2>1, QueueFields
  <2>. QED
    BY <2>1, <2>2
<1>2. counted \in Queues(messages)
  BY <1>1, QueueUpdates
<1>3. /\ counted.binary = q.binary /\ counted.control = q.control
      /\ counted.seq = q.seq /\ counted.pending = q.pending
      /\ counted.droppedBytes = q.droppedBytes
      /\ counted.noticeOpen = q.noticeOpen /\ counted.gapOpen = q.gapOpen
  BY <1>1 DEF Queues
<1>4. r = AnnounceNotice(gapped)
  BY DEF CountedLoss, AnnounceShed
<1>. HIDE DEF counted
<1>5. Serves(q, counted, 0, messages)
  BY <1>1, <1>2, <1>3 DEF Serves, Sound, Follows, Accounts
<1>6. Serves(counted, gapped, 0, messages) /\ gapped.binary = counted.binary
  BY <1>5, AnnounceGapFacts DEF Serves
<1>. HIDE DEF gapped
<1>7. Serves(gapped, r, 0, messages) /\ r.binary = gapped.binary
  BY <1>4, <1>6, AnnounceNoticeFacts DEF Serves
<1>8. Serves(q, gapped, 0 + 0, messages)
  BY <1>5, <1>6, ServesTransitive
<1>9. Serves(q, r, 0 + 0, messages)
  BY <1>7, <1>8, ServesTransitive
<1>. QED
  BY <1>3, <1>6, <1>7, <1>9

-----------------------------------------------------------------------------
(***************************************************************************)
(* Shedding.                                                               *)
(***************************************************************************)
\* _shed_for makes room: one more frame fits, and so do size bytes unless they
\* exceed the whole budget.
LEMMA ShedForFacts ==
  ASSUME NEW messages, Gap \in messages, Desync \in messages,
         NEW q, Sound(q, messages), NEW size \in Nat, NEW r, r = ShedFor(q, size)
  PROVE  /\ Serves(q, r, 0, messages)
         /\ Len(r.binary) < MaxPending
         /\ MaxBytes > 0 /\ size <= MaxBytes => r.pending + size <= MaxBytes
<1>. DEFINE points == {i \in {0} \cup CutPoints(q.binary) : Room(q, i, size)}
            n == StopPoint(q, points)
            rest == DropOldest(q, n)
<1>1. /\ q.binary \in Seq(Frames) /\ Len(q.binary) \in Nat /\ Len(q.control) \in Nat
      /\ q.pending \in Nat /\ q.seq \in Nat
  BY SoundParts, QueueFields
<1>2. points \in SUBSET (0 .. Len(q.binary))
  BY <1>1 DEF CutPoints
<1>3. r = rest \/ r = CountedLoss(rest)
  BY DEF ShedFor
<1>. HIDE DEF points
<1>4. /\ n \in 0 .. Len(q.binary)
      /\ points # {} => n \in points
      /\ points = {} => n = Len(q.binary)
  BY <1>1, <1>2, StopPointFacts
<1>5. Room(q, n, size) \/ n = Len(q.binary)
  BY <1>4 DEF points
<1>. HIDE DEF n
<1>6. /\ Sound(rest, messages)
      /\ Follows(q, rest) /\ Accounts(q, rest, 0)
      /\ Len(rest.binary) = Len(q.binary) - n
      /\ rest.pending = q.pending - Bytes(Oldest(q.binary, n))
  BY <1>4, DropOldestFacts
<1>. HIDE DEF rest
<1>7. Serves(q, rest, 0, messages)
  BY <1>6 DEF Serves
<1>8. rest.pending = Bytes(rest.binary) /\ rest.binary \in Seq(Frames)
  BY <1>6, SoundParts, QueueFields
<1>9. /\ Len(rest.binary) < MaxPending
      /\ MaxBytes > 0 /\ size <= MaxBytes => rest.pending + size <= MaxBytes
  <2>1. CASE Room(q, n, size)
    <3>1. Len(rest.binary) < MaxPending
      <4>1. (Len(q.binary) + Len(q.control)) - n < MaxPending
        BY <2>1, Zenon DEF Room, QueueLen
      <4>2. n \in Nat /\ MaxPending \in Nat
        BY <1>1, <1>4, QueueBounds
      <4>3. \A a, b, c, d \in Nat : (a + b) - c < d => a - c < d
        OBVIOUS
      <4>4. Len(q.binary) - n < MaxPending
        BY <1>1, <4>1, <4>2, <4>3, Zenon
      <4>. QED
        BY <1>6, <4>4
    <3>2. MaxBytes > 0 => rest.pending + size <= MaxBytes
      BY <1>6, <2>1 DEF Room
    <3>. QED
      BY <3>1, <3>2
  <2>2. CASE n = Len(q.binary)
    <3>1. Len(rest.binary) = 0
      BY <1>1, <1>6, <2>2
    <3>2. rest.pending = 0
      BY <1>8, <3>1, EmptyIffNoLength DEF Bytes
    <3>. QED
      BY <3>1, <3>2, QueueBounds
  <2>. QED
    BY <1>5, <2>1, <2>2
<1>10. CASE r = rest
  BY <1>7, <1>9, <1>10
<1>11. CASE r = CountedLoss(rest)
  <2>1. Serves(rest, r, 0, messages) /\ r.binary = rest.binary
    BY <1>6, <1>11, CountedLossFacts
  <2>2. r.pending = rest.pending
    BY <1>8, <2>1, SoundParts DEF Serves
  <2>3. Serves(q, r, 0 + 0, messages)
    BY <1>7, <2>1, ServesTransitive
  <2>. QED
    BY <1>9, <2>1, <2>2, <2>3
<1>. QED
  BY <1>3, <1>10, <1>11

\* Shedding for the session's memory cap accounts for every byte.
LEMMA ShedOldestFacts ==
  ASSUME NEW messages, Gap \in messages, Desync \in messages,
         NEW q, Sound(q, messages), NEW target \in Nat, NEW r, r = ShedOldest(q, target)
  PROVE  Serves(q, r, 0, messages)
<1>. DEFINE points == {i \in {0} \cup CutPoints(q.binary) :
                         Bytes(Oldest(q.binary, i)) >= target}
            n == StopPoint(q, points)
            rest == DropOldest(q, n)
<1>1. /\ q.binary \in Seq(Frames) /\ Len(q.binary) \in Nat
      /\ q.pending \in Nat /\ q.seq \in Nat /\ q.droppedBytes \in Nat
  BY SoundParts, QueueFields
<1>2. points \in SUBSET (0 .. Len(q.binary))
  BY <1>1 DEF CutPoints
<1>3. r = q \/ r = CountedLoss(rest)
  BY DEF ShedOldest
<1>. HIDE DEF points
<1>4. n \in 0 .. Len(q.binary)
  BY <1>1, <1>2, StopPointFacts
<1>. HIDE DEF n
<1>5. Sound(rest, messages) /\ Follows(q, rest) /\ Accounts(q, rest, 0)
  BY <1>4, DropOldestFacts
<1>. HIDE DEF rest
<1>6. CASE r = q
  BY <1>1, <1>6 DEF Serves, Follows, Accounts
<1>7. CASE r = CountedLoss(rest)
  <2>1. Serves(rest, r, 0, messages)
    BY <1>5, <1>7, CountedLossFacts
  <2>2. Serves(q, r, 0 + 0, messages)
    BY <1>5, <2>1, ServesTransitive DEF Serves
  <2>. QED
    BY <2>2
<1>. QED
  BY <1>3, <1>6, <1>7

-----------------------------------------------------------------------------
(***************************************************************************)
(* Queueing terminal frames.                                               *)
(***************************************************************************)
\* Frames whose running totals go on from those of a deque can be appended.
LEMMA JoinMarked ==
  ASSUME NEW a \in Seq(Frames), NEW b \in Seq(Frames), Marked(a), Marked(b),
         Len(b) > 0, b[1].upto = Upto(a) + b[1].len,
         NEW c, c = a \o b
  PROVE  Marked(c) /\ Bytes(c) = Bytes(a) + Bytes(b)
<1>. DEFINE L == Len(a)
            M == Len(b)
            up(i) == c[i].upto
            ln(i) == c[i].len
<1>1. /\ L \in Nat /\ M \in Nat /\ M > 0 /\ Len(c) = L + M /\ c \in Seq(Frames)
      /\ \A i \in 1 .. L : c[i] = a[i]
      /\ \A i \in 1 .. M : c[L + i] = b[i]
  OBVIOUS
<1>2. /\ \A i \in 1 .. L : a[i].upto \in Nat /\ a[i].len \in Nat
      /\ \A i \in 1 .. M : b[i].upto \in Nat /\ b[i].len \in Nat
  BY FrameFields
<1>3. Upto(a) = IF L = 0 THEN 0 ELSE a[L].upto
  BY <1>1, EmptyIffNoLength DEF Upto
<1>4. \A i \in 1 .. L : a[i].upto <= Upto(a)
  <2>. SUFFICES ASSUME NEW i \in 1 .. L PROVE a[i].upto <= Upto(a)
    OBVIOUS
  <2>1. CASE i = L
    BY <1>1, <1>2, <1>3, <2>1
  <2>2. CASE i < L
    <3>1. a[i].upto <= a[L].upto - a[L].len
      BY <1>1, <2>2 DEF Marked
    <3>2. a[i].upto \in Nat /\ a[L].upto \in Nat /\ a[L].len \in Nat /\ L # 0
      BY <1>1, <1>2, <2>2
    <3>. QED
      BY <1>3, <3>1, <3>2
  <2>. QED
    BY <1>1, <2>1, <2>2
<1>5. \A j \in 1 .. M : Upto(a) <= b[j].upto - b[j].len
  <2>. SUFFICES ASSUME NEW j \in 1 .. M PROVE Upto(a) <= b[j].upto - b[j].len
    OBVIOUS
  <2>1. /\ Upto(a) \in Nat /\ b[1].upto \in Nat /\ b[1].len \in Nat
        /\ b[j].upto \in Nat /\ b[j].len \in Nat
    BY <1>1, <1>2, <1>3
  <2>2. CASE j = 1
    BY <2>1, <2>2
  <2>3. CASE 1 < j
    <3>1. b[1].upto <= b[j].upto - b[j].len
      BY <1>1, <2>3 DEF Marked
    <3>2. Upto(a) <= b[1].upto
      BY <2>1
    <3>3. \A x, y, z \in Int : x <= y /\ y <= z => x <= z
      OBVIOUS
    <3>4. Upto(a) \in Int /\ b[1].upto \in Int /\ b[j].upto - b[j].len \in Int
      BY <2>1
    <3>. QED
      BY <3>1, <3>2, <3>3, <3>4, Zenon
  <2>. QED
    BY <1>1, <2>2, <2>3
<1>6. \A i, j \in 1 .. Len(c) : i < j => c[i].upto <= c[j].upto - c[j].len
  <2>. SUFFICES ASSUME NEW i \in 1 .. L + M, NEW j \in 1 .. L + M, i < j
                PROVE  c[i].upto <= c[j].upto - c[j].len
    BY <1>1
  <2>1. CASE j <= L
    <3>1. i \in 1 .. L /\ j \in 1 .. L
      BY <1>1, <2>1
    <3>. QED
      BY <1>1, <3>1 DEF Marked
  <2>2. CASE i <= L /\ L < j
    <3>1. i \in 1 .. L /\ j - L \in 1 .. M /\ L + (j - L) = j
      BY <1>1, <2>2
    <3>2. c[i] = a[i] /\ c[j] = b[j - L]
      BY <1>1, <3>1
    <3>3. a[i].upto <= Upto(a) /\ Upto(a) <= b[j - L].upto - b[j - L].len
      BY <1>4, <1>5, <3>1
    <3>4. /\ a[i].upto \in Nat /\ Upto(a) \in Nat
          /\ b[j - L].upto \in Nat /\ b[j - L].len \in Nat
      BY <1>1, <1>2, <1>3, <3>1
    <3>5. \A x, u, y, z \in Nat : x <= u /\ u <= y - z => x <= y - z
      OBVIOUS
    <3>. QED
      BY <3>2, <3>3, <3>4, <3>5, Zenon
  <2>3. CASE L < i
    <3>1. /\ i - L \in 1 .. M /\ L + (i - L) = i
          /\ j - L \in 1 .. M /\ L + (j - L) = j /\ i - L < j - L
      BY <1>1, <2>3
    <3>2. c[i] = b[i - L] /\ c[j] = b[j - L]
      BY <1>1, <3>1
    <3>. QED
      BY <3>1, <3>2 DEF Marked
  <2>. QED
    BY <1>1, <2>1, <2>2, <2>3
<1>7. \A i \in 1 .. Len(c) - 1 : c[i + 1].upto = c[i].upto + c[i + 1].len
  <2>. SUFFICES ASSUME NEW i \in 1 .. (L + M) - 1
                PROVE  c[i + 1].upto = c[i].upto + c[i + 1].len
    BY <1>1
  <2>1. CASE i < L
    <3>1. i \in 1 .. L /\ i + 1 \in 1 .. L /\ i \in 1 .. L - 1
      BY <1>1, <2>1
    <3>. QED
      BY <1>1, <3>1 DEF Marked
  <2>2. CASE i = L
    <3>1. L \in 1 .. L /\ 1 \in 1 .. M /\ L # 0
      BY <1>1, <2>2
    <3>2. c[i] = a[L] /\ c[i + 1] = b[1]
      BY <1>1, <2>2, <3>1
    <3>. QED
      BY <1>3, <3>1, <3>2
  <2>3. CASE L < i
    <3>1. /\ i - L \in 1 .. M /\ i - L \in 1 .. M - 1 /\ L + (i - L) = i
          /\ (i - L) + 1 \in 1 .. M /\ L + ((i - L) + 1) = i + 1
      BY <1>1, <2>3
    <3>2. c[i] = b[i - L] /\ c[i + 1] = b[(i - L) + 1]
      BY <1>1, <3>1
    <3>. QED
      BY <3>1, <3>2 DEF Marked
  <2>. QED
    BY <1>1, <2>1, <2>2, <2>3
<1>8. Marked(c)
  BY <1>6, <1>7 DEF Marked
<1>9. Bytes(b) = b[M].upto - Upto(a)
  <2>1. Bytes(b) = (b[M].upto - b[1].upto) + b[1].len
    BY <1>1, EmptyIffNoLength DEF Bytes, Upto
  <2>2. b[M].upto \in Nat /\ b[1].upto \in Nat /\ b[1].len \in Nat /\ Upto(a) \in Nat
    BY <1>1, <1>2, <1>3
  <2>. QED
    BY <2>1, <2>2
<1>10. Bytes(c) = (b[M].upto - c[1].upto) + c[1].len
  <2>1. c # <<>> /\ c[Len(c)] = b[M]
    BY <1>1, EmptyIffNoLength
  <2>. QED
    BY <2>1 DEF Bytes, Upto
<1>11. Bytes(c) = Bytes(a) + Bytes(b)
  <2>1. CASE L = 0
    <3>1. Bytes(a) = 0 /\ Upto(a) = 0 /\ c[1] = b[1]
      BY <1>1, <1>3, <2>1, EmptyIffNoLength DEF Bytes
    <3>2. b[M].upto \in Nat /\ b[1].upto \in Nat /\ b[1].len \in Nat
      BY <1>1, <1>2
    <3>. QED
      BY <1>9, <1>10, <3>1, <3>2
  <2>2. CASE L > 0
    <3>1. Bytes(a) = (Upto(a) - a[1].upto) + a[1].len /\ c[1] = a[1]
      BY <1>1, <2>2, EmptyIffNoLength DEF Bytes
    <3>2. /\ b[M].upto \in Nat /\ a[1].upto \in Nat /\ a[1].len \in Nat
          /\ Upto(a) \in Nat
      BY <1>1, <1>2, <1>3, <2>2
    <3>4. Bytes(c) = (b[M].upto - a[1].upto) + a[1].len
      BY <1>10, <3>1, Zenon
    <3>5. Bytes(a) + Bytes(b) = ((Upto(a) - a[1].upto) + a[1].len) + (b[M].upto - Upto(a))
      BY <1>9, <3>1, Zenon
    <3>6. (b[M].upto - a[1].upto) + a[1].len
            = ((Upto(a) - a[1].upto) + a[1].len) + (b[M].upto - Upto(a))
      <4>. DEFINE t == b[M].upto
                  u == a[1].upto
                  v == a[1].len
                  w == Upto(a)
      <4>. HIDE DEF t, u, v, w
      <4>1. t \in Nat /\ u \in Nat /\ v \in Nat /\ w \in Nat
        BY <3>2 DEF t, u, v, w
      <4>2. (t - u) + v = ((w - u) + v) + (t - w)
        BY <4>1
      <4>. QED
        BY <4>2 DEF t, u, v, w
    <3>. QED
      BY <3>4, <3>5, <3>6, Zenon
  <2>. QED
    BY <1>1, <2>1, <2>2
<1>. QED
  BY <1>8, <1>11

\* Frames numbered from the arrival counter on can be appended.
LEMMA JoinOrdered ==
  ASSUME NEW binary, NEW control, NEW seq \in Nat, Ordered(binary, control, seq),
         Len(binary) \in Nat, NEW n \in Nat, NEW c, Len(c) = Len(binary) + n,
         \A i \in 1 .. Len(binary) : c[i] = binary[i],
         \A i \in 1 .. n : c[Len(binary) + i].order = seq + i
  PROVE  /\ Ordered(c, control, seq + n)
         /\ Orders(c, control) \subseteq Orders(binary, control) \cup (seq + 1 .. seq + n)
<1>. DEFINE L == Len(binary)
            old(i) == binary[i].order
            new(i) == c[i].order
            ctl(i) == control[i].order
<1>1. /\ \A i \in 1 .. L : old(i) \in 1 .. seq
      /\ \A i \in 1 .. Len(control) : ctl(i) \in 1 .. seq
      /\ \A i, j \in 1 .. L : i < j => old(i) < old(j)
      /\ \A i, j \in 1 .. Len(control) : i < j => ctl(i) < ctl(j)
      /\ \A i \in 1 .. L, j \in 1 .. Len(control) : old(i) # ctl(j)
  BY DEF Ordered
<1>2. \A i \in 1 .. L : new(i) = old(i)
  OBVIOUS
<1>3. \A i \in L + 1 .. L + n : new(i) = seq + (i - L) /\ new(i) \in seq + 1 .. seq + n
  <2>. SUFFICES ASSUME NEW i \in L + 1 .. L + n
                PROVE  new(i) = seq + (i - L) /\ new(i) \in seq + 1 .. seq + n
    OBVIOUS
  <2>1. i - L \in 1 .. n /\ L + (i - L) = i
    OBVIOUS
  <2>2. new(L + (i - L)) = seq + (i - L)
    BY <2>1
  <2>. QED
    BY <2>1, <2>2
<1>4. \A i \in 1 .. Len(c) : i \in 1 .. L \/ i \in L + 1 .. L + n
  OBVIOUS
<1>. HIDE DEF old, new, ctl
<1>5. \A i \in 1 .. Len(c) : new(i) \in 1 .. seq + n
  BY <1>1, <1>2, <1>3, <1>4
<1>6. \A i, j \in 1 .. Len(c) : i < j => new(i) < new(j)
  BY <1>1, <1>2, <1>3, <1>4
<1>7. \A i \in 1 .. Len(c), j \in 1 .. Len(control) : new(i) # ctl(j)
  BY <1>1, <1>2, <1>3, <1>4
<1>8. \A j \in 1 .. Len(control) : ctl(j) \in 1 .. seq + n
  BY <1>1
<1>9. Ordered(c, control, seq + n)
  BY <1>1, <1>5, <1>6, <1>7, <1>8 DEF Ordered, new, ctl
<1>10. \A i \in 1 .. Len(c) :
         \/ \E k \in 1 .. L : new(i) = old(k)
         \/ new(i) \in seq + 1 .. seq + n
  BY <1>2, <1>3, <1>4
<1>11. Orders(c, control) \subseteq Orders(binary, control) \cup (seq + 1 .. seq + n)
  BY <1>10 DEF Orders, new, old
<1>. QED
  BY <1>9, <1>11

\* Frames that continue the queue's numbering and its running total, and fit
\* its budgets, are queued soundly and accounted for.
LEMMA JoinFacts ==
  ASSUME NEW messages, NEW q, Sound(q, messages),
         NEW more \in Seq(Frames), Marked(more), Len(more) > 0,
         more[1].upto = Upto(q.binary) + more[1].len,
         \A i \in 1 .. Len(more) : more[i].order = q.seq + i,
         NEW bytes \in Nat, Bytes(more) = bytes,
         Len(q.binary) + Len(more) <= MaxPending,
         MaxBytes > 0 => q.pending + bytes <= MaxBytes,
         NEW r \in Queues(messages),
         r.binary = q.binary \o more, r.control = q.control,
         r.seq = q.seq + Len(more), r.pending = q.pending + bytes,
         r.droppedBytes = q.droppedBytes,
         r.gapOpen = q.gapOpen, r.noticeOpen = q.noticeOpen
  PROVE  Serves(q, r, bytes, messages)
<1>1. /\ q.binary \in Seq(Frames) /\ Len(q.binary) \in Nat /\ Len(q.control) \in Nat
      /\ q.pending \in Nat /\ q.seq \in Nat /\ q.droppedBytes \in Nat
  BY SoundParts, QueueFields
<1>2. /\ Marked(q.binary) /\ q.pending = Bytes(q.binary)
      /\ Ordered(q.binary, q.control, q.seq)
      /\ Budgeted(q.binary, q.control, q.pending)
      /\ OneReport(q.control, "gap", q.gapOpen)
      /\ OneReport(q.control, "desync", q.noticeOpen)
  BY SoundParts
<1>3. Len(more) \in Nat /\ Len(r.binary) = Len(q.binary) + Len(more)
  BY <1>1
<1>4. Marked(r.binary) /\ r.pending = Bytes(r.binary)
  BY <1>1, <1>2, JoinMarked
<1>5. /\ \A i \in 1 .. Len(q.binary) : r.binary[i] = q.binary[i]
      /\ \A i \in 1 .. Len(more) : r.binary[Len(q.binary) + i] = more[i]
  BY <1>1
<1>6. \A i \in 1 .. Len(more) : r.binary[Len(q.binary) + i].order = q.seq + i
  BY <1>5
<1>7. /\ Ordered(r.binary, q.control, q.seq + Len(more))
      /\ Orders(r.binary, q.control) \subseteq
           Orders(q.binary, q.control) \cup (q.seq + 1 .. q.seq + Len(more))
  BY <1>1, <1>2, <1>3, <1>5, <1>6, JoinOrdered
<1>8. Budgeted(r.binary, r.control, r.pending)
  BY <1>2, <1>3 DEF Budgeted
<1>9. Follows(q, r)
  BY <1>1, <1>3, <1>7 DEF Follows
<1>10. Accounts(q, r, bytes)
  BY <1>1 DEF Accounts
<1>. QED
  BY <1>2, <1>4, <1>7, <1>8, <1>9, <1>10 DEF Serves, Sound

\* Queueing one frame.
LEMMA EnqueueFacts ==
  ASSUME NEW messages, NEW q, Sound(q, messages), NEW frame \in Frames,
         Len(q.binary) < MaxPending,
         MaxBytes > 0 => q.pending + frame.len <= MaxBytes,
         NEW r, r = Enqueue(q, frame)
  PROVE  Serves(q, r, frame.len, messages)
<1>. DEFINE item == [frame EXCEPT !.order = q.seq + 1,
                                  !.upto = Upto(q.binary) + frame.len]
            more == <<item>>
<1>1. /\ q \in Queues(messages)
      /\ q.binary \in Seq(Frames) /\ Len(q.binary) \in Nat
      /\ q.pending \in Nat /\ q.seq \in Nat
  BY SoundParts, QueueFields
<1>2. Upto(q.binary) \in Nat
  <2>1. CASE q.binary = <<>>
    BY <2>1 DEF Upto
  <2>2. CASE q.binary # <<>>
    <3>1. Len(q.binary) \in 1 .. Len(q.binary)
      BY <1>1, <2>2
    <3>2. q.binary[Len(q.binary)].upto \in Nat
      BY <1>1, <3>1, FrameFields
    <3>. QED
      BY <2>2, <3>2 DEF Upto
  <2>. QED
    BY <2>1, <2>2
<1>3. frame.len \in Nat
  BY DEF Frames
<1>4. /\ item \in Frames /\ item.order = q.seq + 1 /\ item.len = frame.len
      /\ item.upto = Upto(q.binary) + frame.len
  <2>1. \A o \in Nat, u \in Nat :
          /\ [frame EXCEPT !.order = o, !.upto = u] \in Frames
          /\ [frame EXCEPT !.order = o, !.upto = u].order = o
          /\ [frame EXCEPT !.order = o, !.upto = u].upto = u
          /\ [frame EXCEPT !.order = o, !.upto = u].len = frame.len
    BY DEF Frames
  <2>2. q.seq + 1 \in Nat /\ Upto(q.binary) + frame.len \in Nat
    BY <1>1, <1>2, <1>3
  <2>. QED
    BY <2>1, <2>2, Zenon
<1>5. r = [q EXCEPT !.seq = q.seq + 1, !.pending = q.pending + frame.len,
                    !.binary = Append(q.binary, item)]
  BY DEF Enqueue
<1>. HIDE DEF item
<1>6. /\ more \in Seq(Frames) /\ Len(more) = 1 /\ more[1] = item
      /\ Append(q.binary, item) = q.binary \o more
      /\ Append(q.binary, item) \in Seq(Frames)
  BY <1>1, <1>4
<1>7. Marked(more) /\ Bytes(more) = frame.len
  BY <1>2, <1>3, <1>4, <1>6, EmptyIffNoLength DEF Marked, Bytes, Upto
<1>8. r \in Queues(messages)
  <2>1. q.seq + 1 \in Nat /\ q.pending + frame.len \in Nat
    BY <1>1, <1>3
  <2>2. \A s \in Nat, p \in Nat, b \in Seq(Frames) :
          [q EXCEPT !.seq = s, !.pending = p, !.binary = b] \in Queues(messages)
    BY <1>1, QueueUpdates
  <2>3. [q EXCEPT !.seq = q.seq + 1, !.pending = q.pending + frame.len,
                  !.binary = Append(q.binary, item)] \in Queues(messages)
    BY <1>6, <2>1, <2>2
  <2>. QED
    BY <1>5, <2>3
<1>9. /\ r.binary = Append(q.binary, item) /\ r.control = q.control
      /\ r.seq = q.seq + 1 /\ r.pending = q.pending + frame.len
      /\ r.droppedBytes = q.droppedBytes
      /\ r.gapOpen = q.gapOpen /\ r.noticeOpen = q.noticeOpen
  BY <1>1, <1>5 DEF Queues
<1>10. \A i \in 1 .. Len(more) : more[i].order = q.seq + i
  BY <1>4, <1>6
<1>11. Len(more) > 0 /\ Len(q.binary) + Len(more) <= MaxPending
  BY <1>1, <1>6, QueueBounds
<1>12. more[1].upto = Upto(q.binary) + more[1].len
  BY <1>4, <1>6
<1>13. r.binary = q.binary \o more /\ r.seq = q.seq + Len(more)
  BY <1>6, <1>9
<1>. HIDE DEF more
<1>. QED
  BY <1>3, <1>6, <1>7, <1>8, <1>9, <1>10, <1>11, <1>12, <1>13, JoinFacts, Zenon

\* A frame that is lost alone is accounted for and reported.
LEMMA LoseAloneFacts ==
  ASSUME NEW messages, Gap \in messages, Desync \in messages, NEW q, Sound(q, messages),
         NEW len \in Nat, NEW kind, NEW r, r = LoseAlone(q, len, kind)
  PROVE  Serves(q, r, len, messages)
<1>. DEFINE o == [q EXCEPT !.droppedBytes = q.droppedBytes + len,
                           !.lost = q.lost \/ kind # "display"]
<1>1. /\ q \in Queues(messages) /\ q.seq \in Nat /\ q.pending \in Nat
      /\ q.droppedBytes \in Nat
  BY SoundParts, QueueFields
<1>2. r = CountedLoss(o)
  BY DEF LoseAlone
<1>3. o \in Queues(messages)
  <2>1. q.droppedBytes + len \in Nat /\ (q.lost \/ kind # "display") \in BOOLEAN
    BY <1>1
  <2>2. \A d \in Nat, l \in BOOLEAN :
          [q EXCEPT !.droppedBytes = d, !.lost = l] \in Queues(messages)
    BY <1>1, QueueUpdates
  <2>. QED
    BY <2>1, <2>2, Zenon
<1>4. /\ o.binary = q.binary /\ o.control = q.control /\ o.seq = q.seq
      /\ o.pending = q.pending /\ o.droppedBytes = q.droppedBytes + len
      /\ o.noticeOpen = q.noticeOpen /\ o.gapOpen = q.gapOpen
  BY <1>1 DEF Queues
<1>. HIDE DEF o
<1>5. Sound(o, messages)
  BY <1>3, <1>4 DEF Sound
<1>6. Serves(q, o, len, messages)
  BY <1>1, <1>4, <1>5 DEF Serves, Follows, Accounts
<1>7. Serves(o, r, 0, messages)
  BY <1>2, <1>5, CountedLossFacts
<1>8. Serves(q, r, len + 0, messages)
  BY <1>6, <1>7, ServesTransitive
<1>. QED
  BY <1>8

\* put_data of stream or display output.
LEMMA PutDataFacts ==
  ASSUME NEW messages, Gap \in messages, Desync \in messages, NEW q, Sound(q, messages),
         NEW seq \in Nat, NEW len \in Nat, NEW kind \in Kinds, NEW inside \in BOOLEAN,
         NEW r, r = PutData(q, seq, len, kind, inside)
  PROVE  Serves(q, r, len, messages)
<1>1. CASE MaxBytes > 0 /\ len > MaxBytes
  BY <1>1, LoseAloneFacts DEF PutData
<1>2. CASE ~(MaxBytes > 0 /\ len > MaxBytes)
  <2>. DEFINE roomy == ShedFor(q, len)
              frame == Frame(seq, len, kind, inside)
  <2>1. r = Enqueue(roomy, frame)
    BY <1>2 DEF PutData
  <2>2. frame \in Frames /\ frame.len = len
    BY DEF Frame, Frames
  <2>3. /\ Serves(q, roomy, 0, messages)
        /\ Len(roomy.binary) < MaxPending
        /\ MaxBytes > 0 /\ len <= MaxBytes => roomy.pending + len <= MaxBytes
    BY ShedForFacts
  <2>. HIDE DEF roomy, frame
  <2>4. Sound(roomy, messages)
    BY <2>3 DEF Serves
  <2>5. MaxBytes > 0 => roomy.pending + frame.len <= MaxBytes
    BY <1>2, <2>2, <2>3, QueueBounds
  <2>6. Serves(roomy, r, len, messages)
    BY <2>1, <2>2, <2>3, <2>4, <2>5, EnqueueFacts
  <2>7. Serves(q, r, 0 + len, messages)
    BY <2>3, <2>6, ServesTransitive
  <2>. QED
    BY <2>7
<1>. QED
  BY <1>1, <1>2

\* The chunks of a snapshot cover it exactly: every chunk but the last is full.
LEMMA ChunkFacts ==
  ASSUME NEW total \in Nat \ {0}
  PROVE  /\ Chunks(total) \in Nat \ {0}
         /\ (Chunks(total) - 1) * MaxChunk < total
         /\ \A i \in 1 .. Chunks(total) :
              /\ (i - 1) * MaxChunk \in Nat
              /\ EndOfChunk(total, i) \in Nat
              /\ EndOfChunk(total, i) - (i - 1) * MaxChunk \in Nat
              /\ i < Chunks(total) => EndOfChunk(total, i) = i * MaxChunk
         /\ EndOfChunk(total, Chunks(total)) = total
         /\ \A i, j \in 1 .. Chunks(total) : i < j => i * MaxChunk <= (j - 1) * MaxChunk
<1>. DEFINE M == MaxChunk
            k == Chunks(total)
<1>1. M \in Nat /\ M > 0
  BY QueueBounds
<1>2. k \in Nat /\ k * M <= total + M - 1 /\ total + M - 1 < (k + 1) * M
  BY <1>1 DEF Chunks
<1>. HIDE DEF M, k
<1>3. k # 0
  BY <1>1, <1>2
<1>4. (k - 1) * M < total
  BY <1>1, <1>2
<1>5. \A i, j \in Nat : i <= j => i * M <= j * M
  BY <1>1
<1>6. \A i, j \in 1 .. k : i < j => i * M <= (j - 1) * M
  <2>. SUFFICES ASSUME NEW i \in 1 .. k, NEW j \in 1 .. k, i < j
                PROVE  i * M <= (j - 1) * M
    OBVIOUS
  <2>1. i \in Nat /\ j - 1 \in Nat /\ i <= j - 1
    BY <1>2
  <2>. QED
    BY <1>5, <2>1
<1>7. ASSUME NEW i \in 1 .. k
      PROVE  /\ (i - 1) * M \in Nat
             /\ EndOfChunk(total, i) \in Nat
             /\ EndOfChunk(total, i) - (i - 1) * M \in Nat
             /\ i < k => EndOfChunk(total, i) = i * M
  <2>1. i \in Nat /\ i - 1 \in Nat
    BY <1>2, <1>7
  <2>2. (i - 1) * M \in Nat /\ i * M \in Nat /\ i * M = (i - 1) * M + M
    BY <1>1, <2>1
  <2>3. CASE i < k
    <3>1. EndOfChunk(total, i) = i * M
      BY <2>3 DEF EndOfChunk, M, k
    <3>. QED
      BY <1>1, <2>2, <3>1
  <2>4. CASE ~(i < k)
    <3>1. EndOfChunk(total, i) = total
      BY <2>4 DEF EndOfChunk, M, k
    <3>2. i = k
      BY <1>2, <1>7, <2>4
    <3>3. (i - 1) * M < total
      BY <1>4, <3>2
    <3>. QED
      BY <2>2, <2>4, <3>1, <3>3
  <2>. QED
    BY <2>3, <2>4
<1>8. EndOfChunk(total, k) = total
  BY <1>2 DEF EndOfChunk, k
<1>. QED
  BY <1>2, <1>3, <1>4, <1>6, <1>7, <1>8 DEF M, k

\* The frames of a snapshot continue the queue and hold its bytes.
LEMMA SnapshotFramesFacts ==
  ASSUME NEW messages, NEW q \in Queues(messages), NEW seq \in Nat,
         NEW total \in Nat \ {0}, NEW more, more = SnapshotFrames(q, seq, total)
  PROVE  /\ more \in Seq(Frames) /\ Len(more) = Chunks(total) /\ Marked(more)
         /\ more[1].upto = Upto(q.binary) + more[1].len
         /\ \A i \in 1 .. Len(more) : more[i].order = q.seq + i
         /\ Bytes(more) = total
<1>. DEFINE k == Chunks(total)
            U == Upto(q.binary)
            e(i) == EndOfChunk(total, i)
            b(i) == (i - 1) * MaxChunk
            frame(i) ==
              [order |-> q.seq + i, upto |-> U + e(i),
               seq |-> seq, len |-> e(i) - b(i),
               kind |-> "snapshot", inside |-> FALSE, last |-> i = k, part |-> i]
<1>1. q.seq \in Nat /\ q.binary \in Seq(Frames) /\ Len(q.binary) \in Nat
  BY QueueFields
<1>2. U \in Nat
  <2>1. CASE q.binary = <<>>
    BY <2>1 DEF Upto
  <2>2. CASE q.binary # <<>>
    <3>1. Len(q.binary) \in 1 .. Len(q.binary)
      BY <1>1, <2>2
    <3>2. q.binary[Len(q.binary)].upto \in Nat
      BY <1>1, <3>1, FrameFields
    <3>. QED
      BY <2>2, <3>2 DEF Upto
  <2>. QED
    BY <2>1, <2>2
<1>3. /\ k \in Nat \ {0}
      /\ \A i \in 1 .. k : b(i) \in Nat /\ e(i) \in Nat /\ e(i) - b(i) \in Nat
      /\ \A i \in 1 .. k : i < k => e(i) = i * MaxChunk
      /\ e(k) = total
      /\ \A i, j \in 1 .. k : i < j => i * MaxChunk <= b(j)
  BY ChunkFacts
<1>4. more = [i \in 1 .. k |-> frame(i)]
  BY DEF SnapshotFrames
<1>. HIDE DEF U, e, k
<1>5. \A i \in 1 .. k :
        /\ frame(i) \in Frames /\ frame(i).order = q.seq + i
        /\ frame(i).upto = U + e(i) /\ frame(i).len = e(i) - b(i)
  <2>. SUFFICES ASSUME NEW i \in 1 .. k
                PROVE  frame(i) \in Frames
    OBVIOUS
  <2>1. /\ q.seq + i \in Nat /\ U + e(i) \in Nat /\ e(i) - b(i) \in Nat
        /\ i \in Nat /\ (i = k) \in BOOLEAN
    <3>1. i \in Nat /\ (i = k) \in BOOLEAN
      BY <1>3
    <3>2. e(i) \in Nat /\ e(i) - b(i) \in Nat
      BY <1>3
    <3>. HIDE DEF b
    <3>. QED
      BY <1>1, <1>2, <3>1, <3>2
  <2>2. \A o \in Nat, u \in Nat, l \in Nat, p \in Nat, z \in BOOLEAN :
          [order |-> o, upto |-> u, seq |-> seq, len |-> l,
           kind |-> "snapshot", inside |-> FALSE, last |-> z, part |-> p] \in Frames
    BY DEF Frames, Kinds
  <2>. HIDE DEF b
  <2>. QED
    BY <2>1, <2>2, Zenon DEF frame
<1>. HIDE DEF frame
<1>6. /\ more \in Seq(Frames) /\ Len(more) = k
      /\ \A i \in 1 .. k : more[i] = frame(i)
  BY <1>3, <1>4, <1>5
<1>7. /\ \A i \in 1 .. k : more[i].order = q.seq + i
      /\ \A i \in 1 .. k : more[i].upto = U + e(i) /\ more[i].len = e(i) - b(i)
  BY <1>5, <1>6
<1>8. \A i, j \in 1 .. k : i < j => e(i) <= b(j)
  <2>. SUFFICES ASSUME NEW i \in 1 .. k, NEW j \in 1 .. k, i < j
                PROVE  e(i) <= b(j)
    OBVIOUS
  <2>1. i < k
    BY <1>3
  <2>. QED
    BY <1>3, <2>1
<1>9. \A i, j \in 1 .. k : i < j => more[i].upto <= more[j].upto - more[j].len
  <2>. SUFFICES ASSUME NEW i \in 1 .. k, NEW j \in 1 .. k, i < j
                PROVE  U + e(i) <= (U + e(j)) - (e(j) - b(j))
    BY <1>7, Zenon
  <2>1. e(i) \in Nat /\ e(j) \in Nat /\ b(j) \in Nat /\ e(i) <= b(j)
    BY <1>3, <1>8
  <2>. HIDE DEF b
  <2>. QED
    BY <1>2, <2>1
<1>10. \A i \in 1 .. k - 1 : more[i + 1].upto = more[i].upto + more[i + 1].len
  <2>. SUFFICES ASSUME NEW i \in 1 .. k - 1
                PROVE  more[i + 1].upto = more[i].upto + more[i + 1].len
    OBVIOUS
  <2>1. i \in 1 .. k /\ i + 1 \in 1 .. k /\ i < k /\ (i + 1) - 1 = i
    BY <1>3
  <2>2. e(i) = i * MaxChunk
    BY <1>3, <2>1
  <2>3. b(i + 1) = e(i)
    BY <2>1, <2>2
  <2>4. e(i) \in Nat /\ e(i + 1) \in Nat
    BY <1>3, <2>1
  <2>5. /\ more[i].upto = U + e(i) /\ more[i + 1].upto = U + e(i + 1)
        /\ more[i + 1].len = e(i + 1) - b(i + 1)
    BY <1>7, <2>1
  <2>. HIDE DEF b
  <2>6. U + e(i + 1) = (U + e(i)) + (e(i + 1) - e(i))
    BY <1>2, <2>4
  <2>. QED
    BY <2>3, <2>5, <2>6
<1>11. Marked(more)
  BY <1>6, <1>9, <1>10 DEF Marked
<1>12. more[1].upto = U + more[1].len /\ more[1].upto \in Nat /\ more[1].len \in Nat
  <2>1. 1 \in 1 .. k /\ b(1) = 0
    BY <1>3, QueueBounds
  <2>2. e(1) \in Nat
    BY <1>3, <2>1
  <2>3. more[1].upto = U + e(1) /\ more[1].len = e(1) - 0
    BY <1>7, <2>1, Zenon
  <2>. QED
    BY <1>2, <2>2, <2>3
<1>13. more[k].upto = U + total
  <2>1. k \in 1 .. k
    BY <1>3
  <2>. QED
    BY <1>3, <1>7, <2>1
<1>14. Bytes(more) = (more[k].upto - more[1].upto) + more[1].len
  <2>1. more # <<>>
    BY <1>3, <1>6, EmptyIffNoLength
  <2>. QED
    BY <1>6, <2>1 DEF Bytes, Upto
<1>15. Bytes(more) = total
  BY <1>2, <1>12, <1>13, <1>14
<1>. QED
  BY <1>6, <1>7, <1>11, <1>12, <1>15 DEF k, U

\* _queue_snapshot accounts for the snapshot, queued or not.
LEMMA PutSnapshotFacts ==
  ASSUME NEW messages, Gap \in messages, Desync \in messages, NEW q, Sound(q, messages),
         NEW seq \in Nat, NEW total \in Nat \ {0}, NEW r, r = PutSnapshot(q, seq, total)
  PROVE  Serves(q, r, total, messages)
<1>. DEFINE o == ShedFor(q, total)
            more == SnapshotFrames(o, seq, total)
            fits == /\ MaxBytes > 0 => o.pending + total <= MaxBytes
                    /\ QueueLen(o) + Chunks(total) <= MaxPending
<1>1. Serves(q, o, 0, messages)
  BY ShedForFacts
<1>2. /\ fits => r = [o EXCEPT !.binary = o.binary \o more,
                               !.seq = o.seq + Chunks(total),
                               !.pending = o.pending + total]
      /\ ~fits => r = [o EXCEPT !.droppedBytes = o.droppedBytes + total,
                                !.droppedEvents = o.droppedEvents + 1]
  BY DEF PutSnapshot
<1>. HIDE DEF o
<1>3. Sound(o, messages)
  BY <1>1 DEF Serves
<1>4. o \in Queues(messages)
  BY <1>3, SoundParts
<1>5. /\ o.binary \in Seq(Frames) /\ Len(o.binary) \in Nat /\ Len(o.control) \in Nat
      /\ o.seq \in Nat /\ o.pending \in Nat
      /\ o.droppedBytes \in Nat /\ o.droppedEvents \in Nat
  BY <1>4, QueueFields
<1>6. /\ more \in Seq(Frames) /\ Len(more) = Chunks(total) /\ Marked(more)
      /\ more[1].upto = Upto(o.binary) + more[1].len
      /\ \A i \in 1 .. Len(more) : more[i].order = o.seq + i
      /\ Bytes(more) = total
  BY <1>4, SnapshotFramesFacts
<1>. HIDE DEF more
<1>7. Chunks(total) \in Nat \ {0}
  BY ChunkFacts
<1>8. CASE fits
  <2>1. r = [o EXCEPT !.binary = o.binary \o more, !.seq = o.seq + Chunks(total),
                      !.pending = o.pending + total]
    BY <1>2, <1>8
  <2>2. /\ o.binary \o more \in Seq(Frames) /\ o.seq + Chunks(total) \in Nat
        /\ o.pending + total \in Nat
    BY <1>5, <1>6, <1>7
  <2>3. \A b \in Seq(Frames), s \in Nat, p \in Nat :
          [o EXCEPT !.binary = b, !.seq = s, !.pending = p] \in Queues(messages)
    BY <1>4, QueueUpdates
  <2>4. r \in Queues(messages)
    <3>1. [o EXCEPT !.binary = o.binary \o more, !.seq = o.seq + Chunks(total),
                    !.pending = o.pending + total] \in Queues(messages)
      BY <2>2, <2>3
    <3>. QED
      BY <2>1, <3>1
  <2>5. /\ r.binary = o.binary \o more /\ r.control = o.control
        /\ r.seq = o.seq + Chunks(total) /\ r.pending = o.pending + total
        /\ r.droppedBytes = o.droppedBytes
        /\ r.gapOpen = o.gapOpen /\ r.noticeOpen = o.noticeOpen
    BY <1>4, <2>1 DEF Queues
  <2>6. Len(o.binary) + Len(more) <= MaxPending
    <3>1. (Len(o.binary) + Len(o.control)) + Chunks(total) <= MaxPending
      BY <1>8 DEF QueueLen
    <3>2. \A a, b, c \in Nat : (a + b) + c <= MaxPending => a + c <= MaxPending
      BY QueueBounds
    <3>. QED
      BY <1>5, <1>6, <1>7, <3>1, <3>2
  <2>7. MaxBytes > 0 => o.pending + total <= MaxBytes
    BY <1>8
  <2>8. Len(more) > 0 /\ r.seq = o.seq + Len(more) /\ total \in Nat
    BY <1>6, <1>7, <2>5
  <2>9. Serves(o, r, total, messages)
    BY <1>3, <1>6, <2>4, <2>5, <2>6, <2>7, <2>8, JoinFacts, Zenon
  <2>10. Serves(q, r, 0 + total, messages)
    BY <1>1, <2>8, <2>9, ServesTransitive
  <2>. QED
    BY <2>8, <2>10
<1>9. CASE ~fits
  <2>1. r = [o EXCEPT !.droppedBytes = o.droppedBytes + total,
                      !.droppedEvents = o.droppedEvents + 1]
    BY <1>2, <1>9
  <2>2. o.droppedBytes + total \in Nat /\ o.droppedEvents + 1 \in Nat
    BY <1>5
  <2>3. \A d \in Nat, e \in Nat :
          [o EXCEPT !.droppedBytes = d, !.droppedEvents = e] \in Queues(messages)
    BY <1>4, QueueUpdates
  <2>4. r \in Queues(messages)
    <3>1. [o EXCEPT !.droppedBytes = o.droppedBytes + total,
                    !.droppedEvents = o.droppedEvents + 1] \in Queues(messages)
      BY <2>2, <2>3
    <3>. QED
      BY <2>1, <3>1
  <2>5. /\ r.binary = o.binary /\ r.control = o.control
        /\ r.seq = o.seq /\ r.pending = o.pending
        /\ r.droppedBytes = o.droppedBytes + total
        /\ r.gapOpen = o.gapOpen /\ r.noticeOpen = o.noticeOpen
    BY <1>4, <2>1 DEF Queues
  <2>6. Sound(r, messages)
    BY <1>3, <2>4, <2>5 DEF Sound
  <2>7. Serves(o, r, total, messages)
    BY <1>5, <2>5, <2>6 DEF Serves, Follows, Accounts
  <2>8. Serves(q, r, 0 + total, messages)
    BY <1>1, <2>7, ServesTransitive
  <2>. QED
    BY <2>8
<1>. QED
  BY <1>8, <1>9

-----------------------------------------------------------------------------
(***************************************************************************)
(* Taking.                                                                 *)
(***************************************************************************)
\* Nothing depends on which of the two deques is named first.
LEMMA OrderedSwap ==
  ASSUME NEW a, NEW b, NEW seq
  PROVE  /\ Ordered(a, b, seq) => Ordered(b, a, seq)
         /\ Orders(a, b) = Orders(b, a)
<1>1. Ordered(a, b, seq) => Ordered(b, a, seq)
  BY Zenon DEF Ordered
<1>. QED
  BY <1>1 DEF Orders

\* The older of the two heads is the oldest item of all.
LEMMA TakeHead ==
  ASSUME NEW a, NEW b, NEW seq \in Nat, Ordered(a, b, seq),
         Len(a) \in Nat \ {0}, Len(b) \in Nat,
         Len(b) > 0 => a[1].order < b[1].order,
         NEW rest, Len(rest) = Len(a) - 1,
         \A i \in 1 .. Len(rest) : rest[i] = a[i + 1]
  PROVE  /\ Ordered(rest, b, seq)
         /\ a[1].order \in Orders(a, b) /\ a[1].order \in 1 .. seq
         /\ \A o \in Orders(a, b) : a[1].order <= o
         /\ Orders(rest, b) = Orders(a, b) \ {a[1].order}
<1>. DEFINE x(i) == a[i].order
            y(i) == b[i].order
            z(i) == rest[i].order
<1>1. /\ \A i \in 1 .. Len(a) : x(i) \in 1 .. seq
      /\ \A i \in 1 .. Len(b) : y(i) \in 1 .. seq
      /\ \A i, j \in 1 .. Len(a) : i < j => x(i) < x(j)
      /\ \A i, j \in 1 .. Len(b) : i < j => y(i) < y(j)
  BY DEF Ordered
<1>2. /\ Ordered(rest, b, seq)
      /\ Orders(rest, b) \subseteq Orders(a, b)
  <2>1. 1 \in 0 .. Len(a) /\ Len(a) \in Nat
    OBVIOUS
  <2>. QED
    BY <2>1, SuffixOrdered
<1>3. \A i \in 1 .. Len(rest) : i + 1 \in 1 .. Len(a) /\ z(i) = x(i + 1)
  OBVIOUS
<1>4. \A i \in 1 .. Len(a) : i = 1 \/ (i - 1 \in 1 .. Len(rest) /\ z(i - 1) = x(i))
  OBVIOUS
<1>5. Len(b) > 0 => x(1) < y(1)
  OBVIOUS
<1>6. /\ Orders(a, b) = {x(i) : i \in 1 .. Len(a)} \cup {y(i) : i \in 1 .. Len(b)}
      /\ Orders(rest, b) = {z(i) : i \in 1 .. Len(rest)} \cup {y(i) : i \in 1 .. Len(b)}
  BY DEF Orders
<1>7. 1 \in 1 .. Len(a)
  OBVIOUS
<1>. HIDE DEF x, y, z
<1>8. \A i \in 1 .. Len(b) : x(1) < y(i)
  <2>. SUFFICES ASSUME NEW i \in 1 .. Len(b) PROVE x(1) < y(i)
    OBVIOUS
  <2>1. 1 \in 1 .. Len(b) /\ Len(b) > 0
    OBVIOUS
  <2>2. i = 1 \/ y(1) < y(i)
    BY <1>1, <2>1
  <2>3. x(1) \in Nat /\ y(1) \in Nat /\ y(i) \in Nat
    BY <1>1, <1>7, <2>1
  <2>. QED
    BY <1>5, <2>1, <2>2, <2>3
<1>9. \A i \in 1 .. Len(a) : i = 1 \/ x(1) < x(i)
  BY <1>1, <1>7
<1>10. x(1) \in Orders(a, b) /\ x(1) \in 1 .. seq
  BY <1>1, <1>6, <1>7
<1>11. \A o \in Orders(a, b) : x(1) <= o
  BY <1>1, <1>6, <1>7, <1>8, <1>9
<1>12. \A o \in Orders(a, b) : o = x(1) \/ o \in Orders(rest, b)
  BY <1>4, <1>6
<1>13. x(1) \notin Orders(rest, b)
  <2>1. \A i \in 1 .. Len(rest) : x(1) # z(i)
    <3>. SUFFICES ASSUME NEW i \in 1 .. Len(rest) PROVE x(1) # z(i)
      OBVIOUS
    <3>1. i + 1 \in 1 .. Len(a) /\ i + 1 # 1 /\ z(i) = x(i + 1)
      BY <1>3
    <3>2. x(1) < x(i + 1) /\ x(1) \in Nat
      BY <1>9, <1>10, <3>1
    <3>. QED
      BY <3>1, <3>2
  <2>2. \A i \in 1 .. Len(b) : x(1) # y(i)
    BY <1>1, <1>8, <1>10
  <2>. QED
    BY <1>6, <2>1, <2>2
<1>. QED
  BY <1>2, <1>10, <1>11, <1>12, <1>13 DEF x

\* r is q once its oldest item has been taken.
Took(q, r, item, messages) ==
  /\ Sound(r, messages) /\ r.seq = q.seq /\ r.droppedBytes = q.droppedBytes
  /\ item.order \in Orders(q.binary, q.control) /\ item.order \in 1 .. q.seq
  /\ \A o \in Orders(q.binary, q.control) : item.order <= o
  /\ Orders(r.binary, r.control) = Orders(q.binary, q.control) \ {item.order}
  /\ r.pending + (IF BinaryFirst(q) THEN item.len ELSE 0) = q.pending
  /\ BinaryFirst(q) => item.part \in Nat /\ item.len \in Nat

\* The writer takes the oldest item and leaves a sound queue of the others.
LEMMA TakeNextFacts ==
  ASSUME NEW messages, NEW q, Sound(q, messages), ~Drained(q),
         NEW r, r = TakeNext(q), NEW item, item = NextItem(q)
  PROVE  Took(q, r, item, messages)
<1>. SUFFICES
       /\ Sound(r, messages) /\ r.seq = q.seq /\ r.droppedBytes = q.droppedBytes
       /\ item.order \in Orders(q.binary, q.control) /\ item.order \in 1 .. q.seq
       /\ \A o \in Orders(q.binary, q.control) : item.order <= o
       /\ Orders(r.binary, r.control) = Orders(q.binary, q.control) \ {item.order}
       /\ r.pending + (IF BinaryFirst(q) THEN item.len ELSE 0) = q.pending
       /\ BinaryFirst(q) => item.part \in Nat /\ item.len \in Nat
  BY Zenon DEF Took
<1>. DEFINE Items == [order : Nat, msg : messages]
<1>1. /\ q \in Queues(messages) /\ Marked(q.binary) /\ q.pending = Bytes(q.binary)
      /\ Ordered(q.binary, q.control, q.seq)
      /\ Budgeted(q.binary, q.control, q.pending)
      /\ OneReport(q.control, "gap", q.gapOpen)
      /\ OneReport(q.control, "desync", q.noticeOpen)
  BY SoundParts
<1>2. /\ q.binary \in Seq(Frames) /\ q.control \in Seq(Items)
      /\ q.seq \in Nat /\ q.pending \in Nat /\ q.droppedBytes \in Nat
      /\ Len(q.binary) \in Nat /\ Len(q.control) \in Nat
  BY <1>1, QueueFields
<1>3. CASE BinaryFirst(q)
  <2>. DEFINE rest == Tail(q.binary)
              len == q.binary[1].len
  <2>1. item = q.binary[1] /\ r = [q EXCEPT !.binary = rest, !.pending = Larger(0, q.pending - len)]
    BY <1>3 DEF NextItem, TakeNext
  <2>2. q.binary # <<>> /\ (q.control = <<>> \/ q.binary[1].order < q.control[1].order)
    BY <1>3 DEF BinaryFirst
  <2>3. Len(q.binary) \in Nat \ {0}
    BY <1>2, <2>2, EmptyIffNoLength
  <2>4. /\ rest \in Seq(Frames) /\ Len(rest) = Len(q.binary) - 1
        /\ \A i \in 1 .. Len(rest) : rest[i] = q.binary[i + 1]
        /\ rest = Without(q.binary, 1)
    BY <1>2, <2>2, <2>3 DEF Without
  <2>5. q.binary[1] \in Frames /\ len \in Nat /\ q.binary[1].part \in Nat
    <3>1. q.binary[1] \in Frames
      BY <1>2, <2>3
    <3>. QED
      BY <3>1 DEF Frames
  <2>6. Bytes(Oldest(q.binary, 1)) = len
    <3>. DEFINE head == Oldest(q.binary, 1)
    <3>1. head \in Seq(Frames) /\ Len(head) = 1 /\ head[1] = q.binary[1]
      BY <1>2, <2>3 DEF Oldest
    <3>2. head # <<>>
      BY <3>1
    <3>3. Bytes(head) = (head[1].upto - head[1].upto) + head[1].len
      BY <3>1, <3>2 DEF Bytes, Upto
    <3>4. head[1].upto \in Nat
      BY <2>5, <3>1 DEF Frames
    <3>. HIDE DEF head
    <3>5. Bytes(head) = len
      BY <2>5, <3>1, <3>3, <3>4
    <3>. QED
      BY <3>5 DEF head
  <2>7. /\ Marked(rest) /\ Bytes(rest) \in Nat
        /\ Bytes(q.binary) = len + Bytes(rest)
    <3>1. 1 \in 0 .. Len(q.binary)
      BY <2>3
    <3>2. /\ Marked(Without(q.binary, 1))
          /\ Bytes(Oldest(q.binary, 1)) \in Nat /\ Bytes(Without(q.binary, 1)) \in Nat
          /\ Bytes(q.binary) = Bytes(Oldest(q.binary, 1)) + Bytes(Without(q.binary, 1))
      BY <1>1, <1>2, <3>1, SplitBytes
    <3>. QED
      BY <2>4, <2>6, <3>2
  <2>. HIDE DEF rest, len
  <2>8. Larger(0, q.pending - len) = Bytes(rest)
    BY <1>1, <2>5, <2>7 DEF Larger
  <2>9. r \in Queues(messages)
    <3>1. \A b \in Seq(Frames), p \in Nat :
            [q EXCEPT !.binary = b, !.pending = p] \in Queues(messages)
      BY <1>1, QueueUpdates
    <3>2. [q EXCEPT !.binary = rest, !.pending = Larger(0, q.pending - len)] \in Queues(messages)
      BY <2>4, <2>7, <2>8, <3>1
    <3>. QED
      BY <2>1, <3>2
  <2>10. /\ r.binary = rest /\ r.control = q.control /\ r.seq = q.seq
         /\ r.pending = Bytes(rest) /\ r.droppedBytes = q.droppedBytes
         /\ r.gapOpen = q.gapOpen /\ r.noticeOpen = q.noticeOpen
    BY <1>1, <2>1, <2>8 DEF Queues
  <2>11. Len(q.control) > 0 => q.binary[1].order < q.control[1].order
    BY <1>2, <2>2
  <2>12. /\ Ordered(rest, q.control, q.seq)
         /\ item.order \in Orders(q.binary, q.control) /\ item.order \in 1 .. q.seq
         /\ \A o \in Orders(q.binary, q.control) : item.order <= o
         /\ Orders(rest, q.control) = Orders(q.binary, q.control) \ {item.order}
    <3>. DEFINE head == q.binary[1]
    <3>1. /\ Ordered(q.binary, q.control, q.seq) /\ q.seq \in Nat
          /\ Len(q.control) \in Nat /\ Len(rest) = Len(q.binary) - 1
          /\ \A i \in 1 .. Len(rest) : rest[i] = q.binary[i + 1]
      BY <1>1, <1>2, <2>4
    <3>2. /\ Ordered(rest, q.control, q.seq)
          /\ head.order \in Orders(q.binary, q.control) /\ head.order \in 1 .. q.seq
          /\ \A o \in Orders(q.binary, q.control) : head.order <= o
          /\ Orders(rest, q.control) = Orders(q.binary, q.control) \ {head.order}
      BY <2>3, <2>11, <3>1, TakeHead, Zenon
    <3>. QED
      BY <2>1, <3>2
  <2>13. Budgeted(r.binary, r.control, r.pending)
    <3>1. Len(rest) <= MaxPending
      BY <1>1, <1>2, <2>4, QueueBounds DEF Budgeted
    <3>2. MaxBytes > 0 => Bytes(rest) <= MaxBytes
      BY <1>1, <2>5, <2>7, QueueBounds DEF Budgeted
    <3>. QED
      BY <1>1, <2>10, <3>1, <3>2 DEF Budgeted
  <2>14. Sound(r, messages)
    BY <1>1, <2>7, <2>9, <2>10, <2>12, <2>13 DEF Sound
  <2>15. item.len = len /\ r.pending + len = q.pending
    BY <1>1, <2>1, <2>5, <2>7, <2>10 DEF len
  <2>. QED
    BY <1>3, <2>1, <2>5, <2>10, <2>12, <2>14, <2>15 DEF len
<1>4. CASE ~BinaryFirst(q)
  <2>. DEFINE rest == Tail(q.control)
  <2>1. item = q.control[1] /\ r = [q EXCEPT !.control = rest]
    BY <1>4 DEF NextItem, TakeNext
  <2>2. q.control # <<>>
    BY <1>4 DEF BinaryFirst, Drained
  <2>3. Len(q.control) \in Nat \ {0}
    BY <1>2, <2>2, EmptyIffNoLength
  <2>4. /\ rest \in Seq(Items) /\ Len(rest) = Len(q.control) - 1
        /\ \A i \in 1 .. Len(rest) : rest[i] = q.control[i + 1]
    BY <1>2, <2>2, <2>3
  <2>. HIDE DEF rest
  <2>5. Len(q.binary) > 0 => q.control[1].order < q.binary[1].order
    <3>. SUFFICES ASSUME Len(q.binary) > 0 PROVE q.control[1].order < q.binary[1].order
      OBVIOUS
    <3>1. 1 \in 1 .. Len(q.binary) /\ 1 \in 1 .. Len(q.control) /\ q.binary # <<>>
      BY <1>2, <2>3
    <3>2. ~(q.binary[1].order < q.control[1].order)
      BY <1>4, <2>2, <3>1 DEF BinaryFirst
    <3>3. /\ q.binary[1].order \in 1 .. q.seq /\ q.control[1].order \in 1 .. q.seq
          /\ q.binary[1].order # q.control[1].order
      BY <1>1, <3>1 DEF Ordered
    <3>4. \A x, y \in 1 .. q.seq : ~(x < y) /\ x # y => y < x
      BY <1>2
    <3>. QED
      BY <3>2, <3>3, <3>4, Zenon
  <2>6. Ordered(q.control, q.binary, q.seq)
    BY <1>1, OrderedSwap
  <2>7. /\ Ordered(rest, q.binary, q.seq)
        /\ item.order \in Orders(q.control, q.binary) /\ item.order \in 1 .. q.seq
        /\ \A o \in Orders(q.control, q.binary) : item.order <= o
        /\ Orders(rest, q.binary) = Orders(q.control, q.binary) \ {item.order}
    <3>. DEFINE head == q.control[1]
    <3>1. /\ Ordered(rest, q.binary, q.seq)
          /\ head.order \in Orders(q.control, q.binary) /\ head.order \in 1 .. q.seq
          /\ \A o \in Orders(q.control, q.binary) : head.order <= o
          /\ Orders(rest, q.binary) = Orders(q.control, q.binary) \ {head.order}
      BY <1>2, <2>3, <2>4, <2>5, <2>6, TakeHead, Zenon
    <3>. QED
      BY <2>1, <3>1
  <2>8. /\ Ordered(q.binary, rest, q.seq)
        /\ Orders(q.control, q.binary) = Orders(q.binary, q.control)
        /\ Orders(rest, q.binary) = Orders(q.binary, rest)
    BY <2>7, OrderedSwap
  <2>9. r \in Queues(messages)
    <3>1. \A c \in Seq([order : Nat, msg : messages]) :
            [q EXCEPT !.control = c] \in Queues(messages)
      BY <1>1, QueueUpdates
    <3>. QED
      BY <2>1, <2>4, <3>1
  <2>10. /\ r.binary = q.binary /\ r.control = rest /\ r.seq = q.seq
         /\ r.pending = q.pending /\ r.droppedBytes = q.droppedBytes
         /\ r.gapOpen = q.gapOpen /\ r.noticeOpen = q.noticeOpen
    BY <1>1, <2>1 DEF Queues
  <2>11. Budgeted(r.binary, r.control, r.pending)
    BY <1>1, <1>2, <2>4, <2>10, QueueBounds DEF Budgeted
  <2>12. \A type, open : OneReport(q.control, type, open) => OneReport(rest, type, open)
    <3>1. \A i \in 1 .. Len(rest) : i + 1 \in 1 .. Len(q.control) /\ rest[i] = q.control[i + 1]
      BY <2>3, <2>4
    <3>2. \A type : \A i \in Reports(rest, type) : i + 1 \in Reports(q.control, type) /\ i \in Nat
      BY <3>1 DEF Reports
    <3>3. \A i, j \in Nat : i + 1 = j + 1 => i = j
      OBVIOUS
    <3>. QED
      BY <3>2, <3>3 DEF OneReport
  <2>13. Sound(r, messages)
    BY <1>1, <2>8, <2>9, <2>10, <2>11, <2>12 DEF Sound
  <2>. QED
    BY <1>2, <1>4, <2>7, <2>8, <2>10, <2>13
<1>. QED
  BY <1>3, <1>4

\* Closing the burst once nothing is left keeps the queue sound.
LEMMA AfterSendFacts ==
  ASSUME NEW messages, NEW q, Sound(q, messages), NEW r, r = AfterSend(q)
  PROVE  Serves(q, r, 0, messages) /\ r.seq = q.seq
         /\ r.binary = q.binary /\ r.control = q.control
<1>1. /\ q \in Queues(messages) /\ q.seq \in Nat /\ q.pending \in Nat
      /\ q.droppedBytes \in Nat
  BY SoundParts, QueueFields
<1>2. CASE ~Drained(q)
  BY <1>1, <1>2 DEF AfterSend, Serves, Follows, Accounts
<1>3. CASE Drained(q)
  <2>1. r = [q EXCEPT !.noticeOpen = FALSE, !.gapOpen = FALSE]
    BY <1>3 DEF AfterSend
  <2>2. r \in Queues(messages)
    BY <1>1, <2>1, QueueUpdates
  <2>3. /\ r.binary = q.binary /\ r.control = q.control /\ r.seq = q.seq
        /\ r.pending = q.pending /\ r.droppedBytes = q.droppedBytes
    BY <1>1, <2>1 DEF Queues
  <2>4. \A type, open : OneReport(r.control, type, open)
    <3>1. Len(r.control) = 0
      BY <1>3, <2>3 DEF Drained
    <3>. QED
      BY <3>1 DEF OneReport, Reports
  <2>5. Sound(r, messages)
    BY <2>2, <2>3, <2>4 DEF Sound
  <2>. QED
    BY <1>1, <2>3, <2>5 DEF Serves, Follows, Accounts
<1>. QED
  BY <1>2, <1>3

\* A caller that has looked at dropped_events starts to count anew.
LEMMA ResetFacts ==
  ASSUME NEW messages, NEW q, Sound(q, messages),
         NEW r, r = [q EXCEPT !.droppedEvents = 0]
  PROVE  Serves(q, r, 0, messages)
<1>1. /\ q \in Queues(messages) /\ q.seq \in Nat /\ q.pending \in Nat
      /\ q.droppedBytes \in Nat
  BY SoundParts, QueueFields
<1>2. r \in Queues(messages)
  BY <1>1, QueueUpdates
<1>3. /\ r.binary = q.binary /\ r.control = q.control /\ r.seq = q.seq
      /\ r.pending = q.pending /\ r.droppedBytes = q.droppedBytes
      /\ r.gapOpen = q.gapOpen /\ r.noticeOpen = q.noticeOpen
  BY <1>1 DEF Queues
<1>4. Sound(r, messages)
  BY <1>2, <1>3 DEF Sound
<1>. QED
  BY <1>1, <1>3, <1>4 DEF Serves, Follows, Accounts
-----------------------------------------------------------------------------
(* The connection.                                                         *)

Waiters == Orders(queue.binary, queue.control)

(***************************************************************************)
(* The inductive invariant.  Sound relates the deques, the byte total and  *)
(* the burst flags; the rest ties the history variables to the queue.      *)
(***************************************************************************)
OwedBalanced == owed = queue.pending + queue.droppedBytes

TakenInOrder == lastOut <= queue.seq /\ \A o \in Waiters : lastOut < o

ReplayOnStream == replay = None \/ replay < end

IInv ==
  /\ TypeOK
  /\ Sound(queue, Messages)
  /\ OwedBalanced
  /\ TakenInOrder
  /\ ReplayOnStream
  /\ NoWakeUpLost

-----------------------------------------------------------------------------
LEMMA MessagesOK ==
  /\ Gap \in Messages /\ Desync \in Messages
  /\ Notice \in Messages /\ Evicted \in Messages
  /\ Notice.type \notin {"gap", "desync"} /\ Evicted.type \notin {"gap", "desync"}
BY DEF Messages, Gap, Desync, Notice, Evicted

\* The refinement mapping names the items that wait.
LEMMA OrdersByDomain ==
  ASSUME NEW q \in Queues(Messages)
  PROVE  Orders(q.binary, q.control) =
           {q.binary[i].order : i \in DOMAIN q.binary} \cup
           {q.control[i].order : i \in DOMAIN q.control}
<1>1. DOMAIN q.binary = 1 .. Len(q.binary) /\ DOMAIN q.control = 1 .. Len(q.control)
  BY QueueFields
<1>. QED
  BY <1>1 DEF Orders

\* A queue that serves a call keeps the parts of the invariant about it.
LEMMA CallKeeps ==
  ASSUME IInv, NEW after, NEW bytes \in Nat, Serves(queue, after, bytes, Messages),
         queue' = after, owed' = owed + bytes, lastOut' = lastOut
  PROVE  /\ queue' \in Queues(Messages) /\ owed' \in Nat
         /\ Sound(queue, Messages)' /\ OwedBalanced' /\ TakenInOrder'
         /\ Order!Accept
<1>1. /\ queue.seq \in Nat /\ queue.pending \in Nat /\ queue.droppedBytes \in Nat
      /\ owed \in Nat /\ lastOut \in Nat
  BY QueueFields DEF IInv, TypeOK
<1>2. Sound(after, Messages) /\ after \in Queues(Messages)
  BY SoundParts DEF Serves
<1>3. after.seq \in Nat /\ after.pending \in Nat /\ after.droppedBytes \in Nat
  BY <1>2, QueueFields
<1>4. /\ after.seq >= queue.seq
      /\ Orders(after.binary, after.control) \subseteq
           Waiters \cup (queue.seq + 1 .. after.seq)
      /\ after.pending + after.droppedBytes = queue.pending + queue.droppedBytes + bytes
  BY DEF Serves, Follows, Accounts, Waiters
<1>5. OwedBalanced'
  BY <1>1, <1>3, <1>4 DEF IInv, OwedBalanced
<1>6. TakenInOrder'
  <2>1. lastOut <= queue.seq /\ \A o \in Waiters : lastOut < o
    BY DEF IInv, TakenInOrder
  <2>2. \A o \in queue.seq + 1 .. after.seq : lastOut < o
    BY <1>1, <1>3, <2>1
  <2>3. lastOut <= after.seq
    BY <1>1, <1>3, <1>4, <2>1
  <2>4. Waiters' = Orders(after.binary, after.control)
    BY DEF Waiters
  <2>. QED
    BY <1>4, <2>1, <2>2, <2>3, <2>4 DEF TakenInOrder
<1>7. Order!Accept
  <2>1. Waiters = {queue.binary[i].order : i \in DOMAIN queue.binary} \cup
                  {queue.control[i].order : i \in DOMAIN queue.control}
    BY OrdersByDomain DEF Waiters, IInv, TypeOK
  <2>2. Orders(after.binary, after.control) =
          {after.binary[i].order : i \in DOMAIN after.binary} \cup
          {after.control[i].order : i \in DOMAIN after.control}
    BY <1>2, OrdersByDomain
  <2>. QED
    BY <1>3, <1>4, <2>1, <2>2 DEF Order!Accept
<1>. QED
  BY <1>1, <1>2, <1>5, <1>6, <1>7

\* A queue without items is one without arrival numbers.
LEMMA DrainedIffNobodyWaits ==
  ASSUME NEW q \in Queues(Messages)
  PROVE  Drained(q) <=> Orders(q.binary, q.control) = {}
<1>1. /\ q.binary = <<>> <=> Len(q.binary) = 0
      /\ q.control = <<>> <=> Len(q.control) = 0
      /\ Len(q.binary) \in Nat /\ Len(q.control) \in Nat
  BY QueueFields, EmptyIffNoLength
<1>2. Orders(q.binary, q.control) = {} <=> Len(q.binary) = 0 /\ Len(q.control) = 0
  <2>1. ASSUME Len(q.binary) # 0 PROVE Orders(q.binary, q.control) # {}
    <3>1. 1 \in 1 .. Len(q.binary)
      BY <1>1, <2>1
    <3>2. q.binary[1].order \in Orders(q.binary, q.control)
      BY <3>1 DEF Orders
    <3>. QED
      BY <3>2
  <2>2. ASSUME Len(q.control) # 0 PROVE Orders(q.binary, q.control) # {}
    <3>1. 1 \in 1 .. Len(q.control)
      BY <1>1, <2>2
    <3>2. q.control[1].order \in Orders(q.binary, q.control)
      BY <3>1 DEF Orders
    <3>. QED
      BY <3>2
  <2>3. ASSUME Len(q.binary) = 0, Len(q.control) = 0
        PROVE  Orders(q.binary, q.control) = {}
    <3>1. 1 .. Len(q.binary) = {} /\ 1 .. Len(q.control) = {}
      BY <2>3
    <3>. QED
      BY <3>1 DEF Orders
  <2>. QED
    BY <2>1, <2>2, <2>3
<1>. QED
  BY <1>1, <1>2 DEF Drained

\* A call that appends nothing leaves a sleeping writer nothing to send; one
\* that appends something sets the event.
LEMMA AppendsWake ==
  ASSUME IInv, NEW after, NEW bytes \in Nat, Serves(queue, after, bytes, Messages),
         queue' = after, closed' = closed, writer' = writer,
         awake' = (awake \/ after.seq # queue.seq)
  PROVE  awake' \in BOOLEAN /\ NoWakeUpLost'
<1>1. after \in Queues(Messages) /\ queue \in Queues(Messages)
  BY SoundParts DEF Serves, IInv, TypeOK
<1>2. queue.seq \in Nat /\ after.seq \in Nat
  BY <1>1, QueueFields
<1>3. Orders(after.binary, after.control) \subseteq
        Waiters \cup (queue.seq + 1 .. after.seq)
  BY DEF Serves, Follows, Waiters
<1>4. ASSUME writer' = "waiting", ~awake'
      PROVE  ~closed' /\ Drained(after)
  <2>1. ~awake /\ after.seq = queue.seq /\ writer = "waiting"
    BY <1>4
  <2>2. ~closed /\ Drained(queue)
    BY <2>1 DEF IInv, NoWakeUpLost
  <2>3. Waiters = {} /\ queue.seq + 1 .. after.seq = {}
    BY <1>1, <1>2, <2>1, <2>2, DrainedIffNobodyWaits DEF Waiters
  <2>. QED
    BY <1>1, <1>3, <2>2, <2>3, DrainedIffNobodyWaits
<1>5. Drained(queue)' <=> Drained(after)
  BY DEF Drained
<1>. QED
  BY <1>4, <1>5 DEF NoWakeUpLost

\* The same for a caller that has looked at dropped_events.
LEMMA AcceptKeeps ==
  ASSUME IInv, NEW after, NEW bytes \in Nat, Serves(queue, after, bytes, Messages),
         Accept([after EXCEPT !.droppedEvents = 0], bytes)
  PROVE  /\ queue' \in Queues(Messages) /\ owed' \in Nat /\ lastOut' = lastOut
         /\ Sound(queue, Messages)' /\ OwedBalanced' /\ TakenInOrder'
         /\ Order!Accept
         /\ closed' = closed /\ writer' = writer /\ painting' = painting
         /\ awake' \in BOOLEAN /\ NoWakeUpLost'
<1>. DEFINE reset == [after EXCEPT !.droppedEvents = 0]
<1>1. queue' = reset /\ owed' = owed + bytes /\ lastOut' = lastOut
      /\ closed' = closed /\ writer' = writer /\ painting' = painting
      /\ awake' = (awake \/ after.seq # queue.seq)
  BY DEF Accept
<1>2. Sound(queue, Messages) /\ Sound(after, Messages)
  BY DEF IInv, Serves
<1>3. Serves(after, reset, 0, Messages)
  BY <1>2, ResetFacts
<1>4. Serves(queue, reset, bytes + 0, Messages)
  BY <1>2, <1>3, ServesTransitive
<1>5. Serves(queue, reset, bytes, Messages)
  BY <1>4
<1>6. awake' = (awake \/ reset.seq # queue.seq)
  <2>1. after \in Queues(Messages)
    BY <1>2, SoundParts
  <2>2. reset.seq = after.seq
    BY <2>1 DEF Queues
  <2>. QED
    BY <1>1, <2>2
<1>. HIDE DEF reset
<1>7. awake' \in BOOLEAN /\ NoWakeUpLost'
  BY <1>1, <1>5, <1>6, AppendsWake
<1>. QED
  BY <1>1, <1>5, <1>7, CallKeeps

\* What an action that queues something has to show, and what it gets.
Step == IInv' /\ [Order!Next]_Order!vars

LEMMA BroadcastStep ==
  ASSUME IInv, NEW len \in 1 .. MaxFrame, NEW inside \in BOOLEAN, Broadcast(len, inside)
  PROVE  Step
<1>. DEFINE after == PutData(queue, end, len, "data", inside)
<1>1. end \in Nat /\ end + len <= MaxEnd /\ len \in Nat /\ end' = end + len
  BY EnvironmentBounds DEF IInv, TypeOK, Broadcast
<1>2. Serves(queue, after, len, Messages)
  BY <1>1, MessagesOK, PutDataFacts DEF IInv, Kinds
<1>3. Accept([after EXCEPT !.droppedEvents = 0], len) /\ replay = None /\ replay' = replay
      /\ repairs' = repairs /\ notices' = notices
  BY DEF Broadcast, Call, Yielded
<1>. HIDE DEF after
<1>4. /\ queue' \in Queues(Messages) /\ owed' \in Nat /\ lastOut' = lastOut
      /\ Sound(queue, Messages)' /\ OwedBalanced' /\ TakenInOrder'
      /\ Order!Accept
      /\ closed' = closed /\ writer' = writer /\ painting' = painting
      /\ awake' \in BOOLEAN /\ NoWakeUpLost'
  BY <1>1, <1>2, <1>3, AcceptKeeps
<1>5. TypeOK'
  BY <1>1, <1>3, <1>4, EnvironmentBounds DEF IInv, TypeOK
<1>6. ReplayOnStream'
  BY <1>3 DEF ReplayOnStream
<1>. QED
  BY <1>4, <1>5, <1>6 DEF Step, IInv, Order!Next

LEMMA RepaintStep ==
  ASSUME IInv, NEW len \in 1 .. MaxFrame, NEW inside \in BOOLEAN, Repaint(len, inside)
  PROVE  Step
<1>. DEFINE after == PutData(queue, end, len, "display", inside)
<1>1. end \in Nat /\ len \in Nat
  BY EnvironmentBounds DEF IInv, TypeOK
<1>2. Serves(queue, after, len, Messages)
  BY <1>1, MessagesOK, PutDataFacts DEF IInv, Kinds
<1>3. Accept([after EXCEPT !.droppedEvents = 0], len) /\ replay = None /\ replay' = replay
      /\ repairs < MaxRepairs /\ repairs' = repairs + 1 /\ notices' = notices /\ end' = end
  BY DEF Repaint, Repair, Call, Yielded
<1>. HIDE DEF after
<1>4. /\ queue' \in Queues(Messages) /\ owed' \in Nat /\ lastOut' = lastOut
      /\ Sound(queue, Messages)' /\ OwedBalanced' /\ TakenInOrder'
      /\ Order!Accept
      /\ closed' = closed /\ writer' = writer /\ painting' = painting
      /\ awake' \in BOOLEAN /\ NoWakeUpLost'
  BY <1>1, <1>2, <1>3, AcceptKeeps
<1>5. TypeOK'
  BY <1>3, <1>4, EnvironmentBounds DEF IInv, TypeOK
<1>6. ReplayOnStream'
  BY <1>3 DEF ReplayOnStream
<1>. QED
  BY <1>4, <1>5, <1>6 DEF Step, IInv, Order!Next

LEMMA ResyncStep ==
  ASSUME IInv, NEW total \in 0 .. MaxSnapshot, NEW base \in 0 .. end, Resync(total, base)
  PROVE  Step
<1>. DEFINE drawn == IF total > 0 THEN PutSnapshot(queue, end, total) ELSE queue
            whole == total > 0 /\ drawn.droppedEvents = 0
            after == IF whole THEN drawn ELSE Clear(drawn)
            bytes == IF whole THEN total ELSE total + ClearLen
<1>1. end \in Nat /\ end <= MaxEnd /\ total \in Nat /\ bytes \in Nat /\ Sound(queue, Messages)
  BY EnvironmentBounds DEF IInv, TypeOK, ClearLen
<1>2. Serves(queue, drawn, total, Messages)
  <2>1. CASE total > 0
    <3>1. total \in Nat \ {0}
      BY <1>1, <2>1
    <3>2. Serves(queue, PutSnapshot(queue, end, total), total, Messages)
      BY <1>1, <3>1, MessagesOK, PutSnapshotFacts
    <3>. QED
      BY <2>1, <3>2
  <2>2. CASE ~(total > 0)
    <3>1. total = 0 /\ drawn = queue
      BY <1>1, <2>2
    <3>2. queue.seq \in Nat /\ queue.pending \in Nat /\ queue.droppedBytes \in Nat
      BY <1>1, SoundParts, QueueFields
    <3>. QED
      BY <1>1, <3>1, <3>2 DEF Serves, Follows, Accounts
  <2>. QED
    BY <2>1, <2>2
<1>3. /\ repairs < MaxRepairs /\ repairs' = repairs + 1 /\ notices' = notices /\ end' = end
      /\ replay = None
      /\ Accept([after EXCEPT !.droppedEvents = 0], bytes)
      /\ replay' = None \/ (replay' = base /\ base < end)
  <2>1. CASE whole
    BY <2>1 DEF Resync, Repair, Call, Yielded
  <2>2. CASE ~whole
    BY <2>2 DEF Resync, Repair, Call, Yielded
  <2>. QED
    BY <2>1, <2>2
<1>. HIDE DEF drawn
<1>4. Serves(queue, after, bytes, Messages)
  <2>1. CASE whole
    BY <1>2, <2>1
  <2>2. CASE ~whole
    <3>1. Sound(drawn, Messages)
      BY <1>2 DEF Serves
    <3>2. Serves(drawn, Clear(drawn), ClearLen, Messages)
      BY <1>1, <3>1, MessagesOK, PutDataFacts DEF Clear, ClearLen, Kinds
    <3>3. Serves(queue, Clear(drawn), total + ClearLen, Messages)
      BY <1>1, <1>2, <3>2, ServesTransitive DEF ClearLen
    <3>. QED
      BY <2>2, <3>3
  <2>. QED
    BY <2>1, <2>2
<1>. HIDE DEF after, bytes
<1>5. /\ queue' \in Queues(Messages) /\ owed' \in Nat /\ lastOut' = lastOut
      /\ Sound(queue, Messages)' /\ OwedBalanced' /\ TakenInOrder'
      /\ Order!Accept
      /\ closed' = closed /\ writer' = writer /\ painting' = painting
      /\ awake' \in BOOLEAN /\ NoWakeUpLost'
  BY <1>1, <1>3, <1>4, AcceptKeeps
<1>6. TypeOK'
  <2>1. replay' \in 0 .. MaxEnd \cup {None}
    BY <1>1, <1>3, EnvironmentBounds
  <2>. QED
    BY <1>3, <1>5, <2>1, EnvironmentBounds DEF IInv, TypeOK
<1>7. ReplayOnStream'
  BY <1>3 DEF ReplayOnStream
<1>. QED
  BY <1>5, <1>6, <1>7 DEF Step, IInv, Order!Next

LEMMA ReplayFrameStep ==
  ASSUME IInv, NEW inside \in BOOLEAN, ReplayFrame(inside)
  PROVE  Step
<1>. DEFINE next == IF end - replay <= ReplayTarget THEN end ELSE replay + ReplayTarget
            len == next - replay
            after == PutData(queue, replay, len, "data", inside)
<1>1. end \in Nat /\ replay \in Nat /\ replay < end /\ end <= MaxEnd
  BY EnvironmentBounds DEF IInv, TypeOK, ReplayOnStream, ReplayFrame, None
<1>2. ReplayTarget \in Nat /\ ReplayTarget > 0
  BY EnvironmentBounds, QueueBounds DEF ReplayTarget
<1>3. len \in Nat /\ next \in Nat /\ next <= end
  BY <1>1, <1>2
<1>4. /\ Accept([after EXCEPT !.droppedEvents = 0], len)
      /\ replay' = (IF next = end THEN None ELSE next)
      /\ end' = end /\ repairs' = repairs /\ notices' = notices
  BY DEF ReplayFrame
<1>. HIDE DEF next, len
<1>5. Serves(queue, after, len, Messages)
  BY <1>1, <1>3, MessagesOK, PutDataFacts DEF IInv, Kinds
<1>. HIDE DEF after
<1>6. /\ queue' \in Queues(Messages) /\ owed' \in Nat /\ lastOut' = lastOut
      /\ Sound(queue, Messages)' /\ OwedBalanced' /\ TakenInOrder'
      /\ Order!Accept
      /\ closed' = closed /\ writer' = writer /\ painting' = painting
      /\ awake' \in BOOLEAN /\ NoWakeUpLost'
  BY <1>3, <1>4, <1>5, AcceptKeeps
<1>7. TypeOK'
  <2>1. replay' \in 0 .. MaxEnd \cup {None}
    BY <1>1, <1>3, <1>4, EnvironmentBounds
  <2>. QED
    BY <1>4, <1>6, <2>1, EnvironmentBounds DEF IInv, TypeOK
<1>8. ReplayOnStream'
  BY <1>1, <1>3, <1>4 DEF ReplayOnStream
<1>. QED
  BY <1>6, <1>7, <1>8 DEF Step, IInv, Order!Next

LEMMA ControlStep ==
  ASSUME IInv, Control
  PROVE  Step
<1>. DEFINE after == PutControl(queue, Notice)
<1>1. Serves(queue, after, 0, Messages)
  BY MessagesOK, PutMessage DEF IInv
<1>2. Accept([after EXCEPT !.droppedEvents = 0], 0) /\ replay = None /\ replay' = replay
      /\ notices < MaxNotices /\ notices' = notices + 1 /\ repairs' = repairs /\ end' = end
  BY DEF Control, Call, Yielded
<1>. HIDE DEF after
<1>3. /\ queue' \in Queues(Messages) /\ owed' \in Nat /\ lastOut' = lastOut
      /\ Sound(queue, Messages)' /\ OwedBalanced' /\ TakenInOrder'
      /\ Order!Accept
      /\ closed' = closed /\ writer' = writer /\ painting' = painting
      /\ awake' \in BOOLEAN /\ NoWakeUpLost'
  BY <1>1, <1>2, AcceptKeeps
<1>4. TypeOK'
  BY <1>2, <1>3, EnvironmentBounds DEF IInv, TypeOK
<1>5. ReplayOnStream'
  BY <1>2 DEF ReplayOnStream
<1>. QED
  BY <1>3, <1>4, <1>5 DEF Step, IInv, Order!Next

LEMMA MemoryLimitStep ==
  ASSUME IInv, NEW excess \in 1 .. MaxSnapshot, MemoryLimit(excess)
  PROVE  Step
<1>. DEFINE after == ShedOldest(queue, excess)
<1>1. excess \in Nat
  OBVIOUS
<1>2. Serves(queue, after, 0, Messages)
  BY <1>1, MessagesOK, ShedOldestFacts DEF IInv
<1>3. Accept([after EXCEPT !.droppedEvents = 0], 0) /\ replay = None /\ replay' = replay
      /\ repairs < MaxRepairs /\ repairs' = repairs + 1 /\ notices' = notices /\ end' = end
  BY DEF MemoryLimit, Repair, Call, Yielded
<1>. HIDE DEF after
<1>4. /\ queue' \in Queues(Messages) /\ owed' \in Nat /\ lastOut' = lastOut
      /\ Sound(queue, Messages)' /\ OwedBalanced' /\ TakenInOrder'
      /\ Order!Accept
      /\ closed' = closed /\ writer' = writer /\ painting' = painting
      /\ awake' \in BOOLEAN /\ NoWakeUpLost'
  BY <1>2, <1>3, AcceptKeeps
<1>5. TypeOK'
  BY <1>3, <1>4, EnvironmentBounds DEF IInv, TypeOK
<1>6. ReplayOnStream'
  BY <1>3 DEF ReplayOnStream
<1>. QED
  BY <1>4, <1>5, <1>6 DEF Step, IInv, Order!Next

LEMMA EvictStep ==
  ASSUME IInv, Evict
  PROVE  Step
<1>. DEFINE after == IF closed THEN queue ELSE PutControl(queue, Evicted)
<1>1. Serves(queue, after, 0, Messages)
  <2>1. queue.seq \in Nat /\ queue.pending \in Nat /\ queue.droppedBytes \in Nat
    BY QueueFields DEF IInv, TypeOK
  <2>2. Serves(queue, queue, 0, Messages)
    BY <2>1 DEF IInv, Serves, Follows, Accounts
  <2>3. Serves(queue, PutControl(queue, Evicted), 0, Messages)
    BY MessagesOK, PutMessage DEF IInv
  <2>. QED
    BY <2>2, <2>3
<1>2. /\ queue' = after /\ owed' = owed /\ lastOut' = lastOut
      /\ replay' = replay /\ closed' = TRUE /\ writer' = writer /\ painting' = painting
      /\ notices < MaxNotices /\ notices' = notices + 1 /\ repairs' = repairs /\ end' = end
      /\ awake' = TRUE
  BY DEF Evict, Closed
<1>. HIDE DEF after
<1>3. owed' = owed + 0
  BY <1>2 DEF IInv, TypeOK
<1>4. /\ queue' \in Queues(Messages) /\ owed' \in Nat
      /\ Sound(queue, Messages)' /\ OwedBalanced' /\ TakenInOrder'
      /\ Order!Accept
  BY <1>1, <1>2, <1>3, CallKeeps
<1>5. TypeOK'
  BY <1>2, <1>4, EnvironmentBounds DEF IInv, TypeOK
<1>6. ReplayOnStream'
  BY <1>2 DEF IInv, ReplayOnStream
<1>7. NoWakeUpLost'
  BY <1>2 DEF NoWakeUpLost
<1>. QED
  BY <1>4, <1>5, <1>6, <1>7 DEF Step, IInv, Order!Next

LEMMA WriterTakesStep ==
  ASSUME IInv, WriterTakes
  PROVE  Step
<1>. DEFINE item == NextItem(queue)
            after == TakeNext(queue)
            taken == IF BinaryFirst(queue) THEN item.len ELSE 0
<1>1. /\ queue' = after /\ owed' = owed - taken /\ lastOut' = item.order
      /\ painting' = Painting(item) /\ writer' = "sending"
      /\ end' = end /\ replay' = replay /\ closed' = closed /\ awake' = awake
      /\ repairs' = repairs /\ notices' = notices
  BY DEF WriterTakes
<1>2. /\ Sound(after, Messages) /\ after.seq = queue.seq
      /\ after.droppedBytes = queue.droppedBytes
      /\ item.order \in Waiters /\ item.order \in 1 .. queue.seq
      /\ \A o \in Waiters : item.order <= o
      /\ Orders(after.binary, after.control) = Waiters \ {item.order}
      /\ after.pending + taken = queue.pending
      /\ BinaryFirst(queue) => item.part \in Nat /\ item.len \in Nat
  <2>1. ~Drained(queue)
    BY DEF WriterTakes
  <2>2. Sound(queue, Messages) /\ item = NextItem(queue) /\ after = TakeNext(queue)
    BY DEF IInv
  <2>. HIDE DEF item, after
  <2>3. Took(queue, after, item, Messages)
    BY <2>1, <2>2, TakeNextFacts
  <2>. QED
    BY <2>3 DEF Took, Waiters
<1>. HIDE DEF item, after
<1>3. /\ queue.seq \in Nat /\ queue.pending \in Nat /\ queue.droppedBytes \in Nat
      /\ owed \in Nat /\ lastOut \in Nat
  BY QueueFields DEF IInv, TypeOK
<1>4. after \in Queues(Messages)
  BY <1>2, SoundParts
<1>5. after.pending \in Nat /\ taken \in Nat /\ item.order \in Nat
  <2>1. after.pending \in Nat
    BY <1>4, QueueFields
  <2>2. taken \in Nat
    BY <1>2
  <2>3. item.order \in Nat
    BY <1>2, <1>3
  <2>. QED
    BY <2>1, <2>2, <2>3
<1>. HIDE DEF taken
<1>6. OwedBalanced' /\ owed' \in Nat
  <2>1. owed = queue.pending + queue.droppedBytes
    BY DEF IInv, OwedBalanced
  <2>2. owed - taken = after.pending + queue.droppedBytes
    BY <1>2, <1>3, <1>5, <2>1
  <2>3. after.pending + queue.droppedBytes \in Nat
    BY <1>3, <1>5
  <2>. QED
    BY <1>1, <1>2, <2>2, <2>3 DEF OwedBalanced
<1>7. Waiters' = Waiters \ {item.order}
  BY <1>1, <1>2 DEF Waiters
<1>8. Waiters \subseteq Nat
  BY <1>3 DEF IInv, Sound, Ordered, Waiters, Orders
<1>9. TakenInOrder'
  <2>1. \A o \in Waiters \ {item.order} : item.order < o
    BY <1>2, <1>5, <1>8
  <2>2. item.order <= queue.seq
    BY <1>2, <1>3
  <2>. QED
    BY <1>1, <1>2, <1>7, <2>1, <2>2 DEF TakenInOrder
<1>10. painting' \in Nat \cup {None}
  BY <1>1, <1>2 DEF IInv, TypeOK, Painting
<1>11. TypeOK'
  BY <1>1, <1>4, <1>5, <1>6, <1>10 DEF IInv, TypeOK
<1>12. Order!Send
  <2>1. item.order > lastOut
    BY <1>2, <1>3, <1>5 DEF IInv, TakenInOrder
  <2>2. Waiters = {queue.binary[i].order : i \in DOMAIN queue.binary} \cup
                  {queue.control[i].order : i \in DOMAIN queue.control}
    BY OrdersByDomain DEF Waiters, IInv, TypeOK
  <2>3. Orders(after.binary, after.control) =
          {after.binary[i].order : i \in DOMAIN after.binary} \cup
          {after.control[i].order : i \in DOMAIN after.control}
    BY <1>4, OrdersByDomain
  <2>4. queue' = after /\ lastOut' = item.order
    BY <1>1
  <2>5. /\ item.order \in Waiters /\ \A o \in Waiters : item.order <= o
        /\ Orders(after.binary, after.control) = Waiters \ {item.order}
        /\ after.seq = queue.seq
    BY <1>2
  <2>. QED
    BY <2>1, <2>2, <2>3, <2>4, <2>5 DEF Order!Send
<1>13. Sound(queue, Messages)'
  BY <1>1, <1>2
<1>14. ReplayOnStream'
  BY <1>1 DEF IInv, ReplayOnStream
<1>15. NoWakeUpLost'
  BY <1>1 DEF NoWakeUpLost
<1>. QED
  BY <1>6, <1>9, <1>11, <1>12, <1>13, <1>14, <1>15 DEF Step, IInv, Order!Next

LEMMA WriterSentStep ==
  ASSUME IInv, WriterSent
  PROVE  Step
<1>. DEFINE after == AfterSend(queue)
<1>1. /\ queue' = after /\ owed' = owed /\ lastOut' = lastOut
      /\ writer' \in {"exited", "idle"} /\ replay' = replay /\ painting' = painting
      /\ end' = end /\ closed' = closed /\ awake' = awake
      /\ repairs' = repairs /\ notices' = notices
  BY DEF WriterSent
<1>2. Serves(queue, after, 0, Messages)
  BY AfterSendFacts DEF IInv
<1>. HIDE DEF after
<1>3. owed' = owed + 0
  BY <1>1 DEF IInv, TypeOK
<1>4. /\ queue' \in Queues(Messages) /\ owed' \in Nat
      /\ Sound(queue, Messages)' /\ OwedBalanced' /\ TakenInOrder'
      /\ Order!Accept
  BY <1>1, <1>2, <1>3, CallKeeps
<1>5. TypeOK'
  BY <1>1, <1>4 DEF IInv, TypeOK
<1>6. ReplayOnStream'
  BY <1>1 DEF IInv, ReplayOnStream
<1>7. NoWakeUpLost'
  BY <1>1 DEF NoWakeUpLost
<1>. QED
  BY <1>4, <1>5, <1>6, <1>7 DEF Step, IInv, Order!Next

\* The steps that leave the queue alone.
LEMMA OtherStep ==
  ASSUME IInv, Close \/ WriterFails \/ WriterRests \/ WriterWakes \/ UNCHANGED vars
  PROVE  Step
<1>1. /\ queue' = queue /\ owed' = owed /\ lastOut' = lastOut
      /\ end' = end /\ replay' = replay /\ painting' = painting
      /\ repairs' = repairs /\ notices' = notices
      /\ closed' \in {closed, TRUE} /\ awake' \in {awake, TRUE, FALSE}
      /\ writer' \in {writer, "idle", "waiting", "exited"}
  BY DEF Close, Closed, WriterFails, WriterRests, WriterWakes, vars
<1>2. TypeOK'
  BY <1>1 DEF IInv, TypeOK
<1>3. Sound(queue, Messages)' /\ OwedBalanced' /\ TakenInOrder' /\ ReplayOnStream'
  BY <1>1 DEF IInv, OwedBalanced, TakenInOrder, ReplayOnStream, Waiters
<1>4. NoWakeUpLost'
  <2>1. Drained(queue)' <=> Drained(queue)
    BY <1>1 DEF Drained
  <2>2. CASE Close
    BY <2>2 DEF Close, Closed, NoWakeUpLost
  <2>3. CASE WriterFails
    BY <2>3 DEF WriterFails, NoWakeUpLost
  <2>4. CASE WriterRests
    BY <2>1, <2>4 DEF WriterRests, NoWakeUpLost
  <2>5. CASE WriterWakes
    BY <2>5 DEF WriterWakes, NoWakeUpLost
  <2>6. CASE UNCHANGED vars
    BY <2>1, <2>6 DEF IInv, vars, NoWakeUpLost
  <2>. QED
    BY <2>2, <2>3, <2>4, <2>5, <2>6
<1>. QED
  BY <1>1, <1>2, <1>3, <1>4 DEF Step, IInv, Order!vars

\* Every step keeps the invariant and is a step of ArrivalOrder.
LEMMA NextStep ==
  ASSUME IInv, [Next]_vars
  PROVE  Step
<1>1. ASSUME NEW len \in 1 .. MaxFrame, NEW inside \in BOOLEAN, Broadcast(len, inside)
      PROVE  Step
  BY <1>1, BroadcastStep
<1>2. ASSUME NEW len \in 1 .. MaxFrame, NEW inside \in BOOLEAN, Repaint(len, inside)
      PROVE  Step
  BY <1>2, RepaintStep
<1>3. ASSUME NEW total \in 0 .. MaxSnapshot, NEW base \in 0 .. end, Resync(total, base)
      PROVE  Step
  BY <1>3, ResyncStep
<1>4. ASSUME NEW inside \in BOOLEAN, ReplayFrame(inside)
      PROVE  Step
  BY <1>4, ReplayFrameStep
<1>5. ASSUME Control PROVE Step
  BY <1>5, ControlStep
<1>6. ASSUME NEW excess \in 1 .. MaxSnapshot, MemoryLimit(excess)
      PROVE  Step
  BY <1>6, MemoryLimitStep
<1>7. ASSUME Evict PROVE Step
  BY <1>7, EvictStep
<1>8. ASSUME WriterTakes PROVE Step
  BY <1>8, WriterTakesStep
<1>9. ASSUME WriterSent PROVE Step
  BY <1>9, WriterSentStep
<1>10. ASSUME Close \/ WriterFails \/ WriterRests \/ WriterWakes \/ UNCHANGED vars
       PROVE  Step
  BY <1>10, OtherStep
<1>. QED
  BY <1>1, <1>2, <1>3, <1>4, <1>5, <1>6, <1>7, <1>8, <1>9, <1>10, Zenon DEF Next, Writer

\* The invariant holds of an empty connection.
LEMMA InitStep ==
  ASSUME Init
  PROVE  IInv /\ Order!Init
<1>1. /\ queue = Empty /\ end = 0 /\ replay = None /\ closed = FALSE
      /\ awake = FALSE /\ writer = "idle"
      /\ repairs = 0 /\ notices = 0 /\ owed = 0 /\ lastOut = 0 /\ painting = 0
  BY DEF Init
<1>2. /\ queue.binary = <<>> /\ queue.control = <<>> /\ queue.seq = 0
      /\ queue.pending = 0 /\ queue.droppedBytes = 0
      /\ queue.gapOpen = FALSE /\ queue.noticeOpen = FALSE
  BY <1>1 DEF Empty
<1>3. queue \in Queues(Messages)
  BY <1>1 DEF Queues, Empty
<1>4. Len(queue.binary) = 0 /\ Len(queue.control) = 0
  BY <1>2
<1>5. Marked(queue.binary) /\ Bytes(queue.binary) = 0
  BY <1>2, <1>4 DEF Marked, Bytes
<1>6. Ordered(queue.binary, queue.control, queue.seq)
  BY <1>4 DEF Ordered
<1>7. Budgeted(queue.binary, queue.control, queue.pending)
  BY <1>2, <1>4, QueueBounds DEF Budgeted
<1>8. \A type, open : OneReport(queue.control, type, open)
  BY <1>4 DEF OneReport, Reports
<1>9. Sound(queue, Messages)
  BY <1>2, <1>3, <1>5, <1>6, <1>7, <1>8 DEF Sound
<1>10. Waiters = {}
  BY <1>4 DEF Waiters, Orders
<1>11. TypeOK
  <2>1. /\ 0 \in 0 .. MaxEnd /\ 0 \in 0 .. MaxRepairs /\ 0 \in 0 .. MaxNotices
        /\ 0 \in Nat
    BY EnvironmentBounds
  <2>. QED
    BY <1>1, <1>3, <2>1, Zenon DEF TypeOK
<1>12. OwedBalanced /\ TakenInOrder /\ ReplayOnStream
  BY <1>1, <1>2, <1>10 DEF OwedBalanced, TakenInOrder, ReplayOnStream
<1>13. Order!Init
  BY <1>1, <1>2, <1>3, <1>10, OrdersByDomain DEF Order!Init, Waiters
<1>14. NoWakeUpLost
  BY <1>1 DEF NoWakeUpLost
<1>. QED
  BY <1>9, <1>11, <1>12, <1>13, <1>14 DEF IInv

-----------------------------------------------------------------------------
(***************************************************************************)
(* The theorems.                                                           *)
(***************************************************************************)
\* The inductive invariant holds of every behaviour of a connection.
THEOREM Invariant == Spec => []IInv
<1>1. Init => IInv
  BY InitStep
<1>2. IInv /\ [Next]_vars => IInv'
  BY NextStep DEF Step
<1>. QED
  BY <1>1, <1>2, PTL DEF Spec

\* Every variable of WsClient, and with it every frame that put_data queues,
\* keeps its type.
THEOREM TypeCorrect == Spec => []TypeOK
<1>1. IInv => TypeOK
  BY DEF IInv
<1>. QED
  BY <1>1, Invariant, PTL

\* A slow viewer's backlog stays within MAX_PENDING and MAX_CONTROL_PENDING, and
\* its bytes within max_bytes.
THEOREM MemoryBounded == Spec => []BacklogBounded
<1>1. IInv => BacklogBounded
  BY DEF IInv, Sound, Budgeted, BacklogBounded
<1>. QED
  BY <1>1, Invariant, PTL

\* pending_bytes is the size of what waits, and no byte is unaccounted for.
THEOREM EveryByteCounted == Spec => []BytesConserved
<1>1. IInv => BytesConserved
  BY DEF IInv, Sound, OwedBalanced, BytesConserved
<1>. QED
  BY <1>1, Invariant, PTL

\* A shedding storm is announced by at most one gap and one desync at a time.
THEOREM ReportedOnce == Spec => []OneReportPerBurst
<1>1. IInv => OneReportPerBurst
  <2>. SUFFICES ASSUME IInv, NEW type \in {"gap", "desync"}
                PROVE  \A i, j \in Waiting(type) : i = j
    BY DEF OneReportPerBurst
  <2>1. Waiting(type) = Reports(queue.control, type)
    <3>1. DOMAIN queue.control = 1 .. Len(queue.control)
      BY QueueFields DEF IInv, TypeOK
    <3>. QED
      BY <3>1 DEF Waiting, Reports
  <2>. QED
    BY <2>1 DEF IInv, Sound, OneReport
<1>. QED
  BY <1>1, Invariant, PTL

\* The writer never sleeps through a message or through close(): a writer that
\* waits for an event nobody has set has nothing left to send, and its client is
\* open.
THEOREM WriterNeverOversleeps == Spec => []NoWakeUpLost
<1>1. IInv => NoWakeUpLost
  BY DEF IInv
<1>. QED
  BY <1>1, Invariant, PTL

\* The two deques of WsClient implement the one queue they replaced.
THEOREM ArrivalOrderImplemented == Spec => ArrivalOrderKept
<1>1. Init => Order!Init
  BY InitStep
<1>2. IInv /\ [Next]_vars => [Order!Next]_Order!vars
  BY NextStep DEF Step
<1>. QED
  BY <1>1, <1>2, Invariant, PTL DEF Spec, ArrivalOrderKept, Order!Spec
=============================================================================
