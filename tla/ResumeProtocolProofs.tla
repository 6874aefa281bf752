------------------------- MODULE ResumeProtocolProofs -------------------------
(***************************************************************************)
(* The resume cursor and the persisted screen are true to the terminal for *)
(* every ring, every number of retries, bytes, generations and events.     *)
(*                                                                         *)
(* A frame can be on the link, in the write queue or painted when the      *)
(* cursor that rests on it is set, so the invariant speaks of the screen   *)
(* at every point of the pipeline: what it will show once the write queue  *)
(* and the first n messages of the link are through.                       *)
(*                                                                         *)
(* The last part shows that a pane which waits is never left with nothing  *)
(* to wait for.                                                            *)
(***************************************************************************)
EXTENDS ResumeProtocol, SequenceTheorems, TLAPS

\* The screen once the write queue and the first n messages are painted.
ScreenAt(n) == ScreenAfter(Eventual, down, n)

\* At that point nothing is missing below offset to.
WholeAt(n, to) == Bytes(stream.gen, stream.base, to) \subseteq ScreenAt(n)
WholeNow(to) == Bytes(stream.gen, stream.base, to) \subseteq Eventual

Last_(m) == m.type = "snapshot" /\ m.flag
Chunk(m) == m.type = "snapshot" /\ ~m.flag
\* A frame of this generation that will set the cursor.
ContentOf(gen, m) == m.gen = gen /\ (m.type = "data" \/ Last_(m))
Content(m) == ContentOf(stream.gen, m)
\* A message that tells of a loss, and one that says that it is repaired.
Announces(m) == m.type = "gap" \/ (m.type \in {"attached", "resynced"} /\ m.flag)
Settles(m) == m.type \in {"attached", "resynced"} /\ ~m.flag
Ends(m) == Resets(m) \/ Settles(m)

\* The browser waits for a repair that no snapshot in its write queue is:
\* each was begun before the loss was known.
LossKnown ==
  /\ sock.awaiting
  /\ \A k \in 1 .. Len(writes) :
       Last_(writes[k]) =>
         ~sock.pending \/ \E j \in k + 1 .. Len(writes) : writes[j].type = "snapshot"

\* At this point of the link a loss is known or will have been announced.
GapOpen(ms, n) == \E g \in 1 .. n : Announces(ms[g]) /\ \A i \in g + 1 .. n : ~Ends(ms[i])
Unended(ms, n) == \A i \in 1 .. n : ~Ends(ms[i])
LossAt(n) == GapOpen(down, n) \/ (LossKnown /\ Unended(down, n))

-----------------------------------------------------------------------------
\* What is under way: nothing without a connection; one attach, first of all.
LinkOK ==
  /\ stream.base <= stream.end
  /\ link # "open" => up = <<>> /\ ~serving
  /\ ~serving => down = <<>>
  /\ \A i \in 1 .. Len(up) : up[i].type = "attach" => i = 1 /\ ~serving
  /\ \A i \in 1 .. Len(down) : down[i].gen = stream.gen
  /\ \A i \in 1 .. Len(writes) : writes[i].gen <= stream.gen
  /\ sock.gen <= stream.gen /\ cache.gen <= stream.gen /\ origin \in None .. stream.gen

\* A frame that clears the screen has the end of its answer behind it, and
\* between a gap and an answer that settles it the screen is cleared.
AnswersOK ==
  /\ \A i \in 1 .. Len(down) : down[i].type \in {"clear", "snapshot"} =>
       \E r \in i + 1 .. Len(down) : down[r].type \in {"attached", "resynced"}
  /\ \A g, r \in 1 .. Len(down) :
       /\ g < r /\ down[g].type = "gap" /\ Settles(down[r])
       => \E i \in g + 1 .. r - 1 : Resets(down[i])

\* Offsets only grow along the cursor, the write queue and the link.
CursorSet == sock.last # None /\ origin = stream.gen
OriginOK == sock.last # None => origin = sock.gen \/ sock.gen = None
BoundsOK ==
  /\ CursorSet => sock.last <= stream.end
  /\ cache.gen = stream.gen => cache.last <= stream.end
WritesOrdered ==
  \A i \in 1 .. Len(writes) : Content(writes[i]) =>
    /\ writes[i].to <= stream.end
    /\ CursorSet => sock.last <= writes[i].to
    /\ \A j \in i + 1 .. Len(writes) : Content(writes[j]) => writes[i].to <= writes[j].to
    /\ \A j \in 1 .. Len(down) : Content(down[j]) => writes[i].to <= down[j].to
LinkOrdered ==
  \A i \in 1 .. Len(down) : Content(down[i]) =>
    /\ down[i].to <= stream.end
    /\ CursorSet => sock.last <= down[i].to
    /\ \A j \in i + 1 .. Len(down) : Content(down[j]) => down[i].to <= down[j].to
OrderOK == OriginOK /\ BoundsOK /\ WritesOrdered /\ LinkOrdered

\* A frame in the write queue is true once it is painted, or will not count.
QueueOK ==
  \A k \in 1 .. Len(writes) : Content(writes[k]) =>
    \/ \E j \in k + 1 .. Len(writes) : writes[j].type = "clear"
    \/ WholeNow(writes[k].to)
    \/ LossKnown

\* So is the cursor that the server will be asked to resume from.
AttachOK ==
  up # <<>> /\ Head(up).type = "attach" /\ Resumable(Head(up).last, Head(up).gen) =>
    WholeNow(Head(up).last)

\* The end of an answer vouches for every cursor set before it.
SettledOK ==
  \A r \in 1 .. Len(down) : Settles(down[r]) =>
    /\ CursorSet => WholeAt(r - 1, sock.last)
    /\ \A i \in 1 .. Len(writes) : Content(writes[i]) => WholeAt(r - 1, writes[i].to)
    /\ \A i \in 1 .. r - 1 : Content(down[i]) => WholeAt(r - 1, down[i].to)

\* A frame on the link joins on to the screen before it, or a loss is known;
\* so will the next one.
FramesOK ==
  \A n \in 1 .. Len(down) : down[n].type = "data" =>
    WholeAt(n - 1, down[n].from) \/ LossAt(n - 1)
NextOK == serving => WholeAt(Len(down), stream.end) \/ LossAt(Len(down))

CacheOK == Resumable(cache.last, cache.gen) =>
             Bytes(stream.gen, stream.base, cache.last) \subseteq cache.shown

Faithful ==
  /\ OrderOK /\ QueueOK /\ AttachOK /\ SettledOK /\ FramesOK /\ NextOK
  /\ Honest /\ CacheOK

IInv == TypeOK /\ LinkOK /\ (~skipped => AnswersOK /\ Faithful)

-----------------------------------------------------------------------------
(***************************************************************************)
(* Short sequences.                                                        *)
(***************************************************************************)
\* Names for tuples, which the provers match where they do not match tuples.
One(a) == <<a>>
Two(a, b) == <<a, b>>

LEMMA OneSeq ==
  ASSUME NEW a \in Messages
  PROVE  One(a) \in Seq(Messages) /\ Len(One(a)) = 1 /\ One(a)[1] = a
BY DEF One

LEMMA TwoSeq ==
  ASSUME NEW a \in Messages, NEW b \in Messages
  PROVE  /\ Two(a, b) \in Seq(Messages) /\ Len(Two(a, b)) = 2
         /\ Two(a, b)[1] = a /\ Two(a, b)[2] = b
BY DEF Two

\* One message behind a sequence.
Pushed(t, s, m) ==
  /\ t \in Seq(Messages) /\ Len(s) \in Nat /\ Len(t) = Len(s) + 1 /\ t[Len(s) + 1] = m
  /\ \A i \in 1 .. Len(s) : t[i] = s[i]

LEMMA SumOne ==
  ASSUME NEW s \in Seq(Messages), NEW m \in Messages
  PROVE  Pushed(s \o One(m), s, m) /\ Append(s, m) = s \o One(m)
<1>1. Append(s, m) = s \o One(m)
  BY DEF One
<1>2. Pushed(Append(s, m), s, m)
  BY DEF Pushed
<1> QED
  BY <1>1, <1>2

LEMMA AfterNone ==
  ASSUME NEW t, NEW z, Pushed(t, <<>>, z)
  PROVE  t \in Seq(Messages) /\ Len(t) = 1 /\ t[1] = z
BY DEF Pushed

LEMMA AfterOne ==
  ASSUME NEW t, NEW a \in Messages, NEW z, Pushed(t, One(a), z)
  PROVE  t \in Seq(Messages) /\ Len(t) = 2 /\ t[1] = a /\ t[2] = z
BY OneSeq DEF Pushed

LEMMA AfterTwo ==
  ASSUME NEW t, NEW a \in Messages, NEW b \in Messages, NEW z, Pushed(t, Two(a, b), z)
  PROVE  t \in Seq(Messages) /\ Len(t) = 3 /\ t[1] = a /\ t[2] = b /\ t[3] = z
<1> DEFINE h == Two(a, b)
<1>1. Len(h) = 2 /\ h[1] = a /\ h[2] = b
  BY TwoSeq
<1>2. Pushed(t, h, z)
  OBVIOUS
<1> HIDE DEF h
<1>3. t \in Seq(Messages) /\ Len(t) = 3 /\ t[3] = z /\ \A i \in 1 .. 2 : t[i] = h[i]
  BY ONLY <1>1, <1>2 DEF Pushed
<1>4. t[1] = h[1] /\ t[2] = h[2]
  BY ONLY <1>3
<1> QED
  BY <1>1, <1>3, <1>4

LEMMA SumTwo ==
  ASSUME NEW s \in Seq(Messages), NEW a \in Messages, NEW b \in Messages
  PROVE  Pushed(s \o Two(a, b), s \o One(a), b)
<1> DEFINE t == s \o One(a)
           u == s \o Two(a, b)
<1>1. Pushed(t, s, a)
  BY SumOne
<1>2. Two(a, b) \in Seq(Messages) /\ Len(Two(a, b)) = 2 /\ Two(a, b)[1] = a /\ Two(a, b)[2] = b
  BY TwoSeq
<1>3. /\ u \in Seq(Messages) /\ Len(u) = Len(s) + Len(Two(a, b))
      /\ \A i \in 1 .. Len(s) + Len(Two(a, b)) :
           u[i] = IF i <= Len(s) THEN s[i] ELSE Two(a, b)[i - Len(s)]
  BY <1>2, ConcatProperties
<1> DEFINE n == Len(s)
<1>4. n \in Nat
  OBVIOUS
<1> HIDE DEF t, u, n
<1>5. Len(u) = n + 2 /\ u[n + 1] = a /\ u[n + 2] = b /\ \A i \in 1 .. n : u[i] = s[i]
  BY <1>2, <1>3, <1>4 DEF n
<1>6. Len(t) = n + 1 /\ t[n + 1] = a /\ \A i \in 1 .. n : t[i] = s[i]
  BY <1>1 DEF Pushed, n
<1>7. \A i \in 1 .. n + 1 : u[i] = t[i]
  <2> SUFFICES ASSUME NEW i \in 1 .. n + 1 PROVE u[i] = t[i]
    OBVIOUS
  <2>1. i \in 1 .. n \/ i = n + 1
    BY <1>4
  <2> QED
    BY <1>5, <1>6, <2>1
<1>8. n + 1 + 1 = n + 2 /\ n + 1 \in Nat
  BY <1>4
<1>9. Pushed(u, t, b)
  BY <1>3, <1>5, <1>6, <1>7, <1>8 DEF Pushed
<1> QED
  BY <1>9 DEF t, u

LEMMA OneAndOne ==
  ASSUME NEW a \in Messages, NEW b \in Messages
  PROVE  One(a) \o One(b) = Two(a, b)
<1> DEFINE s == One(a)
           t == One(a) \o One(b)
           u == Two(a, b)
<1>1. Pushed(t, s, b) /\ Len(s) = 1 /\ s[1] = a
  BY OneSeq, SumOne
<1>2. u \in Seq(Messages) /\ Len(u) = 2 /\ u[1] = a /\ u[2] = b
  BY TwoSeq
<1> HIDE DEF s, t, u
<1>3. t \in Seq(Messages) /\ Len(t) = 2 /\ t[1] = a /\ t[2] = b
  BY <1>1 DEF Pushed
<1>4. \A i \in 1 .. Len(t) : t[i] = u[i]
  BY <1>2, <1>3
<1>5. t = u
  BY <1>2, <1>3, <1>4, SeqEqual
<1> QED
  BY <1>5 DEF t, u

\* A sequence that is another one with k messages behind it.
Extends(new, old, k) ==
  /\ new \in Seq(Messages) /\ Len(old) \in Nat /\ Len(new) = Len(old) + k
  /\ \A i \in 1 .. Len(old) : new[i] = old[i]

LEMMA PushedExtends ==
  ASSUME NEW t, NEW s, NEW m, Pushed(t, s, m)
  PROVE  Extends(t, s, 1) /\ t[Len(s) + 1] = m
BY DEF Pushed, Extends

LEMMA ExtendsMore ==
  ASSUME NEW u, NEW t, NEW s, NEW m, NEW k \in Nat, Extends(t, s, k), Pushed(u, t, m)
  PROVE  /\ Extends(u, s, k + 1) /\ u[Len(s) + (k + 1)] = m
         /\ \A i \in 1 .. Len(s) + k : u[i] = t[i]
<1> DEFINE n == Len(s)
<1>1. n \in Nat /\ Len(t) = n + k /\ \A i \in 1 .. n : t[i] = s[i]
  BY DEF Extends
<1> HIDE DEF n
<1>2. /\ u \in Seq(Messages) /\ Len(u) = n + k + 1 /\ u[n + k + 1] = m
      /\ \A i \in 1 .. n + k : u[i] = t[i]
  BY <1>1 DEF Pushed
<1>3. Len(u) = n + (k + 1) /\ u[n + (k + 1)] = m /\ \A i \in 1 .. n : u[i] = s[i]
  BY <1>1, <1>2
<1> QED
  BY <1>1, <1>2, <1>3 DEF Extends, n

-----------------------------------------------------------------------------
(***************************************************************************)
(* The methods of TerminalSocket.                                          *)
(***************************************************************************)
States == {"connecting", "connected", "resyncing", "disconnected", "failed", "exited"}
Clients == [sock : Sockets, state : States, link : {"none", "opening", "open"},
            up : Seq(Calls), down : Seq(Messages), serving : BOOLEAN]

SameCursor(c, d) ==
  /\ d.sock.last = c.sock.last /\ d.sock.gen = c.sock.gen
  /\ d.sock.awaiting = c.sock.awaiting /\ d.sock.pending = c.sock.pending
SameLink(c, d) ==
  d.link = c.link /\ d.up = c.up /\ d.down = c.down /\ d.serving = c.serving
Broken(d) == d.link # "open" /\ d.up = <<>> /\ d.down = <<>> /\ d.serving = FALSE
Linked(c, d) == SameLink(c, d) \/ Broken(d)

LEMMA ClientFields ==
  ASSUME NEW c \in Clients
  PROVE  /\ c.sock \in Sockets /\ c.state \in States /\ c.link \in {"none", "opening", "open"}
         /\ c.up \in Seq(Calls) /\ c.down \in Seq(Messages) /\ c.serving \in BOOLEAN
BY DEF Clients

LEMMA SocketFields ==
  ASSUME NEW s \in Sockets
  PROVE  /\ s.last \in Cursors /\ s.gen \in 0 .. MaxGen \cup {None}
         /\ s.awaiting \in BOOLEAN /\ s.pending \in BOOLEAN /\ s.attempts \in 0 .. MaxRetries
         /\ s.repairTimer \in BOOLEAN /\ s.retryTimer \in BOOLEAN /\ s.closed \in BOOLEAN
BY DEF Sockets

LEMMA ClientTyped ==
  ASSUME TypeOK
  PROVE  Client \in Clients
BY DEF TypeOK, Client, Clients, States

LEMMA BecomesTyped ==
  ASSUME NEW c \in Clients, Becomes(c)
  PROVE  /\ sock' \in Sockets /\ state' \in States /\ link' \in {"none", "opening", "open"}
         /\ up' \in Seq(Calls) /\ down' \in Seq(Messages) /\ serving' \in BOOLEAN
BY DEF Becomes, Clients

LEMMA UnlinkedFacts ==
  ASSUME NEW c \in Clients
  PROVE  /\ Unlinked(c) \in Clients /\ Broken(Unlinked(c))
         /\ Unlinked(c).sock = c.sock /\ Unlinked(c).link = "none"
         /\ Unlinked(c).state = c.state
<1>1. <<>> \in Seq(Calls) /\ <<>> \in Seq(Messages)
  BY EmptySeq
<1> QED
  BY <1>1 DEF Unlinked, Clients, Broken

LEMMA ConnectingFacts ==
  ASSUME NEW c \in Clients
  PROVE  /\ Connecting(c) \in Clients /\ Connecting(c).sock = c.sock
         /\ Connecting(c) = c \/ (Broken(Connecting(c)) /\ ~c.sock.closed)
         /\ ~c.sock.closed => Connecting(c).link = "opening"
BY UnlinkedFacts DEF Connecting, Clients, Broken, States

LEMMA ScheduleReconnectFacts ==
  ASSUME NEW c \in Clients
  PROVE  /\ ScheduleReconnect(c) \in Clients
         /\ SameCursor(c, ScheduleReconnect(c)) /\ SameLink(c, ScheduleReconnect(c))
BY DEF ScheduleReconnect, Clients, Sockets, SameCursor, SameLink

LEMMA RestartFacts ==
  ASSUME NEW c \in Clients
  PROVE  /\ Restart(c) \in Clients /\ SameCursor(c, Restart(c)) /\ Linked(c, Restart(c))
<1> DEFINE d == [Unlinked(c) EXCEPT !.state = "disconnected"]
<1>1. d \in Clients /\ d.sock = c.sock /\ Broken(d)
  BY UnlinkedFacts DEF Clients, Broken, States
<1> HIDE DEF d
<1>2. /\ ScheduleReconnect(d) \in Clients
      /\ SameCursor(d, ScheduleReconnect(d)) /\ SameLink(d, ScheduleReconnect(d))
  BY <1>1, ScheduleReconnectFacts
<1>3. Restart(c) = IF c.sock.closed THEN c ELSE ScheduleReconnect(d)
  BY DEF Restart, d
<1> QED
  BY <1>1, <1>2, <1>3 DEF SameCursor, SameLink, Linked, Broken

LEMMA ScheduleSnapshotRetryFacts ==
  ASSUME NEW c \in Clients
  PROVE  /\ ScheduleSnapshotRetry(c) \in Clients
         /\ SameCursor(c, ScheduleSnapshotRetry(c)) /\ Linked(c, ScheduleSnapshotRetry(c))
<1> DEFINE d == [c EXCEPT !.sock.attempts = @ + 1, !.sock.repairTimer = TRUE]
<1>1. CASE c.sock.closed \/ c.sock.repairTimer \/ ~c.sock.awaiting
  BY <1>1 DEF ScheduleSnapshotRetry, SameCursor, SameLink, Linked
<1>2. CASE ~(c.sock.closed \/ c.sock.repairTimer \/ ~c.sock.awaiting) /\ c.sock.attempts >= MaxRetries
  BY <1>2, RestartFacts DEF ScheduleSnapshotRetry
<1>3. CASE ~(c.sock.closed \/ c.sock.repairTimer \/ ~c.sock.awaiting) /\ ~(c.sock.attempts >= MaxRetries)
  <2>1. c.sock.attempts + 1 \in 0 .. MaxRetries
    BY <1>3, ClientFields, SocketFields, ResumeBounds
  <2>2. ScheduleSnapshotRetry(c) = d
    BY <1>3 DEF ScheduleSnapshotRetry
  <2>3. d \in Clients /\ SameCursor(c, d) /\ SameLink(c, d)
    BY <2>1 DEF Clients, Sockets, SameCursor, SameLink
  <2> QED
    BY <2>2, <2>3 DEF Linked
<1> QED
  BY <1>1, <1>2, <1>3

\* A request goes out on an open link; a retry too many restarts it.
Asked(c, d) ==
  /\ d.sock.last = c.sock.last /\ d.sock.gen = c.sock.gen /\ d.sock.pending = c.sock.pending
  /\ c.sock.awaiting => d.sock.awaiting
  /\ \/ Linked(c, d)
     \/ /\ c.link = "open" /\ d.link = c.link /\ d.down = c.down /\ d.serving = c.serving
        /\ \E call \in Calls : call.type = "request" /\ d.up = Append(c.up, call)

LEMMA RequestSnapshotFacts ==
  ASSUME NEW c \in Clients
  PROVE  RequestSnapshot(c) \in Clients /\ Asked(c, RequestSnapshot(c))
<1> DEFINE call == [type |-> "request", last |-> c.sock.last, gen |-> None]
           d == [c EXCEPT !.sock.awaiting = TRUE, !.state = "resyncing",
                          !.up = IF c.link = "open" THEN Append(@, call) ELSE @]
<1>1. call \in Calls /\ call.type = "request"
  BY ClientFields, SocketFields DEF Calls
<1> HIDE DEF call
<1>a. Append(c.up, call) \in Seq(Calls)
  BY <1>1, ClientFields
<1> DEFINE out == IF c.link = "open" THEN Append(c.up, call) ELSE c.up
<1>b. /\ out \in Seq(Calls)
      /\ d = [c EXCEPT !.sock = [c.sock EXCEPT !.awaiting = TRUE], !.state = "resyncing",
                       !.up = out]
  BY <1>a, ClientFields DEF Clients
<1>c. [c.sock EXCEPT !.awaiting = TRUE] \in Sockets
  BY ClientFields DEF Sockets
<1>d. out = IF c.link = "open" THEN Append(c.up, call) ELSE c.up
  OBVIOUS
<1> HIDE DEF out
<1>2. /\ d \in Clients /\ d.link = c.link /\ d.down = c.down /\ d.serving = c.serving
      /\ d.sock.last = c.sock.last /\ d.sock.gen = c.sock.gen
      /\ d.sock.pending = c.sock.pending /\ d.sock.awaiting
      /\ d.up = IF c.link = "open" THEN Append(c.up, call) ELSE c.up
  BY <1>b, <1>c, <1>d DEF Clients, Sockets, States
<1>3. RequestSnapshot(c) = IF c.sock.closed THEN c ELSE ScheduleSnapshotRetry(d)
  BY DEF RequestSnapshot, call, d
<1> HIDE DEF d
<1>4. /\ ScheduleSnapshotRetry(d) \in Clients
      /\ SameCursor(d, ScheduleSnapshotRetry(d)) /\ Linked(d, ScheduleSnapshotRetry(d))
  BY <1>2, ScheduleSnapshotRetryFacts
<1>5. CASE c.sock.closed
  BY <1>3, <1>5 DEF Asked, Linked, SameLink
<1>6. CASE ~c.sock.closed
  <2>1. RequestSnapshot(c) = ScheduleSnapshotRetry(d)
    BY <1>3, <1>6
  <2>2. CASE Broken(ScheduleSnapshotRetry(d))
    BY <1>2, <1>4, <2>1, <2>2 DEF Asked, Linked, SameCursor
  <2>3. CASE SameLink(d, ScheduleSnapshotRetry(d))
    BY <1>1, <1>2, <1>4, <2>1, <2>3 DEF Asked, Linked, SameLink, SameCursor
  <2> QED
    BY <1>4, <2>2, <2>3 DEF Linked
<1> QED
  BY <1>5, <1>6

\* The request and the retry that is armed with it.
LEMMA RetriedFacts ==
  ASSUME NEW c \in Clients
  PROVE  /\ ScheduleSnapshotRetry(RequestSnapshot(c)) \in Clients
         /\ Asked(c, ScheduleSnapshotRetry(RequestSnapshot(c)))
<1> DEFINE d == RequestSnapshot(c)
           e == ScheduleSnapshotRetry(d)
<1>1. d \in Clients /\ Asked(c, d)
  BY RequestSnapshotFacts
<1> HIDE DEF d
<1>2. e \in Clients /\ SameCursor(d, e) /\ Linked(d, e)
  BY <1>1, ScheduleSnapshotRetryFacts
<1> HIDE DEF e
<1>3. Asked(c, e)
  BY <1>1, <1>2 DEF Asked, SameCursor, Linked, SameLink, Broken
<1> QED
  BY <1>2, <1>3 DEF d, e
-----------------------------------------------------------------------------
(***************************************************************************)
(* What the browser's actions come to.                                     *)
(***************************************************************************)
\* A change of the client's values that paints and receives nothing.
Elsewhere ==
  /\ stream' = stream /\ writes' = writes /\ shown' = shown /\ cache' = cache
  /\ origin' = origin

\* The links as Asked leaves them, from the given messages on the way.
Keeps(rest) ==
  \/ up' = up /\ down' = rest /\ serving' = serving /\ link' = link
  \/ up' = <<>> /\ down' = <<>> /\ serving' = FALSE /\ link' # "open"
  \/ /\ link = "open" /\ link' = link /\ down' = rest /\ serving' = serving
     /\ \E call \in Calls : call.type = "request" /\ up' = Append(up, call)

\* Timers, breaks and repairs asked for.
Idles ==
  /\ Elsewhere /\ skipped' = skipped /\ Keeps(down)
  /\ sock'.last = sock.last /\ sock'.gen = sock.gen /\ sock'.pending = sock.pending
  /\ sock.awaiting => sock'.awaiting

LEMMA AskedKeeps ==
  ASSUME NEW c \in Clients, NEW d \in Clients, Asked(c, d), Becomes(d),
         c.up = up, c.serving = serving, c.link = link
  PROVE  Keeps(c.down)
BY DEF Asked, Becomes, Linked, SameLink, Broken, Keeps

LEMMA AskedIdles ==
  ASSUME NEW d \in Clients, NEW c \in Clients, SameCursor(Client, c), SameLink(Client, c),
         Asked(c, d), Becomes(d), Elsewhere, skipped' = skipped
  PROVE  Idles
<1>1. /\ c.up = up /\ c.serving = serving /\ c.link = link /\ c.down = down
      /\ c.sock.last = sock.last /\ c.sock.gen = sock.gen /\ c.sock.awaiting = sock.awaiting
      /\ c.sock.pending = sock.pending
  BY DEF SameCursor, SameLink, Client
<1>2. Keeps(down)
  BY <1>1, AskedKeeps
<1>3. sock' = d.sock
  BY DEF Becomes
<1> QED
  BY <1>1, <1>2, <1>3 DEF Idles, Asked

LEMMA SameIsAsked ==
  ASSUME NEW c \in Clients, NEW d \in Clients, SameCursor(c, d), Linked(c, d)
  PROVE  Asked(c, d)
BY DEF SameCursor, Asked

LEMMA EventsTyped ==
  ASSUME TypeOK, Happens \/ events' = events \/ Due
  PROVE  events' \in 0 .. MaxEvents
BY ResumeBounds DEF TypeOK, Happens, Due

\* The rest of the type invariant, when nothing else changes.
LEMMA ElsewhereTyped ==
  ASSUME TypeOK, NEW d \in Clients, Becomes(d), stream' = stream,
         writes' \in Seq(Messages), desync' \in BOOLEAN, skipped' \in BOOLEAN,
         shown' \in SUBSET ((0 .. MaxGen) \X (0 .. MaxEnd - 1)), cache' \in Screens,
         Happens \/ events' = events \/ Due
  PROVE  TypeOK'
<1>1. /\ sock' \in Sockets /\ state' \in States /\ link' \in {"none", "opening", "open"}
      /\ up' \in Seq(Calls) /\ down' \in Seq(Messages) /\ serving' \in BOOLEAN
  BY BecomesTyped
<1>2. events' \in 0 .. MaxEvents
  BY EventsTyped
<1> QED
  BY <1>1, <1>2 DEF TypeOK, States

LEMMA IdleStep ==
  ASSUME TypeOK,
         \/ \E fatal \in BOOLEAN : LinkBreaks(fatal)
         \/ Reconnect \/ SnapshotTimer \/ LivenessCheck \/ Unresponsive \/ AskForSnapshot
  PROVE  Idles /\ TypeOK'
<1>0. Client \in Clients /\ Client.sock = sock /\ SameCursor(Client, Client)
      /\ SameLink(Client, Client)
  BY ClientTyped DEF Client, SameCursor, SameLink
<1> SUFFICES ASSUME NEW c \in Clients, NEW d \in Clients, SameCursor(Client, c),
                    SameLink(Client, c), Asked(c, d), Becomes(d),
                    UNCHANGED <<stream, writes, shown, desync, cache, origin, skipped>>,
                    Happens \/ events' = events \/ Due
             PROVE  Idles /\ TypeOK'
  <2>1. CASE \E fatal \in BOOLEAN : LinkBreaks(fatal)
    <3>1. PICK fatal \in BOOLEAN : LinkBreaks(fatal)
      BY <2>1
    <3> DEFINE f == [Unlinked(Client) EXCEPT !.state = "failed"]
               g == [Unlinked(Client) EXCEPT !.state = "disconnected"]
               d == IF fatal THEN f ELSE ScheduleReconnect(g)
    <3>2. /\ f \in Clients /\ f.sock = sock /\ Broken(f)
          /\ g \in Clients /\ g.sock = sock /\ Broken(g)
      BY <1>0, UnlinkedFacts DEF Clients, Broken, States
    <3> HIDE DEF f, g
    <3>3. /\ ScheduleReconnect(g) \in Clients /\ SameCursor(g, ScheduleReconnect(g))
          /\ SameLink(g, ScheduleReconnect(g))
      BY <3>2, ScheduleReconnectFacts
    <3>4. d \in Clients /\ SameCursor(Client, d) /\ Broken(d)
      BY <3>2, <3>3, <1>0 DEF SameCursor, SameLink, Broken
    <3>5. Becomes(d) /\ Happens
          /\ UNCHANGED <<stream, writes, shown, desync, cache, origin, skipped>>
      BY <3>1 DEF LinkBreaks, f, g
    <3> HIDE DEF d
    <3>6. Asked(Client, d)
      BY <3>4, <1>0, SameIsAsked DEF Linked
    <3> QED
      BY <3>4, <3>5, <3>6, <1>0
  <2>2. CASE Reconnect
    <3> DEFINE c == [Client EXCEPT !.sock.retryTimer = FALSE]
               d == Connecting(c)
    <3>1. c \in Clients /\ SameCursor(Client, c) /\ SameLink(Client, c)
      BY <1>0 DEF Clients, Sockets, SameCursor, SameLink
    <3>2. Becomes(d) /\ UNCHANGED <<stream, writes, shown, desync, cache, events, origin, skipped>>
      BY <2>2 DEF Reconnect
    <3> HIDE DEF c
    <3>3. d \in Clients /\ SameCursor(c, d) /\ Linked(c, d)
      BY <3>1, ConnectingFacts DEF SameCursor, Linked, SameLink
    <3> HIDE DEF d
    <3>4. Asked(c, d)
      BY <3>1, <3>3, SameIsAsked
    <3> QED
      BY <3>1, <3>2, <3>3, <3>4
  <2>3. CASE SnapshotTimer
    <3> DEFINE c == [Client EXCEPT !.sock.repairTimer = FALSE]
               d == IF sock.closed \/ ~sock.awaiting THEN c
                    ELSE ScheduleSnapshotRetry(RequestSnapshot(c))
    <3>1. c \in Clients /\ SameCursor(Client, c) /\ SameLink(Client, c)
      BY <1>0 DEF Clients, Sockets, SameCursor, SameLink
    <3>2. Becomes(d) /\ Due /\ UNCHANGED <<stream, writes, shown, desync, cache, origin, skipped>>
      BY <2>3 DEF SnapshotTimer
    <3> HIDE DEF c
    <3>3. d \in Clients /\ Asked(c, d)
      BY <3>1, RetriedFacts DEF Asked, Linked, SameLink
    <3> HIDE DEF d
    <3> QED
      BY <3>1, <3>2, <3>3
  <2>4. CASE LivenessCheck \/ AskForSnapshot
    <3>1. /\ Becomes(RequestSnapshot(Client)) /\ (Due \/ Happens)
          /\ UNCHANGED <<stream, writes, shown, desync, cache, origin, skipped>>
      BY <2>4 DEF LivenessCheck, AskForSnapshot
    <3>2. RequestSnapshot(Client) \in Clients /\ Asked(Client, RequestSnapshot(Client))
      BY <1>0, RequestSnapshotFacts
    <3> QED
      BY <1>0, <3>1, <3>2
  <2>5. CASE Unresponsive
    <3>1. /\ Becomes(Restart(Client)) /\ Happens
          /\ UNCHANGED <<stream, writes, shown, desync, cache, origin, skipped>>
      BY <2>5 DEF Unresponsive
    <3>2. Restart(Client) \in Clients /\ Asked(Client, Restart(Client))
      BY <1>0, RestartFacts, SameIsAsked
    <3> QED
      BY <1>0, <3>1, <3>2
  <2> QED
    BY <2>1, <2>2, <2>3, <2>4, <2>5
<1>1. Idles
  BY AskedIdles DEF Elsewhere
<1>2. TypeOK'
  BY ElsewhereTyped DEF TypeOK
<1> QED
  BY <1>1, <1>2
-----------------------------------------------------------------------------
\* A control message is received: it leaves the link and acts at once.
Drops ==
  /\ Elsewhere /\ (skipped => skipped')
  /\ down # <<>> /\ ~Terminal(Head(down))
  /\ Keeps(Tail(down)) /\ link = "open" /\ sock'.last = sock.last
  /\ sock'.gen = IF Head(down).type = "attached" THEN Head(down).gen ELSE sock.gen
  /\ Head(down).type = "attached" /\ sock.last # None /\ origin # Head(down).gen => skipped'
  /\ IF Settles(Head(down))
     THEN /\ sock'.pending = sock.pending
          /\ sock'.awaiting = sock.awaiting \/ (~sock.pending /\ ~sock'.awaiting)
     ELSE \/ sock'.awaiting /\ ~sock'.pending
          \/ /\ ~Announces(Head(down))
             /\ sock'.pending = sock.pending /\ sock'.awaiting = sock.awaiting

LEMMA ReceivedTyped ==
  ASSUME TypeOK, down # <<>>
  PROVE  /\ Received \in Clients /\ Received.sock = sock /\ Received.down = Tail(down)
         /\ Received.up = up /\ Received.serving = serving /\ Received.link = link
         /\ Received.state = state /\ Head(down) \in Messages
<1>1. Tail(down) \in Seq(Messages) /\ Head(down) \in Messages
  BY HeadTailProperties DEF TypeOK
<1> QED
  BY <1>1, ClientTyped DEF Received, Client, Clients

LEMMA RepairFacts ==
  ASSUME NEW c \in Clients
  PROVE  /\ Repair(c) \in Clients
         /\ Repair(c).sock.last = c.sock.last /\ Repair(c).sock.gen = c.sock.gen
         /\ Repair(c).sock.awaiting /\ ~Repair(c).sock.pending
         /\ \A rest : rest = c.down /\ c.up = up /\ c.serving = serving /\ c.link = link
              /\ Becomes(Repair(c)) => Keeps(rest)
<1> DEFINE b == [c EXCEPT !.sock.awaiting = TRUE, !.sock.pending = FALSE]
           d == ScheduleSnapshotRetry(RequestSnapshot(b))
<1>1. /\ b \in Clients /\ b.sock.last = c.sock.last /\ b.sock.gen = c.sock.gen
      /\ b.sock.awaiting /\ ~b.sock.pending
      /\ b.down = c.down /\ b.up = c.up /\ b.serving = c.serving /\ b.link = c.link
  BY DEF Clients, Sockets
<1>2. Repair(c) = d
  BY DEF Repair
<1> HIDE DEF b
<1>3. d \in Clients /\ Asked(b, d)
  BY <1>1, RetriedFacts
<1> HIDE DEF d
<1>4. c.down = b.down /\ c.up = up /\ c.serving = serving /\ c.link = link /\ Becomes(d)
      => Keeps(b.down)
  BY <1>1, <1>3, AskedKeeps
<1> QED
  BY <1>1, <1>2, <1>3, <1>4 DEF Asked

LEMMA WholeFacts ==
  ASSUME NEW c \in Clients
  PROVE  /\ Whole(c) \in Clients /\ SameLink(c, Whole(c))
         /\ Whole(c).sock.last = c.sock.last /\ Whole(c).sock.gen = c.sock.gen
         /\ Whole(c).sock.pending = c.sock.pending
         /\ \/ Whole(c).sock.awaiting = c.sock.awaiting
            \/ ~c.sock.pending /\ ~Whole(c).sock.awaiting
<1>1. CASE c.sock.pending
  BY <1>1 DEF Whole, SameLink
<1>2. CASE ~c.sock.pending
  <2>1. 0 \in 0 .. MaxRetries
    BY ResumeBounds
  <2> DEFINE s == ResetSnapshotRepair([c.sock EXCEPT !.awaiting = FALSE])
  <2>2. /\ s \in Sockets /\ s.last = c.sock.last /\ s.gen = c.sock.gen
        /\ s.pending = c.sock.pending /\ ~s.awaiting
    BY <2>1 DEF ResetSnapshotRepair, Sockets, Clients
  <2>3. Whole(c) = [c EXCEPT !.sock = s, !.state = "connected"]
    BY <1>2 DEF Whole, Clients
  <2> HIDE DEF s
  <2> QED
    BY <1>2, <2>2, <2>3 DEF Clients, SameLink, States
<1> QED
  BY <1>1, <1>2

LEMMA DropStep ==
  ASSUME TypeOK,
         \/ ReceiveGap \/ ReceiveAttached \/ ReceiveBegin
         \/ ReceiveResynced \/ ReceiveRejected \/ ReceiveExit
  PROVE  Drops /\ TypeOK'
<1>0. down # <<>> /\ link = "open"
  BY DEF Incoming, ReceiveGap, ReceiveAttached, ReceiveBegin, ReceiveResynced,
         ReceiveRejected, ReceiveExit
<1>1. /\ Received \in Clients /\ Received.sock = sock /\ Received.down = Tail(down)
      /\ Received.up = up /\ Received.serving = serving /\ Received.link = link
      /\ Received.state = state /\ Head(down) \in Messages
      /\ Head(down).gen \in 0 .. MaxGen /\ Head(down).flag \in BOOLEAN
  BY <1>0, ReceivedTyped DEF Messages
<1>t. ASSUME NEW d \in Clients, Becomes(d), events' = events, stream' = stream,
             writes' = writes, shown' = shown, cache' = cache, desync' \in BOOLEAN,
             skipped' \in BOOLEAN
      PROVE  TypeOK'
  BY <1>t, ElsewhereTyped DEF TypeOK
<1>2. CASE ReceiveGap
  <2>1. /\ Becomes(Repair(Received)) /\ Head(down).type = "gap" /\ desync' = TRUE
        /\ UNCHANGED <<stream, writes, shown, cache, events, origin, skipped>>
    BY <1>2 DEF ReceiveGap, Incoming
  <2>2. /\ Repair(Received) \in Clients /\ Repair(Received).sock.last = sock.last
        /\ Repair(Received).sock.gen = sock.gen /\ Repair(Received).sock.awaiting
        /\ ~Repair(Received).sock.pending /\ Keeps(Tail(down))
    BY <1>1, <2>1, RepairFacts
  <2>3. TypeOK'
    BY <2>1, <2>2, <1>t DEF TypeOK
  <2>4. sock' = Repair(Received).sock
    BY <2>1 DEF Becomes
  <2> QED
    BY <1>0, <2>1, <2>2, <2>3, <2>4 DEF Drops, Elsewhere, Settles, Terminal
<1>3. CASE ReceiveAttached
  <2> DEFINE named == [Received EXCEPT !.sock.gen = Head(down).gen]
  <2>1. /\ Becomes(IF Head(down).flag THEN Repair(named) ELSE Whole(named))
        /\ Head(down).type = "attached"
        /\ skipped' = (skipped \/ (sock.last # None /\ origin # Head(down).gen))
        /\ UNCHANGED <<stream, writes, shown, desync, cache, events, origin>>
    BY <1>3 DEF ReceiveAttached, Incoming
  <2>2. /\ named \in Clients /\ named.sock.last = sock.last /\ named.sock.gen = Head(down).gen
        /\ named.sock.awaiting = sock.awaiting /\ named.sock.pending = sock.pending
        /\ named.down = Tail(down) /\ named.up = up /\ named.serving = serving
        /\ named.link = link
    BY <1>1 DEF Clients, Sockets
  <2> HIDE DEF named
  <2>a. skipped' \in BOOLEAN /\ desync' \in BOOLEAN
    BY <2>1 DEF TypeOK
  <2>3. CASE Head(down).flag
    <3>1. Becomes(Repair(named))
      BY <2>1, <2>3
    <3>2. /\ Repair(named) \in Clients /\ Repair(named).sock.last = sock.last
          /\ Repair(named).sock.gen = Head(down).gen /\ Repair(named).sock.awaiting
          /\ ~Repair(named).sock.pending /\ Keeps(Tail(down))
      BY <2>2, <3>1, RepairFacts
    <3>3. TypeOK'
      BY <2>1, <2>a, <3>1, <3>2, <1>t
    <3>4. sock' = Repair(named).sock
      BY <3>1 DEF Becomes
    <3> QED
      BY <1>0, <2>1, <2>3, <3>2, <3>3, <3>4 DEF Drops, Elsewhere, Settles, Terminal
  <2>4. CASE ~Head(down).flag
    <3>1. Becomes(Whole(named))
      BY <2>1, <2>4
    <3>2. /\ Whole(named) \in Clients /\ SameLink(named, Whole(named))
          /\ Whole(named).sock.last = sock.last
          /\ Whole(named).sock.gen = Head(down).gen
          /\ Whole(named).sock.pending = sock.pending
          /\ \/ Whole(named).sock.awaiting = sock.awaiting
             \/ ~sock.pending /\ ~Whole(named).sock.awaiting
      BY <2>2, WholeFacts
    <3>3. TypeOK'
      BY <2>1, <2>a, <3>1, <3>2, <1>t
    <3>4. sock' = Whole(named).sock /\ Keeps(Tail(down))
      BY <2>2, <3>1, <3>2 DEF Becomes, SameLink, Keeps
    <3> QED
      BY <1>0, <2>1, <2>4, <3>2, <3>3, <3>4 DEF Drops, Elsewhere, Settles, Terminal
  <2> QED
    BY <1>1, <2>3, <2>4
<1>4. CASE ReceiveBegin
  <2> DEFINE d == [Received EXCEPT !.sock.awaiting = TRUE, !.sock.pending = FALSE,
                              !.state = "resyncing"]
  <2>1. /\ Becomes(d) /\ Head(down).type = "begin"
        /\ UNCHANGED <<stream, writes, shown, desync, cache, events, origin, skipped>>
    BY <1>4 DEF ReceiveBegin, Incoming
  <2>2. /\ d \in Clients /\ SameLink(Received, d) /\ d.sock.last = sock.last
        /\ d.sock.gen = sock.gen /\ d.sock.awaiting /\ ~d.sock.pending
    BY <1>1 DEF Clients, Sockets, States, SameLink
  <2> HIDE DEF d
  <2>3. TypeOK'
    BY <2>1, <2>2, <1>t DEF TypeOK
  <2>4. sock' = d.sock /\ Keeps(Tail(down))
    BY <1>1, <2>1, <2>2 DEF Becomes, SameLink, Keeps
  <2> QED
    BY <1>0, <2>1, <2>2, <2>3, <2>4 DEF Drops, Elsewhere, Settles, Terminal
<1>5. CASE ReceiveResynced
  <2>1. /\ Becomes(IF Head(down).flag THEN Repair(Received) ELSE Whole(Received))
        /\ Head(down).type = "resynced" /\ desync' = (desync /\ Head(down).flag)
        /\ UNCHANGED <<stream, writes, shown, cache, events, origin, skipped>>
    BY <1>5 DEF ReceiveResynced, Incoming
  <2>a. skipped' \in BOOLEAN /\ desync' \in BOOLEAN
    BY <1>1, <2>1 DEF TypeOK
  <2>3. CASE Head(down).flag
    <3>1. Becomes(Repair(Received))
      BY <2>1, <2>3
    <3>2. /\ Repair(Received) \in Clients /\ Repair(Received).sock.last = sock.last
          /\ Repair(Received).sock.gen = sock.gen /\ Repair(Received).sock.awaiting
          /\ ~Repair(Received).sock.pending /\ Keeps(Tail(down))
      BY <1>1, <3>1, RepairFacts
    <3>3. TypeOK'
      BY <2>1, <2>a, <3>1, <3>2, <1>t
    <3>4. sock' = Repair(Received).sock
      BY <3>1 DEF Becomes
    <3> QED
      BY <1>0, <2>1, <2>3, <3>2, <3>3, <3>4 DEF Drops, Elsewhere, Settles, Terminal
  <2>4. CASE ~Head(down).flag
    <3>1. Becomes(Whole(Received))
      BY <2>1, <2>4
    <3>2. /\ Whole(Received) \in Clients /\ SameLink(Received, Whole(Received))
          /\ Whole(Received).sock.last = sock.last
          /\ Whole(Received).sock.gen = sock.gen
          /\ Whole(Received).sock.pending = sock.pending
          /\ \/ Whole(Received).sock.awaiting = sock.awaiting
             \/ ~sock.pending /\ ~Whole(Received).sock.awaiting
      BY <1>1, WholeFacts
    <3>3. TypeOK'
      BY <2>1, <2>a, <3>1, <3>2, <1>t
    <3>4. sock' = Whole(Received).sock /\ Keeps(Tail(down))
      BY <1>1, <3>1, <3>2 DEF Becomes, SameLink, Keeps
    <3> QED
      BY <1>0, <2>1, <2>4, <3>2, <3>3, <3>4 DEF Drops, Elsewhere, Settles, Terminal
  <2> QED
    BY <1>1, <2>3, <2>4
<1>6. CASE ReceiveRejected
  <2> DEFINE c == [Received EXCEPT !.state = IF sock.awaiting THEN "resyncing" ELSE "connected"]
             d == ScheduleSnapshotRetry(c)
  <2>1. /\ Becomes(d) /\ Head(down).type = "rejected"
        /\ UNCHANGED <<stream, writes, shown, desync, cache, events, origin, skipped>>
    BY <1>6 DEF ReceiveRejected, Incoming
  <2>2. /\ c \in Clients /\ c.sock = sock /\ c.down = Tail(down) /\ c.up = up
        /\ c.serving = serving /\ c.link = link
    BY <1>1 DEF Clients, States
  <2> HIDE DEF c
  <2>3. d \in Clients /\ SameCursor(c, d) /\ Linked(c, d)
    BY <2>2, ScheduleSnapshotRetryFacts
  <2> HIDE DEF d
  <2>4. TypeOK'
    BY <2>1, <2>3, <1>t DEF TypeOK
  <2>5. sock' = d.sock /\ Keeps(Tail(down))
    BY <2>1, <2>2, <2>3, SameIsAsked, AskedKeeps DEF Becomes
  <2> QED
    BY <1>0, <2>1, <2>2, <2>3, <2>4, <2>5
       DEF Drops, Elsewhere, Settles, Terminal, SameCursor, Announces
<1>7. CASE ReceiveExit
  <2> DEFINE d == [Unlinked(Client) EXCEPT !.sock.closed = TRUE, !.state = "exited"]
  <2>1. /\ Becomes(d) /\ Head(down).type = "exit"
        /\ UNCHANGED <<stream, writes, shown, desync, cache, events, origin, skipped>>
    BY <1>7 DEF ReceiveExit, Incoming
  <2>2. /\ Client \in Clients /\ Client.sock = sock
    BY ClientTyped DEF Client
  <2>3. /\ d \in Clients /\ Broken(d) /\ d.sock.last = sock.last /\ d.sock.gen = sock.gen
        /\ d.sock.awaiting = sock.awaiting /\ d.sock.pending = sock.pending
    BY <2>2, UnlinkedFacts DEF Clients, Sockets, Broken, States
  <2> HIDE DEF d
  <2>4. TypeOK'
    BY <2>1, <2>3, <1>t DEF TypeOK
  <2>5. sock' = d.sock /\ Keeps(Tail(down))
    BY <2>1, <2>3 DEF Becomes, Broken, Keeps
  <2> QED
    BY <1>0, <2>1, <2>3, <2>4, <2>5
       DEF Drops, Elsewhere, Settles, Terminal, Announces
<1> QED
  BY <1>2, <1>3, <1>4, <1>5, <1>6, <1>7
-----------------------------------------------------------------------------
(***************************************************************************)
(* The server's actions keep the types.                                    *)
(***************************************************************************)
LEMMA StreamFields ==
  ASSUME TypeOK
  PROVE  /\ stream.gen \in 0 .. MaxGen /\ stream.base \in 0 .. MaxEnd
         /\ stream.end \in 0 .. MaxEnd /\ stream.gen \in Nat /\ stream.end \in Nat
         /\ stream.base \in Nat
         /\ stream = [gen |-> stream.gen, base |-> stream.base, end |-> stream.end]
BY ResumeBounds DEF TypeOK

LEMMA MessageTyped ==
  ASSUME TypeOK, NEW type \in Kinds, NEW from \in 0 .. MaxEnd, NEW to \in 0 .. MaxEnd,
         NEW flag \in BOOLEAN
  PROVE  /\ Message(type, from, to, flag) \in Messages
         /\ Message(type, from, to, flag) = [type |-> type, gen |-> stream.gen,
                                              from |-> from, to |-> to, flag |-> flag]
BY StreamFields DEF Message, Messages

LEMMA MessageFields ==
  ASSUME NEW m \in Messages
  PROVE  /\ m.type \in Kinds /\ m.gen \in 0 .. MaxGen /\ m.from \in 0 .. MaxEnd
         /\ m.to \in 0 .. MaxEnd /\ m.flag \in BOOLEAN
         /\ m.gen \in Int /\ m.from \in Int /\ m.to \in Int
BY ResumeBounds DEF Messages

LEMMA SentTuples ==
  /\ \A from, to : Frame(from, to) = IF from = to THEN <<>>
                                     ELSE One(Message("data", from, to, FALSE))
  /\ Screen = Two(Message("snapshot", 0, stream.end, FALSE),
                  Message("snapshot", 0, stream.end, TRUE))
  /\ RawReplay = One(Message("clear", 0, 0, FALSE)) \o Frame(stream.base, stream.end)
BY DEF Frame, Screen, RawReplay, One, Two

LEMMA FrameTyped ==
  ASSUME TypeOK, NEW from \in 0 .. MaxEnd, NEW to \in 0 .. MaxEnd
  PROVE  Frame(from, to) \in Seq(Messages)
<1>1. Message("data", from, to, FALSE) \in Messages
  BY MessageTyped DEF Kinds
<1>2. One(Message("data", from, to, FALSE)) \in Seq(Messages)
  BY <1>1, OneSeq
<1> QED
  BY <1>2, EmptySeq, SentTuples

LEMMA ProduceTyped ==
  ASSUME TypeOK, Produce, stream.base <= stream.end
  PROVE  /\ TypeOK'
         /\ stream'.gen = stream.gen /\ stream'.end = stream.end + 1
         /\ stream.base <= stream'.base /\ stream'.base <= stream'.end
         /\ IF serving
            THEN down' = Append(down, [type |-> "data", gen |-> stream.gen, from |-> stream.end,
                                       to |-> stream.end + 1, flag |-> FALSE])
            ELSE down' = down
         /\ UNCHANGED <<up, serving, link, sock, writes, shown, cache, origin, skipped>>
<1> DEFINE end == stream.end + 1
           base == IF end - stream.base > Ring THEN end - Ring ELSE stream.base
           frame == [type |-> "data", gen |-> stream.gen, from |-> stream.end,
                     to |-> end, flag |-> FALSE]
<1>1. /\ stream.end \in 0 .. MaxEnd /\ stream.base \in 0 .. MaxEnd /\ stream.gen \in 0 .. MaxGen
      /\ Ring \in Nat \ {0} /\ MaxEnd \in Nat /\ end \in 0 .. MaxEnd
  BY StreamFields, ResumeBounds DEF Produce
<1>2. /\ stream' = [gen |-> stream.gen, base |-> base, end |-> end]
      /\ down' = IF serving THEN down \o Frame(stream.end, end) ELSE down
      /\ UNCHANGED <<up, serving, link, sock, state, writes, shown, desync, cache,
                     events, origin, skipped>>
  BY StreamFields DEF Produce
<1>3. base \in 0 .. MaxEnd /\ stream.base <= base /\ base <= end
  BY <1>1
<1>4. Frame(stream.end, end) = One(frame) /\ frame \in Messages
  <2>0. "data" \in Kinds
    BY DEF Kinds
  <2>1. Message("data", stream.end, end, FALSE) = frame /\ frame \in Messages
    BY <1>1, <2>0, MessageTyped
  <2>2. stream.end # end
    BY <1>1
  <2> QED
    BY <2>1, <2>2, SentTuples
<1> HIDE DEF frame, base, end
<1>5. Append(down, frame) \in Seq(Messages) /\ down \o One(frame) = Append(down, frame)
  BY <1>4, SumOne DEF TypeOK
<1>6. down' = IF serving THEN Append(down, frame) ELSE down
  BY <1>2, <1>4, <1>5
<1>7. down' \in Seq(Messages)
  BY <1>5, <1>6 DEF TypeOK
<1>8. TypeOK'
  BY <1>1, <1>2, <1>3, <1>7 DEF TypeOK
<1> QED
  BY <1>2, <1>3, <1>6, <1>8 DEF frame, end

\* What Shed leaves: the messages before i and those from next on, and a gap.
Rest(i, next) == SubSeq(down, 1, i - 1) \o SubSeq(down, next, Len(down))

LEMMA RestFacts ==
  ASSUME TypeOK, NEW i \in 1 .. Len(down), NEW next \in {i + 1, i + 2}
  PROVE  /\ Rest(i, next) \in Seq(Messages)
         /\ Len(Rest(i, next)) = IF next <= Len(down) + 1 THEN Len(down) + i - next ELSE i - 1
         /\ Len(Rest(i, next)) >= i - 1
         /\ \A n \in 1 .. Len(Rest(i, next)) :
              Rest(i, next)[n] = IF n < i THEN down[n] ELSE down[n + (next - i)]
<1> DEFINE a == SubSeq(down, 1, i - 1)
           b == SubSeq(down, next, Len(down))
<1>1. down \in Seq(Messages) /\ Len(down) \in Nat /\ i \in Int /\ next \in Int
  BY DEF TypeOK
<1>2. /\ a \in Seq(Messages) /\ Len(a) = i - 1
      /\ \A n \in 1 .. i - 1 : a[n] = down[n]
  <2>1. \A n \in 1 .. i - 1 : down[n] \in Messages
    BY <1>1, ElementOfSeq
  <2>2. /\ a \in Seq(Messages) /\ Len(a) = IF 1 <= i - 1 THEN (i - 1) - 1 + 1 ELSE 0
        /\ \A n \in 1 .. (i - 1) - 1 + 1 : a[n] = down[1 + n - 1]
    BY <1>1, <2>1, SubSeqProperties
  <2> QED
    BY <1>1, <2>2
<1>3. /\ b \in Seq(Messages) /\ Len(b) = IF next <= Len(down) THEN Len(down) - next + 1 ELSE 0
      /\ \A n \in 1 .. Len(down) - next + 1 : b[n] = down[next + n - 1]
  <2>1. \A n \in next .. Len(down) : down[n] \in Messages
    BY <1>1, ElementOfSeq
  <2> QED
    BY <1>1, <2>1, SubSeqProperties
<1> HIDE DEF a, b
<1>4. /\ a \o b \in Seq(Messages) /\ Len(a \o b) = Len(a) + Len(b)
      /\ \A n \in 1 .. Len(a) + Len(b) :
           (a \o b)[n] = IF n <= Len(a) THEN a[n] ELSE b[n - Len(a)]
  BY <1>2, <1>3, ConcatProperties
<1>5. Rest(i, next) = a \o b
  BY DEF Rest, a, b
<1>6. Len(a \o b) = IF next <= Len(down) + 1 THEN Len(down) + i - next ELSE i - 1
  BY <1>1, <1>2, <1>3, <1>4
<1>7. ASSUME NEW n \in 1 .. Len(a \o b)
      PROVE  (a \o b)[n] = IF n < i THEN down[n] ELSE down[n + (next - i)]
  <2>1. CASE n < i
    BY <1>1, <1>2, <1>3, <1>4, <2>1
  <2>2. CASE ~(n < i)
    <3>1. n - Len(a) \in 1 .. Len(down) - next + 1 /\ Len(a) = i - 1
      BY <1>1, <1>2, <1>3, <1>4, <2>2
    <3>2. (a \o b)[n] = b[n - Len(a)]
      BY <1>1, <1>2, <1>3, <1>4, <2>2
    <3>3. next + (n - Len(a)) - 1 = n + (next - i)
      BY <1>1, <3>1
    <3> QED
      BY <1>3, <2>2, <3>1, <3>2, <3>3
  <2> QED
    BY <2>1, <2>2
<1> QED
  BY <1>1, <1>4, <1>5, <1>6, <1>7

\* A sequence without its element i.
LEMMA RemoveFacts ==
  ASSUME NEW s \in Seq(Messages), NEW i \in 1 .. Len(s)
  PROVE  /\ RemoveAt(s, i) \in Seq(Messages) /\ Len(RemoveAt(s, i)) = Len(s) - 1
         /\ \A n \in 1 .. Len(s) - 1 : RemoveAt(s, i)[n] = IF n < i THEN s[n] ELSE s[n + 1]
<1> DEFINE a == SubSeq(s, 1, i - 1)
           b == SubSeq(s, i + 1, Len(s))
<1>1. Len(s) \in Nat /\ i \in Int /\ 1 <= i /\ i <= Len(s)
  OBVIOUS
<1>2. /\ a \in Seq(Messages) /\ Len(a) = i - 1
      /\ \A n \in 1 .. i - 1 : a[n] = s[n]
  <2>1. \A n \in 1 .. i - 1 : s[n] \in Messages
    BY <1>1, ElementOfSeq
  <2>2. /\ a \in Seq(Messages) /\ Len(a) = IF 1 <= i - 1 THEN (i - 1) - 1 + 1 ELSE 0
        /\ \A n \in 1 .. (i - 1) - 1 + 1 : a[n] = s[1 + n - 1]
    BY <1>1, <2>1, SubSeqProperties
  <2> QED
    BY <1>1, <2>2
<1>3. /\ b \in Seq(Messages) /\ Len(b) = Len(s) - i
      /\ \A n \in 1 .. Len(s) - i : b[n] = s[n + i]
  <2>1. \A n \in i + 1 .. Len(s) : s[n] \in Messages
    BY <1>1, ElementOfSeq
  <2>2. /\ b \in Seq(Messages) /\ Len(b) = IF i + 1 <= Len(s) THEN Len(s) - (i + 1) + 1 ELSE 0
        /\ \A n \in 1 .. Len(s) - (i + 1) + 1 : b[n] = s[(i + 1) + n - 1]
    BY <1>1, <2>1, SubSeqProperties
  <2> QED
    BY <1>1, <2>2
<1> HIDE DEF a, b
<1>4. /\ a \o b \in Seq(Messages) /\ Len(a \o b) = Len(a) + Len(b)
      /\ \A n \in 1 .. Len(a) + Len(b) :
           (a \o b)[n] = IF n <= Len(a) THEN a[n] ELSE b[n - Len(a)]
  BY <1>2, <1>3, ConcatProperties
<1>5. RemoveAt(s, i) = a \o b
  BY DEF RemoveAt, a, b
<1>6. Len(a \o b) = Len(s) - 1
  BY <1>1, <1>2, <1>3, <1>4
<1>7. ASSUME NEW n \in 1 .. Len(s) - 1
      PROVE  (a \o b)[n] = IF n < i THEN s[n] ELSE s[n + 1]
  <2>1. CASE n < i
    BY <1>1, <1>2, <1>3, <1>4, <2>1
  <2>2. CASE ~(n < i)
    <3>1. n - Len(a) \in 1 .. Len(s) - i /\ n \in 1 .. Len(a) + Len(b) /\ ~(n <= Len(a))
          /\ (n - Len(a)) + i = n + 1
      BY <1>1, <1>2, <1>3, <2>2
    <3>2. (a \o b)[n] = b[n - Len(a)]
      BY <1>4, <3>1
    <3> QED
      BY <1>3, <2>2, <3>1, <3>2
  <2> QED
    BY <2>1, <2>2
<1> QED
  BY <1>4, <1>5, <1>6, <1>7

GapSent == [type |-> "gap", gen |-> stream.gen, from |-> 0, to |-> 0, flag |-> FALSE]

LEMMA GapTyped ==
  ASSUME TypeOK
  PROVE  /\ GapSent \in Messages /\ Message("gap", 0, 0, FALSE) = GapSent /\ Gap = One(GapSent)
         /\ GapSent.type = "gap" /\ GapSent.gen = stream.gen
<1>1. 0 \in 0 .. MaxEnd /\ "gap" \in Kinds
  BY ResumeBounds DEF Kinds
<1> QED
  BY <1>1, MessageTyped DEF GapSent, Gap, One

LEMMA AnnouncedFacts ==
  ASSUME TypeOK, NEW rest \in Seq(Messages), NEW reported \in BOOLEAN
  PROVE  /\ Announced(rest, reported) \in Seq(Messages)
         /\ \/ /\ Announced(rest, reported) = rest
               /\ ~reported \/ ReportedIn(rest)
            \/ /\ Announced(rest, reported) = Append(rest, GapSent)
               /\ ~ReportedIn(rest)
         /\ ReportedIn(rest) <=> \E g \in 1 .. Len(rest) : rest[g].type = "gap"
<1>1. rest \o Gap = Append(rest, GapSent) /\ GapSent \in Messages
  BY GapTyped, SumOne
<1>2. Append(rest, GapSent) \in Seq(Messages) /\ DOMAIN rest = 1 .. Len(rest)
  BY <1>1
<1> QED
  BY <1>1, <1>2 DEF Announced, ReportedIn

LEMMA ShedTyped ==
  ASSUME TypeOK, Shed
  PROVE  /\ TypeOK'
         /\ \E i \in 1 .. Len(down), next \in Int :
              /\ next = IF Chunk(down[i]) THEN i + 2 ELSE i + 1
              /\ next \in {i + 1, i + 2}
              /\ Terminal(down[i]) /\ \A j \in 1 .. i - 1 : ~Terminal(down[j])
              /\ \/ /\ \E g \in 1 .. Len(Rest(i, next)) : Rest(i, next)[g].type = "gap"
                    /\ down' = Rest(i, next)
                 \/ /\ \A g \in 1 .. Len(Rest(i, next)) : Rest(i, next)[g].type # "gap"
                    /\ down' = Append(Rest(i, next), GapSent)
                 \/ skipped' /\ down' = Rest(i, next)
              /\ ~skipped' => /\ ~skipped
                              /\ \A j \in next .. Len(down) :
                                   down[j].type \notin {"data", "attached", "resynced"}
         /\ UNCHANGED <<stream, up, serving, link, sock, state, writes, shown, cache, origin>>
<1>0. DOMAIN down = 1 .. Len(down) /\ Len(down) \in Nat
  BY DEF TypeOK
<1>1. PICK i \in 1 .. Len(down), reported \in BOOLEAN :
         /\ Terminal(down[i]) /\ \A j \in 1 .. i - 1 : ~Terminal(down[j])
         /\ LET next == IF down[i].type = "snapshot" /\ ~down[i].flag THEN i + 2 ELSE i + 1
                rest == SubSeq(down, 1, i - 1) \o SubSeq(down, next, Len(down))
                survives == \E j \in next .. Len(down) :
                              down[j].type \in {"data", "attached", "resynced"}
            IN /\ down' = Announced(rest, reported)
               /\ skipped' = (skipped \/ survives \/ ~(reported \/ ReportedIn(rest)))
  BY <1>0 DEF Shed
<1> DEFINE next == IF Chunk(down[i]) THEN i + 2 ELSE i + 1
           rest == Rest(i, next)
<1>2. next \in Int /\ next \in {i + 1, i + 2} /\ next = IF Chunk(down[i]) THEN i + 2 ELSE i + 1
  OBVIOUS
<1>3. /\ down' = Announced(rest, reported)
      /\ skipped' = (\/ skipped
                     \/ \E j \in next .. Len(down) :
                          down[j].type \in {"data", "attached", "resynced"}
                     \/ ~(reported \/ ReportedIn(rest)))
  BY <1>1 DEF Rest, Chunk
<1> HIDE DEF next
<1>4. rest \in Seq(Messages)
  BY <1>2, RestFacts
<1> HIDE DEF rest
<1>5. /\ Announced(rest, reported) \in Seq(Messages)
      /\ \/ /\ Announced(rest, reported) = rest
            /\ ~reported \/ ReportedIn(rest)
         \/ /\ Announced(rest, reported) = Append(rest, GapSent)
            /\ ~ReportedIn(rest)
      /\ ReportedIn(rest) <=> \E g \in 1 .. Len(rest) : rest[g].type = "gap"
  BY <1>4, AnnouncedFacts
<1>7. /\ UNCHANGED <<stream, up, serving, link, sock, state, writes, shown, desync, cache, origin>>
      /\ Happens
  BY DEF Shed
<1>8. down' \in Seq(Messages) /\ skipped' \in BOOLEAN
  BY <1>3, <1>5 DEF TypeOK
<1>9. TypeOK'
  BY <1>7, <1>8, EventsTyped DEF TypeOK
<1>10. \/ (\E g \in 1 .. Len(rest) : rest[g].type = "gap") /\ down' = rest
       \/ (\A g \in 1 .. Len(rest) : rest[g].type # "gap") /\ down' = Append(rest, GapSent)
       \/ skipped' /\ down' = rest
  BY <1>3, <1>5
<1>11. ~skipped' => /\ ~skipped
                    /\ \A j \in next .. Len(down) :
                         down[j].type \notin {"data", "attached", "resynced"}
  BY <1>3
<1> QED
  BY <1>1, <1>2, <1>7, <1>9, <1>10, <1>11 DEF rest

\* What Tear leaves: neither the frame i nor the chunk k.
TornRest(i, k) == RemoveAt(RemoveAt(down, k), i)

LEMMA TearTyped ==
  ASSUME TypeOK, Tear
  PROVE  /\ TypeOK' /\ skipped' = TRUE
         /\ \E i, k \in 1 .. Len(down) :
              /\ i < k /\ Terminal(down[i]) /\ Chunk(down[k])
              /\ \A j \in 1 .. k - 1 : Terminal(down[j]) => j = i
              /\ TornRest(i, k) \in Seq(Messages)
              /\ \A n \in 1 .. Len(TornRest(i, k)) : TornRest(i, k)[n].gen \in {down[j].gen : j \in 1 .. Len(down)}
              /\ down' = TornRest(i, k) \/ down' = Append(TornRest(i, k), GapSent)
         /\ UNCHANGED <<stream, up, serving, link, sock, state, writes, shown, cache, origin>>
<1>0. DOMAIN down = 1 .. Len(down) /\ Len(down) \in Nat /\ down \in Seq(Messages)
  BY DEF TypeOK
<1>1. PICK i \in 1 .. Len(down), k \in 1 .. Len(down), reported \in BOOLEAN :
         /\ i < k /\ down[i].type = "data"
         /\ down[k].type = "snapshot" /\ ~down[k].flag
         /\ \A j \in 1 .. k - 1 : Terminal(down[j]) => j = i
         /\ down' = Announced(TornRest(i, k), reported)
  BY <1>0 DEF Tear, TornRest
<1>2. Terminal(down[i]) /\ Chunk(down[k])
  BY <1>1 DEF Terminal, Chunk
<1> DEFINE most == RemoveAt(down, k)
           rest == TornRest(i, k)
<1>3. /\ most \in Seq(Messages) /\ Len(most) = Len(down) - 1
      /\ \A n \in 1 .. Len(down) - 1 : most[n] = IF n < k THEN down[n] ELSE down[n + 1]
  BY <1>0, RemoveFacts
<1>4. rest = RemoveAt(most, i)
  BY DEF TornRest
<1> HIDE DEF most, rest
<1>5. i \in 1 .. Len(most)
  BY <1>0, <1>1, <1>3
<1>6. /\ rest \in Seq(Messages) /\ Len(rest) = Len(most) - 1
      /\ \A n \in 1 .. Len(most) - 1 : rest[n] = IF n < i THEN most[n] ELSE most[n + 1]
  BY <1>3, <1>4, <1>5, RemoveFacts
<1>7. ASSUME NEW n \in 1 .. Len(rest)
      PROVE  \E j \in 1 .. Len(down) : rest[n] = down[j]
  <2>1. PICK m \in 1 .. Len(most) : rest[n] = most[m]
    <3>1. /\ Len(most) \in Nat /\ n \in 1 .. Len(most) - 1 /\ n \in 1 .. Len(most)
          /\ n + 1 \in 1 .. Len(most)
      BY <1>0, <1>3, <1>6
    <3>2. rest[n] = most[n] \/ rest[n] = most[n + 1]
      BY <1>6, <3>1
    <3> QED
      BY <3>1, <3>2
  <2>2. \E j \in 1 .. Len(down) : most[m] = down[j]
    <3>1. /\ Len(down) \in Nat /\ m \in 1 .. Len(down) - 1
          /\ m \in 1 .. Len(down) /\ m + 1 \in 1 .. Len(down)
      BY <1>0, <1>3
    <3>2. most[m] = down[m] \/ most[m] = down[m + 1]
      BY <1>3, <3>1
    <3> QED
      BY <3>1, <3>2
  <2> QED
    BY <2>1, <2>2
<1>8. /\ down' \in Seq(Messages)
      /\ down' = rest \/ down' = Append(rest, GapSent)
  BY <1>1, <1>6, AnnouncedFacts DEF rest
<1>9. /\ UNCHANGED <<stream, up, serving, link, sock, state, writes, shown, desync, cache, origin>>
      /\ Happens /\ skipped' = TRUE
  BY DEF Tear
<1>10. TypeOK'
  BY <1>8, <1>9, EventsTyped DEF TypeOK
<1>11. \A n \in 1 .. Len(rest) : rest[n].gen \in {down[j].gen : j \in 1 .. Len(down)}
  BY <1>7
<1> QED
  BY <1>1, <1>2, <1>6, <1>8, <1>9, <1>10, <1>11 DEF rest

\* The messages of an answer.
ClearSent == [type |-> "clear", gen |-> stream.gen, from |-> 0, to |-> 0, flag |-> FALSE]
ChunkSent == [type |-> "snapshot", gen |-> stream.gen, from |-> 0, to |-> stream.end,
              flag |-> FALSE]
LastSent == [type |-> "snapshot", gen |-> stream.gen, from |-> 0, to |-> stream.end,
             flag |-> TRUE]
DataSent(from) == [type |-> "data", gen |-> stream.gen, from |-> from, to |-> stream.end,
                   flag |-> FALSE]
ControlSent(type) == [type |-> type, gen |-> stream.gen, from |-> 0, to |-> 0, flag |-> FALSE]
LossSent(type) == [type |-> type, gen |-> stream.gen, from |-> 0, to |-> 0, flag |-> TRUE]
Resynced == {ControlSent("resynced"), LossSent("resynced")}

LEMMA SentTyped ==
  ASSUME TypeOK
  PROVE  /\ ClearSent \in Messages /\ Message("clear", 0, 0, FALSE) = ClearSent
         /\ ChunkSent \in Messages /\ Message("snapshot", 0, stream.end, FALSE) = ChunkSent
         /\ LastSent \in Messages /\ Message("snapshot", 0, stream.end, TRUE) = LastSent
         /\ \A from \in 0 .. MaxEnd : /\ DataSent(from) \in Messages
                                      /\ Message("data", from, stream.end, FALSE) = DataSent(from)
         /\ \A type \in {"attached", "begin", "resynced", "rejected", "exit"} :
              /\ ControlSent(type) \in Messages /\ LossSent(type) \in Messages
              /\ Message(type, 0, 0, FALSE) = ControlSent(type)
              /\ Message(type, 0, 0, TRUE) = LossSent(type)
<1>1. 0 \in 0 .. MaxEnd /\ stream.end \in 0 .. MaxEnd /\ stream.gen \in 0 .. MaxGen
  BY StreamFields, ResumeBounds
<1> QED
  BY <1>1 DEF Messages, Message, ClearSent, ChunkSent, LastSent, DataSent, ControlSent, LossSent, Kinds

LEMMA AnswerTuples ==
  ASSUME TypeOK
  PROVE  /\ Screen = Two(ChunkSent, LastSent)
         /\ \A from \in 0 .. MaxEnd :
              Frame(from, stream.end) = IF from = stream.end THEN <<>> ELSE One(DataSent(from))
         /\ RawReplay = IF stream.base = stream.end THEN One(ClearSent)
                        ELSE Two(ClearSent, DataSent(stream.base))
         /\ ClearSent \in Messages /\ DataSent(stream.base) \in Messages
         /\ ChunkSent \in Messages /\ LastSent \in Messages
<1>1. /\ ClearSent \in Messages /\ DataSent(stream.base) \in Messages
      /\ ChunkSent \in Messages /\ LastSent \in Messages
      /\ stream.base \in 0 .. MaxEnd
  BY SentTyped, StreamFields
<1>2. Screen = Two(ChunkSent, LastSent)
  BY SentTyped, SentTuples
<1>3. ASSUME NEW from \in 0 .. MaxEnd
      PROVE  Frame(from, stream.end) = IF from = stream.end THEN <<>> ELSE One(DataSent(from))
  BY SentTyped, SentTuples
<1>4. RawReplay = One(ClearSent) \o Frame(stream.base, stream.end)
  BY SentTyped, SentTuples
<1>5. One(ClearSent) \o <<>> = One(ClearSent)
  BY <1>1, OneSeq, ConcatEmptySeq
<1>6. One(ClearSent) \o One(DataSent(stream.base)) = Two(ClearSent, DataSent(stream.base))
  BY <1>1, OneAndOne
<1>7. CASE stream.base = stream.end
  BY <1>1, <1>2, <1>3, <1>4, <1>5, <1>7
<1>8. CASE stream.base # stream.end
  BY <1>1, <1>2, <1>3, <1>4, <1>6, <1>8
<1> QED
  BY <1>7, <1>8

\* A sequence of messages of the session's generation.
Own(ms) == ms \in Seq(Messages) /\ \A i \in 1 .. Len(ms) : ms[i].gen = stream.gen

LEMMA OwnFacts ==
  /\ Own(<<>>)
  /\ \A m \in Messages : m.gen = stream.gen => Own(One(m))
<1>1. ASSUME NEW m \in Messages, m.gen = stream.gen
      PROVE  Own(One(m))
  <2>1. One(m) \in Seq(Messages) /\ Len(One(m)) = 1 /\ One(m)[1] = m
    BY OneSeq
  <2> QED
    BY <1>1, <2>1 DEF Own
<1>2. <<>> \in Seq(Messages) /\ Len(<<>>) = 0
  BY EmptySeq
<1> QED
  BY <1>1, <1>2 DEF Own

LEMMA OwnConcat ==
  ASSUME NEW s, NEW t, Own(s), Own(t)
  PROVE  Own(s \o t)
<1>1. /\ s \in Seq(Messages) /\ t \in Seq(Messages) /\ Len(s) \in Nat /\ Len(t) \in Nat
      /\ \A i \in 1 .. Len(s) : s[i].gen = stream.gen
      /\ \A i \in 1 .. Len(t) : t[i].gen = stream.gen
  BY DEF Own
<1>2. /\ s \o t \in Seq(Messages) /\ Len(s \o t) = Len(s) + Len(t)
      /\ \A i \in 1 .. Len(s) + Len(t) :
           (s \o t)[i] = IF i <= Len(s) THEN s[i] ELSE t[i - Len(s)]
  BY <1>1, ConcatProperties
<1>3. ASSUME NEW i \in 1 .. Len(s) + Len(t)
      PROVE  (s \o t)[i].gen = stream.gen
  <2>1. CASE i <= Len(s)
    BY <1>1, <1>2, <2>1
  <2>2. CASE ~(i <= Len(s))
    <3>1. i - Len(s) \in 1 .. Len(t)
      BY <1>1, <2>2
    <3> QED
      BY <1>1, <1>2, <2>2, <3>1
  <2> QED
    BY <2>1, <2>2
<1> QED
  BY <1>2, <1>3 DEF Own

LEMMA PartsOwn ==
  ASSUME TypeOK
  PROVE  /\ Own(Gap) /\ Own(Screen) /\ Own(RawReplay)
         /\ \A from, to \in 0 .. MaxEnd : Own(Frame(from, to))
         /\ \A type \in {"attached", "begin", "resynced"}, flag \in BOOLEAN :
              Own(One(Message(type, 0, 0, flag)))
<1>1. Own(Gap)
  BY GapTyped, OwnFacts
<1>2. /\ ChunkSent \in Messages /\ LastSent \in Messages /\ ClearSent \in Messages
      /\ stream.base \in 0 .. MaxEnd /\ stream.end \in 0 .. MaxEnd
  BY SentTyped, StreamFields
<1>3. ChunkSent.gen = stream.gen /\ LastSent.gen = stream.gen /\ ClearSent.gen = stream.gen
  BY DEF ChunkSent, LastSent, ClearSent
<1>4. Own(One(ChunkSent)) /\ Own(One(LastSent)) /\ Own(One(ClearSent))
  BY <1>2, <1>3, OwnFacts
<1>5. Own(Screen)
  <2>1. Screen = One(ChunkSent) \o One(LastSent)
    BY <1>2, AnswerTuples, OneAndOne
  <2> QED
    BY <1>4, <2>1, OwnConcat
<1>6. ASSUME NEW from \in 0 .. MaxEnd, NEW to \in 0 .. MaxEnd
      PROVE  Own(Frame(from, to))
  <2>1. "data" \in Kinds
    BY DEF Kinds
  <2>2. Message("data", from, to, FALSE) \in Messages
    BY <2>1, MessageTyped
  <2>3. Message("data", from, to, FALSE).gen = stream.gen
    BY DEF Message
  <2>4. Own(One(Message("data", from, to, FALSE))) /\ Own(<<>>)
    BY <2>2, <2>3, OwnFacts
  <2> QED
    BY <2>4, SentTuples
<1>7. Own(RawReplay)
  <2>1. RawReplay = One(ClearSent) \o Frame(stream.base, stream.end)
    BY SentTyped, SentTuples
  <2> QED
    BY <1>2, <1>4, <1>6, <2>1, OwnConcat
<1>8. ASSUME NEW type \in {"attached", "begin", "resynced"}, NEW flag \in BOOLEAN
      PROVE  Own(One(Message(type, 0, 0, flag)))
  <2>1. type \in Kinds /\ 0 \in 0 .. MaxEnd
    BY ResumeBounds DEF Kinds
  <2>2. /\ Message(type, 0, 0, flag) \in Messages
        /\ Message(type, 0, 0, flag).gen = stream.gen
    BY <2>1, MessageTyped
  <2> QED
    BY <2>2, OwnFacts
<1> QED
  BY <1>1, <1>5, <1>6, <1>7, <1>8

\* The answer to an attach, which is the first thing on the link.
AttachAnswered(answer, last) ==
  \/ /\ answer = "delta" /\ last = stream.end
     /\ Len(down') = 1 /\ down'[1] = ControlSent("attached")
  \/ /\ answer = "delta" /\ last # stream.end
     /\ Len(down') = 2 /\ down'[1] = DataSent(last) /\ down'[2] = ControlSent("attached")
  \/ /\ answer = "screen"
     /\ Len(down') = 3 /\ down'[1] = ChunkSent /\ down'[2] = LastSent
     /\ down'[3] = ControlSent("attached")
  \/ /\ answer = "raw" /\ stream.base = stream.end
     /\ Len(down') = 2 /\ down'[1] = ClearSent /\ down'[2] = ControlSent("attached")
  \/ /\ answer = "raw" /\ stream.base # stream.end
     /\ Len(down') = 3 /\ down'[1] = ClearSent /\ down'[2] = DataSent(stream.base)
     /\ down'[3] = ControlSent("attached")

LEMMA ServeAttachTyped ==
  ASSUME TypeOK, NEW answer \in Answers, ServeAttach(answer), down = <<>>
  PROVE  /\ TypeOK'
         /\ up # <<>> /\ Head(up).type = "attach" /\ up' = Tail(up)
         /\ answer = "delta" => ResumeOK(Head(up))
         /\ AttachAnswered(answer, Head(up).last)
         /\ serving' = TRUE
         /\ UNCHANGED <<stream, link, sock, writes, shown, cache, origin, skipped>>
<1>1. /\ up # <<>> /\ Head(up).type = "attach" /\ up' = Tail(up) /\ serving' = TRUE
      /\ answer = "delta" => ResumeOK(Head(up))
      /\ UNCHANGED <<stream, link, sock, state, writes, shown, desync, cache, origin, skipped>>
      /\ events' = events
  BY DEF ServeAttach
<1>2. Head(up) \in Calls /\ Tail(up) \in Seq(Calls)
  BY <1>1, HeadTailProperties DEF TypeOK
<1> DEFINE last == Head(up).last
           attached == ControlSent("attached")
           head == CASE answer = "delta" -> Frame(last, stream.end)
                     [] answer = "screen" -> Screen
                     [] answer = "raw" -> RawReplay
<1>3. answer = "delta" => last \in 0 .. MaxEnd /\ DataSent(last) \in Messages
  BY <1>1, <1>2, SentTyped DEF ResumeOK, Calls, Cursors
<1>4. attached \in Messages /\ Message("attached", 0, 0, FALSE) = attached
  BY SentTyped
<1>5. down' = (<<>> \o head) \o One(attached)
  BY <1>4 DEF ServeAttach, One
<1>6. /\ answer = "delta" => head = Frame(last, stream.end)
      /\ answer = "screen" => head = Screen
      /\ answer = "raw" => head = RawReplay
  OBVIOUS
<1>7. answer \in {"delta", "screen", "raw"}
  BY DEF Answers
<1>8. /\ answer = "delta" => head = IF last = stream.end THEN <<>> ELSE One(DataSent(last))
      /\ answer = "screen" => head = Two(ChunkSent, LastSent)
      /\ answer = "raw" => head = IF stream.base = stream.end THEN One(ClearSent)
                                  ELSE Two(ClearSent, DataSent(stream.base))
      /\ ClearSent \in Messages /\ DataSent(stream.base) \in Messages
      /\ ChunkSent \in Messages /\ LastSent \in Messages
  BY <1>3, <1>6, AnswerTuples
<1> HIDE DEF head, attached, last
<1>10. ASSUME head \in Seq(Messages)
       PROVE  Pushed(down', head, attached)
  <2>1. <<>> \o head = head
    BY <1>10, ConcatEmptySeq
  <2>2. down' = head \o One(attached)
    BY <1>5, <2>1
  <2> QED
    BY <1>4, <1>10, <2>2, SumOne
<1>a. down' \in Seq(Messages) /\ AttachAnswered(answer, last)
  <2>1. CASE answer = "delta" /\ last = stream.end
    <3>1. head = <<>>
      BY <1>8, <2>1
    <3>2. Pushed(down', <<>>, attached)
      BY <1>10, <3>1, EmptySeq
    <3>3. down' \in Seq(Messages) /\ Len(down') = 1 /\ down'[1] = attached
      BY <3>2, AfterNone
    <3> QED
      BY <2>1, <3>1, <3>3 DEF AttachAnswered, attached
  <2>2. CASE answer = "delta" /\ last # stream.end
    <3>1. head = One(DataSent(last))
      BY <1>8, <2>2
    <3>2. Pushed(down', One(DataSent(last)), attached)
      BY <1>3, <1>10, <2>2, <3>1, OneSeq
    <3>3. down' \in Seq(Messages) /\ Len(down') = 2 /\ down'[1] = DataSent(last)
          /\ down'[2] = attached
      BY <1>3, <2>2, <3>2, AfterOne
    <3> QED
      BY <2>2, <3>1, <3>3 DEF AttachAnswered, attached
  <2>3. CASE answer = "screen"
    <3>1. head = Two(ChunkSent, LastSent)
      BY <1>8, <2>3
    <3>2. Pushed(down', Two(ChunkSent, LastSent), attached)
      BY <1>8, <1>10, <3>1, TwoSeq
    <3>3. down' \in Seq(Messages) /\ Len(down') = 3 /\ down'[1] = ChunkSent
          /\ down'[2] = LastSent /\ down'[3] = attached
      BY <1>8, <3>2, AfterTwo
    <3> QED
      BY <2>3, <3>1, <3>3 DEF AttachAnswered, attached
  <2>4. CASE answer = "raw" /\ stream.base = stream.end
    <3>1. head = One(ClearSent)
      BY <1>8, <2>4
    <3>2. Pushed(down', One(ClearSent), attached)
      BY <1>8, <1>10, <3>1, OneSeq
    <3>3. down' \in Seq(Messages) /\ Len(down') = 2 /\ down'[1] = ClearSent
          /\ down'[2] = attached
      BY <1>8, <3>2, AfterOne
    <3> QED
      BY <2>4, <3>1, <3>3 DEF AttachAnswered, attached
  <2>5. CASE answer = "raw" /\ stream.base # stream.end
    <3>1. head = Two(ClearSent, DataSent(stream.base))
      BY <1>8, <2>5
    <3>2. Pushed(down', Two(ClearSent, DataSent(stream.base)), attached)
      BY <1>8, <1>10, <3>1, TwoSeq
    <3>3. down' \in Seq(Messages) /\ Len(down') = 3 /\ down'[1] = ClearSent
          /\ down'[2] = DataSent(stream.base) /\ down'[3] = attached
      BY <1>8, <3>2, AfterTwo
    <3> QED
      BY <2>5, <3>1, <3>3 DEF AttachAnswered, attached
  <2> QED
    BY <1>7, <2>1, <2>2, <2>3, <2>4, <2>5
<1>12. TypeOK'
  BY <1>1, <1>2, <1>a, EventsTyped DEF TypeOK
<1> QED
  BY <1>1, <1>a, <1>12 DEF last

\* The answer to a request, or its refusal, behind the n messages on the link.
RequestAnswered(n) ==
  \/ /\ Extends(down', down, 4) /\ down'[n + 1] = ControlSent("begin")
     /\ down'[n + 2] = ChunkSent /\ down'[n + 3] = LastSent
     /\ down'[n + 4] = ControlSent("resynced")
  \/ /\ Extends(down', down, 3) /\ stream.base = stream.end
     /\ down'[n + 1] = ControlSent("begin") /\ down'[n + 2] = ClearSent
     /\ down'[n + 3] \in Resynced
  \/ /\ Extends(down', down, 4) /\ stream.base # stream.end
     /\ down'[n + 1] = ControlSent("begin") /\ down'[n + 2] = ClearSent
     /\ down'[n + 3] = DataSent(stream.base)
     /\ down'[n + 4] \in Resynced
  \/ Extends(down', down, 1) /\ down'[n + 1] = ControlSent("rejected")

SumThree(s, a, b, z) == ((s \o One(a)) \o One(b)) \o One(z)
SumFour(s, a, b, c, z) == ((s \o One(a)) \o Two(b, c)) \o One(z)
BehindOne(s, a, z) == (s \o One(a)) \o One(z)
BehindTwo(s, a, b, z) == (s \o Two(a, b)) \o One(z)

LEMMA PushThree ==
  ASSUME NEW s \in Seq(Messages), NEW a \in Messages, NEW b \in Messages, NEW z \in Messages
  PROVE  /\ Extends(SumThree(s, a, b, z), s, 3)
         /\ SumThree(s, a, b, z)[Len(s) + 1] = a /\ SumThree(s, a, b, z)[Len(s) + 2] = b
         /\ SumThree(s, a, b, z)[Len(s) + 3] = z
<1> DEFINE t == s \o One(a)
           u == t \o One(b)
           new == SumThree(s, a, b, z)
           n == Len(s)
<1>1. Pushed(t, s, a)
  BY SumOne
<1>2. Extends(t, s, 1) /\ t[n + 1] = a /\ n \in Nat /\ t \in Seq(Messages)
  BY <1>1, PushedExtends DEF Extends
<1> HIDE DEF t, n
<1>3. Pushed(u, t, b) /\ u \in Seq(Messages)
  BY <1>2, SumOne DEF Pushed
<1>4. new = u \o One(z)
  BY DEF t, SumThree
<1> HIDE DEF u, new
<1>5. Pushed(new, u, z)
  BY <1>3, <1>4, SumOne
<1>6. Extends(u, s, 1 + 1) /\ u[n + (1 + 1)] = b /\ \A i \in 1 .. n + 1 : u[i] = t[i]
  BY <1>2, <1>3, ExtendsMore DEF n
<1>7. Extends(u, s, 2) /\ u[n + 2] = b /\ u[n + 1] = a
  BY <1>2, <1>6
<1>8. Extends(new, s, 2 + 1) /\ new[n + (2 + 1)] = z /\ \A i \in 1 .. n + 2 : new[i] = u[i]
  BY <1>5, <1>7, ExtendsMore DEF n
<1> QED
  BY <1>2, <1>7, <1>8 DEF new, n

LEMMA PushFour ==
  ASSUME NEW s \in Seq(Messages), NEW a \in Messages, NEW b \in Messages, NEW c \in Messages,
         NEW z \in Messages
  PROVE  /\ Extends(SumFour(s, a, b, c, z), s, 4)
         /\ SumFour(s, a, b, c, z)[Len(s) + 1] = a /\ SumFour(s, a, b, c, z)[Len(s) + 2] = b
         /\ SumFour(s, a, b, c, z)[Len(s) + 3] = c /\ SumFour(s, a, b, c, z)[Len(s) + 4] = z
<1> DEFINE t == s \o One(a)
           u == t \o One(b)
           v == t \o Two(b, c)
           new == SumFour(s, a, b, c, z)
           n == Len(s)
<1>1. Pushed(t, s, a)
  BY SumOne
<1>2. Extends(t, s, 1) /\ t[n + 1] = a /\ n \in Nat /\ t \in Seq(Messages)
  BY <1>1, PushedExtends DEF Extends
<1>3. new = v \o One(z)
  BY DEF SumFour
<1> HIDE DEF t, n, new
<1>4. Pushed(u, t, b)
  BY ONLY b \in Messages, <1>2, SumOne
<1>5. Pushed(v, u, c)
  BY ONLY b \in Messages, c \in Messages, <1>2, SumTwo
<1>6. v \in Seq(Messages)
  BY <1>5 DEF Pushed
<1> HIDE DEF u, v
<1>7. Pushed(new, v, z)
  BY <1>3, <1>6, SumOne
<1>8. Extends(u, s, 1 + 1) /\ u[n + (1 + 1)] = b /\ \A i \in 1 .. n + 1 : u[i] = t[i]
  BY <1>2, <1>4, ExtendsMore DEF n
<1>9. Extends(u, s, 2) /\ u[n + 2] = b /\ u[n + 1] = a
  BY <1>2, <1>8
<1>10. Extends(v, s, 2 + 1) /\ v[n + (2 + 1)] = c /\ \A i \in 1 .. n + 2 : v[i] = u[i]
  BY <1>5, <1>9, ExtendsMore DEF n
<1>11. Extends(v, s, 3) /\ v[n + 3] = c /\ v[n + 2] = b /\ v[n + 1] = a
  BY <1>2, <1>9, <1>10
<1>12. Extends(new, s, 3 + 1) /\ new[n + (3 + 1)] = z /\ \A i \in 1 .. n + 3 : new[i] = v[i]
  BY <1>7, <1>11, ExtendsMore DEF n
<1> QED
  BY <1>2, <1>11, <1>12 DEF new, n

LEMMA ServeRequestTyped ==
  ASSUME TypeOK, ServeRequest
  PROVE  /\ TypeOK'
         /\ serving /\ up # <<>> /\ up' = Tail(up)
         /\ RequestAnswered(Len(down))
         /\ UNCHANGED <<stream, serving, link, sock, writes, shown, cache, origin, skipped>>
<1>1. /\ serving /\ up # <<>> /\ up' = Tail(up)
      /\ UNCHANGED <<stream, serving, link, sock, state, writes, shown, desync, cache, origin,
                     skipped>>
      /\ Happens \/ events' = events
  BY DEF ServeRequest
<1>2. Tail(up) \in Seq(Calls)
  BY <1>1, HeadTailProperties DEF TypeOK
<1> DEFINE begin == ControlSent("begin")
           done == ControlSent("resynced")
           rejected == ControlSent("rejected")
           n == Len(down)
           missing == Head(up).last # None /\ Head(up).last < stream.base
           ended == IF missing THEN LossSent("resynced") ELSE ControlSent("resynced")
<1>3. /\ begin \in Messages /\ Message("begin", 0, 0, FALSE) = begin
      /\ rejected \in Messages /\ Message("rejected", 0, 0, FALSE) = rejected
      /\ done \in Messages /\ Message("resynced", 0, 0, FALSE) = done
      /\ LossSent("resynced") \in Messages
      /\ Message("resynced", 0, 0, TRUE) = LossSent("resynced")
  BY SentTyped
<1>m. Message("resynced", 0, 0, missing) = ended /\ ended \in Messages /\ ended \in Resynced
  <2>1. CASE missing
    <3>1. missing = TRUE
      BY <2>1
    <3> HIDE DEF missing
    <3>2. Message("resynced", 0, 0, missing) = Message("resynced", 0, 0, TRUE)
      BY <3>1, Zenon
    <3> QED
      BY <2>1, <3>2, <1>3 DEF Resynced
  <2>2. CASE ~missing
    <3>1. missing = FALSE
      BY <2>2
    <3> HIDE DEF missing
    <3>2. Message("resynced", 0, 0, missing) = Message("resynced", 0, 0, FALSE)
      BY <3>1, Zenon
    <3> QED
      BY <2>2, <3>2, <1>3 DEF Resynced
  <2> QED
    BY <2>1, <2>2
<1>4. \/ down' = ((down \o One(begin)) \o Screen) \o One(done)
      \/ down' = ((down \o One(begin)) \o RawReplay) \o One(ended)
      \/ down' = Append(down, rejected)
  BY <1>3, <1>m DEF ServeRequest, One
<1>5. down \in Seq(Messages)
  BY DEF TypeOK
<1>6. /\ ClearSent \in Messages /\ DataSent(stream.base) \in Messages
      /\ ChunkSent \in Messages /\ LastSent \in Messages
      /\ Screen = Two(ChunkSent, LastSent)
      /\ RawReplay = IF stream.base = stream.end THEN One(ClearSent)
                     ELSE Two(ClearSent, DataSent(stream.base))
  BY AnswerTuples
<1> HIDE DEF begin, done, rejected, n, missing, ended
<1>7. ASSUME down' = ((down \o One(begin)) \o Screen) \o One(done)
      PROVE  RequestAnswered(n)
  <2> DEFINE new == SumFour(down, begin, ChunkSent, LastSent, done)
  <2>1. Extends(new, down, 4) /\ new[n + 1] = begin /\ new[n + 2] = ChunkSent
        /\ new[n + 3] = LastSent /\ new[n + 4] = done
    BY ONLY <1>3, <1>5, <1>6, PushFour DEF n
  <2>2. new = down'
    BY <1>6, <1>7 DEF SumFour
  <2> HIDE DEF new
  <2>3. Extends(down', down, 4) /\ down'[n + 1] = begin /\ down'[n + 2] = ChunkSent
        /\ down'[n + 3] = LastSent /\ down'[n + 4] = done
    BY ONLY <2>1, <2>2
  <2> QED
    BY ONLY <2>3 DEF RequestAnswered, begin, done
<1>8. ASSUME down' = ((down \o One(begin)) \o RawReplay) \o One(ended),
             stream.base = stream.end
      PROVE  RequestAnswered(n)
  <2> DEFINE new == SumThree(down, begin, ClearSent, ended)
  <2>1. Extends(new, down, 3) /\ new[n + 1] = begin /\ new[n + 2] = ClearSent
        /\ new[n + 3] = ended
    BY ONLY <1>3, <1>5, <1>6, <1>m, PushThree DEF n
  <2>2. new = down'
    BY <1>6, <1>8 DEF SumThree
  <2> HIDE DEF new
  <2>3. Extends(down', down, 3) /\ down'[n + 1] = begin /\ down'[n + 2] = ClearSent
        /\ down'[n + 3] \in Resynced /\ stream.base = stream.end
    BY ONLY <1>8, <1>m, <2>1, <2>2
  <2> QED
    BY ONLY <2>3 DEF RequestAnswered, begin
<1>9. ASSUME down' = ((down \o One(begin)) \o RawReplay) \o One(ended),
             stream.base # stream.end
      PROVE  RequestAnswered(n)
  <2> DEFINE data == DataSent(stream.base)
             new == SumFour(down, begin, ClearSent, data, ended)
  <2>0. data \in Messages /\ RawReplay = Two(ClearSent, data)
    BY <1>6, <1>9
  <2> HIDE DEF data
  <2>1. Extends(new, down, 4) /\ new[n + 1] = begin /\ new[n + 2] = ClearSent
        /\ new[n + 3] = data /\ new[n + 4] = ended
    BY ONLY <1>3, <1>5, <1>6, <1>m, <2>0, PushFour DEF n
  <2>2. new = down'
    BY <2>0, <1>9 DEF SumFour
  <2> HIDE DEF new
  <2>3. Extends(down', down, 4) /\ down'[n + 1] = begin /\ down'[n + 2] = ClearSent
        /\ down'[n + 3] = DataSent(stream.base) /\ down'[n + 4] \in Resynced
        /\ stream.base # stream.end
    BY ONLY <1>9, <1>m, <2>1, <2>2 DEF data
  <2> QED
    BY ONLY <2>3 DEF RequestAnswered, begin
<1>10. ASSUME down' = Append(down, rejected)
       PROVE  RequestAnswered(n)
  <2>1. Pushed(down', down, rejected)
    BY <1>3, <1>5, <1>10, SumOne
  <2>2. Extends(down', down, 1) /\ down'[n + 1] = rejected
    BY <2>1, PushedExtends DEF n
  <2> QED
    BY ONLY <2>2 DEF RequestAnswered, rejected
<1>11. RequestAnswered(n)
  BY <1>4, <1>7, <1>8, <1>9, <1>10
<1>12. down' \in Seq(Messages)
  BY <1>11 DEF RequestAnswered, Extends
<1>13. TypeOK'
  BY <1>1, <1>2, <1>12, EventsTyped DEF TypeOK
<1> QED
  BY <1>1, <1>11, <1>13 DEF n

LEMMA ExitTyped ==
  ASSUME TypeOK, Exit
  PROVE  /\ TypeOK' /\ serving
         /\ down' = Append(down, ControlSent("exit"))
         /\ UNCHANGED <<stream, up, serving, link, sock, writes, shown, cache, origin, skipped>>
<1>1. /\ serving /\ Happens
      /\ down' = Append(down, ControlSent("exit")) /\ ControlSent("exit") \in Messages
      /\ UNCHANGED <<stream, up, serving, link, sock, state, writes, shown, desync, cache,
                     origin, skipped>>
  BY SentTyped DEF Exit
<1>2. \A m \in Messages : Append(down, m) \in Seq(Messages)
  BY DEF TypeOK
<1>3. down' \in Seq(Messages)
  BY <1>1, <1>2
<1> QED
  BY <1>1, <1>3, EventsTyped DEF TypeOK
-----------------------------------------------------------------------------
(***************************************************************************)
(* So do the actions that receive a frame, paint, cache and mount.         *)
(***************************************************************************)
LEMMA ReceiveFrameTyped ==
  ASSUME TypeOK, ReceiveFrame
  PROVE  /\ TypeOK'
         /\ link = "open" /\ down # <<>> /\ Terminal(Head(down))
         /\ writes' = Append(writes, Head(down)) /\ down' = Tail(down)
         /\ sock'.last = sock.last /\ sock'.gen = sock.gen /\ sock'.awaiting = sock.awaiting
         /\ sock'.pending <=> (sock.pending \/ Head(down).type = "snapshot")
         /\ ~skipped' => ~skipped /\ ~(/\ Head(down).type = "clear" /\ ~sock.awaiting
                                       /\ Resumable(sock.last, sock.gen))
         /\ UNCHANGED <<stream, up, serving, link, shown, cache, origin>>
<1> DEFINE d == IF Head(down).type = "snapshot"
                THEN [Received EXCEPT !.sock.pending = TRUE, !.state = "resyncing"]
                ELSE Received
<1>1. /\ link = "open" /\ down # <<>> /\ Terminal(Head(down))
      /\ writes' = Append(writes, Head(down)) /\ Becomes(d)
      /\ skipped' = (skipped \/ (/\ Head(down).type = "clear" /\ ~sock.awaiting
                                 /\ Resumable(sock.last, sock.gen)))
      /\ UNCHANGED <<stream, shown, desync, cache, events, origin>>
  BY DEF ReceiveFrame
<1>2. /\ Received \in Clients /\ Received.sock = sock /\ Received.down = Tail(down)
      /\ Received.up = up /\ Received.serving = serving /\ Received.link = link
      /\ Received.state = state /\ Head(down) \in Messages
  BY <1>1, ReceivedTyped
<1>3. /\ d \in Clients /\ d.down = Tail(down) /\ d.up = up /\ d.serving = serving
      /\ d.link = link
      /\ d.sock.last = sock.last /\ d.sock.gen = sock.gen /\ d.sock.awaiting = sock.awaiting
      /\ d.sock.pending <=> (sock.pending \/ Head(down).type = "snapshot")
  <2>1. CASE Head(down).type = "snapshot"
    BY <1>2, <2>1 DEF Clients, Sockets, States
  <2>2. CASE Head(down).type # "snapshot"
    BY <1>2, <2>2
  <2> QED
    BY <2>1, <2>2
<1> HIDE DEF d
<1>4. /\ sock' = d.sock /\ down' = Tail(down) /\ up' = up /\ serving' = serving /\ link' = link
  BY <1>1, <1>3 DEF Becomes
<1>5. Append(writes, Head(down)) \in Seq(Messages)
  BY <1>2 DEF TypeOK
<1>6. writes' \in Seq(Messages) /\ skipped' \in BOOLEAN /\ desync' \in BOOLEAN
      /\ stream' = stream /\ events' = events
      /\ shown' \in SUBSET ((0 .. MaxGen) \X (0 .. MaxEnd - 1)) /\ cache' \in Screens
  BY <1>1, <1>5 DEF TypeOK
<1>7. TypeOK'
  BY <1>1, <1>3, <1>6, ElsewhereTyped
<1> QED
  BY <1>1, <1>3, <1>4, <1>7

LEMMA OpenedTyped ==
  ASSUME TypeOK, Opened
  PROVE  /\ TypeOK' /\ link = "opening" /\ link' = "open"
         /\ Len(up') = 1 /\ up'[1] = Head(up') /\ up'[1].type = "attach"
         /\ up'[1].gen = sock.gen
         /\ up'[1].last = IF sock.awaiting THEN None ELSE sock.last
         /\ UNCHANGED <<stream, down, serving, sock, writes, shown, cache, origin, skipped>>
<1> DEFINE call == [type |-> "attach", gen |-> sock.gen,
                    last |-> IF sock.awaiting THEN None ELSE sock.last]
<1>1. /\ link = "opening" /\ link' = "open" /\ up' = <<call>>
      /\ UNCHANGED <<stream, down, serving, sock, state, writes, shown, desync, cache,
                     events, origin, skipped>>
  BY DEF Opened
<1>2. call \in Calls /\ call.type = "attach" /\ call.gen = sock.gen
      /\ call.last = IF sock.awaiting THEN None ELSE sock.last
  <2>1. sock \in Sockets
    BY DEF TypeOK
  <2> QED
    BY <2>1, SocketFields DEF Calls, Cursors
<1> HIDE DEF call
<1>3. <<call>> \in Seq(Calls) /\ Len(<<call>>) = 1 /\ <<call>>[1] = call /\ Head(<<call>>) = call
  BY <1>2
<1>4. up' \in Seq(Calls) /\ Len(up') = 1 /\ up'[1] = call /\ Head(up') = call
  BY ONLY <1>1, <1>3
<1>5. TypeOK'
  BY <1>1, <1>4 DEF TypeOK
<1> QED
  BY <1>1, <1>2, <1>4, <1>5

LEMMA BytesTyped ==
  ASSUME NEW gen \in 0 .. MaxGen, NEW from \in 0 .. MaxEnd, NEW to \in 0 .. MaxEnd
  PROVE  Bytes(gen, from, to) \subseteq (0 .. MaxGen) \X (0 .. MaxEnd - 1)
BY ResumeBounds DEF Bytes

LEMMA CarriesTyped ==
  ASSUME NEW m \in Messages
  PROVE  Carries(m) \subseteq (0 .. MaxGen) \X (0 .. MaxEnd - 1)
<1>1. 0 \in 0 .. MaxEnd
  BY ResumeBounds
<1> QED
  BY <1>1, MessageFields, BytesTyped DEF Carries

\* What a painted frame does to the cursor.
SetsCursor == Last_(Head(writes)) \/ sock'.last # sock.last

LEMMA PaintTyped ==
  ASSUME TypeOK, Paint
  PROVE  /\ TypeOK' /\ writes # <<>> /\ writes' = Tail(writes)
         /\ shown' = Painted(shown, Head(writes))
         /\ sock'.gen = sock.gen
         /\ IF Last_(Head(writes))
            THEN sock'.last = Head(writes).to /\ ~sock'.awaiting /\ ~sock'.pending
            ELSE sock'.awaiting = sock.awaiting /\ sock'.pending = sock.pending
         /\ Head(writes).type = "data" /\ ~sock.awaiting =>
              sock'.last = AdvanceSeq(sock.last, Head(writes).to)
         /\ ~Last_(Head(writes)) /\ (Head(writes).type # "data" \/ sock.awaiting) =>
              sock'.last = sock.last
         /\ origin' = IF SetsCursor THEN Head(writes).gen ELSE origin
         /\ ~skipped' =>
              /\ ~skipped
              /\ Last_(Head(writes)) /\ sock.awaiting =>
                   /\ sock.pending
                   /\ \A k \in 1 .. Len(Tail(writes)) : Tail(writes)[k].type # "snapshot"
              /\ SetsCursor => sock.gen \in {None, Head(writes).gen}
              /\ ~sock'.awaiting /\ Resumable(sock'.last, sock'.gen) =>
                   /\ \A k \in 1 .. Len(Tail(writes)) : Tail(writes)[k].type # "clear"
                   /\ \A k \in 1 .. Len(down) : down[k].type # "clear"
         /\ UNCHANGED <<stream, down, up, serving, link, cache>>
<1> DEFINE m == Head(writes)
           rest == Tail(writes)
           whole == m.type = "snapshot" /\ m.flag
           sets == whole \/ sock'.last # sock.last
           newer == \E n \in Range(rest) : n.type = "snapshot"
           cleared == \E n \in Range(rest \o down) : n.type = "clear"
<1>1. /\ writes # <<>> /\ writes' = rest /\ shown' = Painted(shown, m)
      /\ sock' = Acknowledged(sock, m)
      /\ state' = IF whole THEN "connected" ELSE state
      /\ skipped' = (\/ skipped
                     \/ whole /\ sock.awaiting /\ (newer \/ ~sock.pending)
                     \/ sets /\ sock.gen \notin {None, m.gen}
                     \/ cleared /\ ~sock'.awaiting /\ Resumable(sock'.last, sock'.gen))
      /\ origin' = IF sets THEN m.gen ELSE origin
      /\ UNCHANGED <<stream, down, up, serving, link, desync, cache, events>>
  BY DEF Paint
<1>2. m \in Messages /\ rest \in Seq(Messages) /\ down \in Seq(Messages) /\ sock \in Sockets
  BY <1>1, HeadTailProperties DEF TypeOK
<1>3. newer <=> \E k \in 1 .. Len(rest) : rest[k].type = "snapshot"
  <2>1. DOMAIN rest = 1 .. Len(rest)
    BY <1>2
  <2> HIDE DEF rest
  <2> QED
    BY <2>1 DEF Range
<1>4. ASSUME ~cleared
      PROVE  /\ \A k \in 1 .. Len(rest) : rest[k].type # "clear"
             /\ \A k \in 1 .. Len(down) : down[k].type # "clear"
  <2> DEFINE all == rest \o down
             l == Len(rest)
  <2>1. /\ Len(all) = l + Len(down) /\ DOMAIN all = 1 .. Len(all) /\ l \in Nat /\ Len(down) \in Nat
        /\ \A i \in 1 .. l + Len(down) : all[i] = IF i <= l THEN rest[i] ELSE down[i - l]
    <3>1. all \in Seq(Messages) /\ Len(all) = l + Len(down)
          /\ \A i \in 1 .. l + Len(down) : all[i] = IF i <= l THEN rest[i] ELSE down[i - l]
      BY <1>2, ConcatProperties
    <3> HIDE DEF all, rest
    <3> QED
      BY <1>2, <3>1
  <2>2. \A k \in DOMAIN all : all[k].type # "clear"
    BY <1>4 DEF Range
  <2> HIDE DEF all, rest, cleared
  <2>3. ASSUME NEW k \in 1 .. l PROVE rest[k].type # "clear"
    <3>1. k \in 1 .. l + Len(down) /\ k <= l
      BY <2>1
    <3> QED
      BY <2>1, <2>2, <3>1
  <2>4. ASSUME NEW k \in 1 .. Len(down) PROVE down[k].type # "clear"
    <3>1. k + l \in 1 .. l + Len(down) /\ ~(k + l <= l) /\ k + l - l = k
      BY <2>1
    <3>2. all[k + l] = down[k]
      BY ONLY <2>1, <3>1
    <3> QED
      BY <2>1, <2>2, <3>1, <3>2
  <2> QED
    BY <2>3, <2>4
<1> HIDE DEF newer, cleared, rest
<1>5. /\ m.type \in Kinds /\ m.flag \in BOOLEAN /\ m.to \in 0 .. MaxEnd /\ m.gen \in 0 .. MaxGen
  BY <1>2, MessageFields
<1> HIDE DEF m
<1>6. /\ sock' \in Sockets /\ sock'.gen = sock.gen
      /\ IF whole THEN sock'.last = m.to /\ ~sock'.awaiting /\ ~sock'.pending
         ELSE sock'.awaiting = sock.awaiting /\ sock'.pending = sock.pending
      /\ m.type = "data" /\ ~sock.awaiting => sock'.last = AdvanceSeq(sock.last, m.to)
      /\ ~whole /\ (m.type # "data" \/ sock.awaiting) => sock'.last = sock.last
  <2>1. 0 \in 0 .. MaxRetries
    BY ResumeBounds
  <2>2. CASE whole
    <3>1. sock' = ResetSnapshotRepair([sock EXCEPT !.last = m.to, !.awaiting = FALSE,
                                                    !.pending = FALSE])
      BY <1>1, <2>2 DEF Acknowledged
    <3> QED
      BY <1>2, <1>5, <2>1, <2>2, <3>1 DEF ResetSnapshotRepair, Sockets, Cursors
  <2>3. CASE ~whole /\ m.type = "data" /\ ~sock.awaiting
    <3>1. sock' = [sock EXCEPT !.last = AdvanceSeq(@, m.to)]
      BY <1>1, <2>3 DEF Acknowledged
    <3>2. AdvanceSeq(sock.last, m.to) \in Cursors
      BY <1>2, <1>5, SocketFields DEF AdvanceSeq, Cursors
    <3> QED
      BY <1>2, <2>3, <3>1, <3>2 DEF Sockets
  <2>4. CASE ~whole /\ ~(m.type = "data" /\ ~sock.awaiting)
    BY <1>1, <1>2, <2>4 DEF Acknowledged
  <2> QED
    BY <2>2, <2>3, <2>4
<1>7. shown' \in SUBSET ((0 .. MaxGen) \X (0 .. MaxEnd - 1))
  BY <1>1, <1>2, CarriesTyped DEF TypeOK, Painted, m
<1>8. TypeOK'
  <2>1. state' \in {"connecting", "connected", "resyncing", "disconnected", "failed", "exited"}
    BY <1>1 DEF TypeOK
  <2>2. skipped' \in BOOLEAN
    BY <1>1 DEF TypeOK
  <2> QED
    BY <1>1, <1>2, <1>6, <1>7, <2>1, <2>2 DEF TypeOK
<1>9. sets <=> SetsCursor
  BY DEF SetsCursor, Last_, m
<1>10. whole <=> Last_(m)
  BY DEF Last_
<1> HIDE DEF sets, whole
<1>11. ~skipped' =>
         /\ ~skipped
         /\ Last_(m) /\ sock.awaiting =>
              sock.pending /\ \A k \in 1 .. Len(rest) : rest[k].type # "snapshot"
         /\ SetsCursor => sock.gen \in {None, m.gen}
         /\ ~sock'.awaiting /\ Resumable(sock'.last, sock'.gen) =>
              /\ \A k \in 1 .. Len(rest) : rest[k].type # "clear"
              /\ \A k \in 1 .. Len(down) : down[k].type # "clear"
  BY <1>1, <1>3, <1>4, <1>9, <1>10
<1> QED
  BY <1>1, <1>6, <1>8, <1>9, <1>10, <1>11 DEF m, rest

LEMMA CacheTyped ==
  ASSUME TypeOK, CacheScreen
  PROVE  /\ TypeOK' /\ writes = <<>> /\ ~sock.awaiting
         /\ cache'.gen = sock.gen /\ cache'.shown = shown
         /\ cache'.last = IF sock.last = None THEN 0 ELSE sock.last
         /\ UNCHANGED <<stream, down, up, serving, link, sock, writes, shown, origin, skipped>>
<1> DEFINE screen == [gen |-> sock.gen, shown |-> shown,
                      last |-> IF sock.last = None THEN 0 ELSE sock.last]
<1>1. /\ writes = <<>> /\ ~sock.awaiting /\ cache' = screen
      /\ UNCHANGED <<stream, down, up, serving, link, sock, state, writes, shown, desync,
                     events, origin, skipped>>
  BY DEF CacheScreen
<1>2. screen \in Screens
  BY SocketFields, ResumeBounds DEF Screens, TypeOK, Cursors
<1>3. TypeOK'
  BY <1>1, <1>2 DEF TypeOK
<1> QED
  BY <1>1, <1>3

\* A pane joins again: from the cached screen, or from none.
Joins(screen) ==
  /\ writes' = <<>> /\ cache' = screen /\ origin' = screen.gen /\ stream' = stream
  /\ sock'.last = screen.last /\ sock'.gen = screen.gen
  /\ ~sock'.awaiting /\ ~sock'.pending
  /\ link' # "open" /\ up' = <<>> /\ down' = <<>> /\ serving' = FALSE
  /\ ~skipped' => ~skipped /\ screen.shown \subseteq shown'

LEMMA NoScreenTyped == NoScreen \in Screens /\ NoScreen.last = None /\ NoScreen.gen = None
BY ResumeBounds DEF NoScreen, Screens, Cursors

LEMMA JoinedTyped ==
  ASSUME TypeOK, Remount \/ Retry
  PROVE  TypeOK' /\ \E screen \in {cache, NoScreen} : Joins(screen)
<1>1. \E screen \in {cache, NoScreen} :
        /\ Joined(screen) /\ Happens
        /\ \/ shown' = screen.shown /\ skipped' = skipped
           \/ shown' = shown /\ skipped' = (skipped \/ ~ screen.shown \subseteq shown)
  BY DEF Remount, Retry, ReadScreens
<1>2. PICK screen \in {cache, NoScreen} :
        /\ Joined(screen) /\ Happens
        /\ \/ shown' = screen.shown /\ skipped' = skipped
           \/ shown' = shown /\ skipped' = (skipped \/ ~ screen.shown \subseteq shown)
  BY <1>1
<1>3. screen \in Screens
  BY NoScreenTyped DEF TypeOK
<1> DEFINE c == [Client EXCEPT !.sock = NewSocket(screen.last, screen.gen)]
           d == Connecting(c)
<1>4. /\ Becomes(d) /\ writes' = <<>> /\ desync' = FALSE /\ cache' = screen
      /\ origin' = screen.gen /\ stream' = stream
  BY <1>2 DEF Joined
<1>5. /\ NewSocket(screen.last, screen.gen) \in Sockets
      /\ NewSocket(screen.last, screen.gen).last = screen.last
      /\ NewSocket(screen.last, screen.gen).gen = screen.gen
      /\ ~NewSocket(screen.last, screen.gen).awaiting
      /\ ~NewSocket(screen.last, screen.gen).pending
      /\ ~NewSocket(screen.last, screen.gen).closed
  <2>1. 0 \in 0 .. MaxRetries /\ screen.last \in Cursors /\ screen.gen \in 0 .. MaxGen \cup {None}
    BY <1>3, ResumeBounds DEF Screens
  <2> QED
    BY <2>1 DEF NewSocket, Sockets
<1> DEFINE s == NewSocket(screen.last, screen.gen)
<1>6. c \in Clients /\ c.sock = s
  <2>1. Client \in Clients
    BY ClientTyped
  <2> HIDE DEF s
  <2>2. s \in Sockets
    BY <1>5 DEF s
  <2>3. c = [Client EXCEPT !.sock = s]
    BY DEF s
  <2> QED
    BY <2>1, <2>2, <2>3 DEF Clients
<1> HIDE DEF c
<1>7. d \in Clients /\ d.sock = s /\ Broken(d)
  <2>1. d \in Clients /\ d.sock = c.sock /\ (~c.sock.closed => d.link = "opening")
        /\ (d = c \/ Broken(d))
    BY <1>6, ConnectingFacts
  <2>2. ~c.sock.closed
    BY <1>5, <1>6
  <2>3. Connecting(c) = [Unlinked(c) EXCEPT !.link = "opening", !.state = "connecting"]
    BY <2>2 DEF Connecting
  <2>4. Unlinked(c) \in Clients /\ Broken(Unlinked(c))
    BY <1>6, UnlinkedFacts
  <2>5. Broken(d)
    BY <2>3, <2>4 DEF Clients, Broken
  <2> QED
    BY <1>6, <2>1, <2>5
<1> HIDE DEF d
<1>8. sock' = s /\ link' # "open" /\ up' = <<>> /\ down' = <<>> /\ serving' = FALSE
  BY <1>4, <1>7 DEF Becomes, Broken
<1>9. screen.shown \in SUBSET ((0 .. MaxGen) \X (0 .. MaxEnd - 1))
  BY <1>3 DEF Screens
<1>10. TypeOK'
  <2>1. <<>> \in Seq(Messages)
    BY EmptySeq
  <2>2. /\ writes' \in Seq(Messages) /\ desync' \in BOOLEAN /\ skipped' \in BOOLEAN
        /\ shown' \in SUBSET ((0 .. MaxGen) \X (0 .. MaxEnd - 1)) /\ cache' \in Screens
    BY <1>2, <1>3, <1>4, <1>9, <2>1 DEF TypeOK
  <2> QED
    BY <1>2, <1>4, <1>7, <2>2, ElsewhereTyped
<1>11. ~skipped' => ~skipped /\ screen.shown \subseteq shown'
  BY <1>2
<1>12. Joins(screen)
  BY <1>4, <1>5, <1>8, <1>11 DEF Joins
<1> QED
  BY <1>10, <1>12

LEMMA RegenerateTyped ==
  ASSUME TypeOK, LinkOK, Regenerate
  PROVE  /\ TypeOK' /\ stream'.gen = stream.gen + 1 /\ stream'.base = 0 /\ stream'.end = 0
         /\ link' # "open" /\ up' = <<>> /\ down' = <<>> /\ serving' = FALSE
         /\ sock'.last = sock.last /\ sock'.gen = sock.gen
         /\ UNCHANGED <<writes, shown, cache, origin, skipped>>
<1> DEFINE b == [Unlinked(Client) EXCEPT !.state = "disconnected"]
           d == IF link = "none" THEN Client ELSE ScheduleReconnect(b)
<1>1. /\ stream' = [gen |-> stream.gen + 1, base |-> 0, end |-> 0] /\ stream.gen < MaxGen
      /\ Happens /\ Becomes(d)
      /\ UNCHANGED <<writes, shown, desync, cache, origin, skipped>>
  BY DEF Regenerate
<1>2. Client \in Clients /\ Client.sock = sock /\ Client.link = link /\ Client.up = up
      /\ Client.down = down /\ Client.serving = serving
  BY ClientTyped DEF Client
<1>3. b \in Clients /\ b.sock = sock /\ Broken(b)
  BY <1>2, UnlinkedFacts DEF Clients, Broken, States
<1> HIDE DEF b
<1>4. /\ ScheduleReconnect(b) \in Clients
      /\ SameCursor(b, ScheduleReconnect(b)) /\ SameLink(b, ScheduleReconnect(b))
  BY <1>3, ScheduleReconnectFacts
<1>5. link = "none" => Broken(Client)
  BY <1>2 DEF LinkOK, Broken, TypeOK
<1>6. d \in Clients /\ d.sock.last = sock.last /\ d.sock.gen = sock.gen /\ Broken(d)
  BY <1>2, <1>3, <1>4, <1>5 DEF SameCursor, SameLink, Broken
<1> HIDE DEF d
<1>7. sock' = d.sock /\ link' # "open" /\ up' = <<>> /\ down' = <<>> /\ serving' = FALSE
  BY <1>1, <1>6 DEF Becomes, Broken
<1>8. TypeOK'
  <2>1. /\ sock' \in Sockets /\ state' \in States /\ link' \in {"none", "opening", "open"}
        /\ up' \in Seq(Calls) /\ down' \in Seq(Messages) /\ serving' \in BOOLEAN
    BY <1>1, <1>6, BecomesTyped
  <2>2. stream' \in [gen : 0 .. MaxGen, base : 0 .. MaxEnd, end : 0 .. MaxEnd]
    BY <1>1, StreamFields, ResumeBounds
  <2>3. events' \in 0 .. MaxEvents
    BY <1>1, EventsTyped
  <2> QED
    BY <1>1, <2>1, <2>2, <2>3 DEF TypeOK, States
<1> QED
  BY <1>1, <1>6, <1>7, <1>8
-----------------------------------------------------------------------------
(***************************************************************************)
(* The screen after a number of messages.                                  *)
(***************************************************************************)
LEMMA ScreenMember ==
  ASSUME NEW s, NEW ms, NEW n, NEW byte
  PROVE  byte \in ScreenAfter(s, ms, n) <=>
           \/ byte \in s /\ \A i \in 1 .. n : ~Resets(ms[i])
           \/ \E j \in 1 .. n : byte \in Carries(ms[j]) /\ \A i \in j + 1 .. n : ~Resets(ms[i])
BY DEF ScreenAfter

LEMMA ScreenNone ==
  ASSUME NEW s, NEW ms
  PROVE  ScreenAfter(s, ms, 0) = s
<1>1. ASSUME NEW byte
      PROVE  byte \in ScreenAfter(s, ms, 0) <=> byte \in s
  BY ScreenMember
<1> QED
  BY <1>1

\* Only the messages up to there count.
LEMMA ScreenSame ==
  ASSUME NEW s, NEW ms, NEW ns, NEW n \in Nat, \A i \in 1 .. n : ns[i] = ms[i]
  PROVE  ScreenAfter(s, ns, n) = ScreenAfter(s, ms, n)
<1>1. ASSUME NEW byte
      PROVE  byte \in ScreenAfter(s, ns, n) <=> byte \in ScreenAfter(s, ms, n)
  <2>1. \A i \in 1 .. n : Resets(ns[i]) = Resets(ms[i]) /\ Carries(ns[i]) = Carries(ms[i])
    OBVIOUS
  <2>2. \A j \in 1 .. n : \A i \in j + 1 .. n : i \in 1 .. n
    OBVIOUS
  <2> DEFINE left(k) == ~Resets(ns[k])
             kept(k) == ~Resets(ms[k])
             put(k) == Carries(ns[k])
             was(k) == Carries(ms[k])
  <2>3. \A i \in 1 .. n : (left(i) <=> kept(i)) /\ put(i) = was(i)
    BY <2>1
  <2>4. byte \in ScreenAfter(s, ns, n) <=>
          \/ byte \in s /\ \A i \in 1 .. n : left(i)
          \/ \E j \in 1 .. n : byte \in put(j) /\ \A i \in j + 1 .. n : left(i)
    BY ScreenMember
  <2>5. byte \in ScreenAfter(s, ms, n) <=>
          \/ byte \in s /\ \A i \in 1 .. n : kept(i)
          \/ \E j \in 1 .. n : byte \in was(j) /\ \A i \in j + 1 .. n : kept(i)
    BY ScreenMember
  <2> HIDE DEF left, kept, put, was
  <2>6. (\A i \in 1 .. n : left(i)) <=> (\A i \in 1 .. n : kept(i))
    BY <2>3
  <2>7. \A j \in 1 .. n : (\A i \in j + 1 .. n : left(i)) <=> (\A i \in j + 1 .. n : kept(i))
    BY <2>2, <2>3
  <2>8. (\E j \in 1 .. n : byte \in put(j) /\ \A i \in j + 1 .. n : left(i)) <=>
        (\E j \in 1 .. n : byte \in was(j) /\ \A i \in j + 1 .. n : kept(i))
    BY <2>3, <2>7
  <2> QED
    BY <2>4, <2>5, <2>6, <2>8
<1> QED
  BY <1>1

\* One message more.
LEMMA ScreenNext ==
  ASSUME NEW s, NEW ms, NEW n \in Nat
  PROVE  ScreenAfter(s, ms, n + 1) = Painted(ScreenAfter(s, ms, n), ms[n + 1])
<1> DEFINE resets(k) == Resets(ms[k])
           put(k) == Carries(ms[k])
           m == n + 1
<1>1. ASSUME NEW byte
      PROVE  byte \in ScreenAfter(s, ms, m) <=>
               byte \in Painted(ScreenAfter(s, ms, n), ms[m])
  <2>1. byte \in ScreenAfter(s, ms, m) <=>
          \/ byte \in s /\ \A i \in 1 .. m : ~resets(i)
          \/ \E j \in 1 .. m : byte \in put(j) /\ \A i \in j + 1 .. m : ~resets(i)
    BY ScreenMember
  <2>2. byte \in ScreenAfter(s, ms, n) <=>
          \/ byte \in s /\ \A i \in 1 .. n : ~resets(i)
          \/ \E j \in 1 .. n : byte \in put(j) /\ \A i \in j + 1 .. n : ~resets(i)
    BY ScreenMember
  <2>3. byte \in Painted(ScreenAfter(s, ms, n), ms[m]) <=>
          \/ ~resets(m) /\ byte \in ScreenAfter(s, ms, n)
          \/ byte \in put(m)
    BY DEF Painted
  <2>4. m = n + 1 /\ m \in Nat
    OBVIOUS
  <2> HIDE DEF resets, put, m
  <2>5. (\A i \in 1 .. m : ~resets(i)) <=> (\A i \in 1 .. n : ~resets(i)) /\ ~resets(m)
    <3>1. \A i \in Int : i \in 1 .. m <=> i \in 1 .. n \/ i = m
      BY <2>4
    <3> QED
      BY <3>1, <2>4
  <2>6. \A j \in 1 .. n : (\A i \in j + 1 .. m : ~resets(i)) <=>
                          (\A i \in j + 1 .. n : ~resets(i)) /\ ~resets(m)
    <3> SUFFICES ASSUME NEW j \in 1 .. n
                 PROVE  (\A i \in j + 1 .. m : ~resets(i)) <=>
                          (\A i \in j + 1 .. n : ~resets(i)) /\ ~resets(m)
      OBVIOUS
    <3>1. \A i \in Int : i \in j + 1 .. m <=> i \in j + 1 .. n \/ i = m
      BY <2>4
    <3> QED
      BY <3>1, <2>4
  <2>7. \A i \in m + 1 .. m : ~resets(i)
    BY <2>4
  <2>8. (\E j \in 1 .. m : byte \in put(j) /\ \A i \in j + 1 .. m : ~resets(i)) <=>
          \/ \E j \in 1 .. n : byte \in put(j) /\ \A i \in j + 1 .. m : ~resets(i)
          \/ byte \in put(m)
    <3>1. \A j \in Int : j \in 1 .. m <=> j \in 1 .. n \/ j = m
      BY <2>4
    <3> QED
      BY <3>1, <2>4, <2>7
  <2> QED
    BY <2>1, <2>2, <2>3, <2>5, <2>6, <2>8
<1> QED
  BY <1>1

\* The first message is painted already.
LEMMA ScreenShift ==
  ASSUME NEW s, NEW ms, NEW ns, NEW n \in Nat, \A i \in 1 .. n : ns[i] = ms[i + 1]
  PROVE  ScreenAfter(s, ms, n + 1) = ScreenAfter(Painted(s, ms[1]), ns, n)
<1> DEFINE resets(k) == Resets(ms[k])
           put(k) == Carries(ms[k])
           m == n + 1
<1>1. ASSUME NEW byte
      PROVE  byte \in ScreenAfter(s, ms, m) <=> byte \in ScreenAfter(Painted(s, ms[1]), ns, n)
  <2>1. byte \in ScreenAfter(s, ms, m) <=>
          \/ byte \in s /\ \A i \in 1 .. m : ~resets(i)
          \/ \E j \in 1 .. m : byte \in put(j) /\ \A i \in j + 1 .. m : ~resets(i)
    BY ScreenMember
  <2>2. byte \in Painted(s, ms[1]) <=> (~resets(1) /\ byte \in s) \/ byte \in put(1)
    BY DEF Painted
  <2> DEFINE cleared(k) == Resets(ns[k])
             got(k) == Carries(ns[k])
             screen == Painted(s, ms[1])
  <2>3. byte \in ScreenAfter(screen, ns, n) <=>
          \/ byte \in screen /\ \A i \in 1 .. n : ~cleared(i)
          \/ \E j \in 1 .. n : byte \in got(j) /\ \A i \in j + 1 .. n : ~cleared(i)
    BY ScreenMember
  <2>4. \A i \in 1 .. n : (cleared(i) <=> resets(i + 1)) /\ got(i) = put(i + 1)
    OBVIOUS
  <2>5. m = n + 1 /\ m \in Nat
    OBVIOUS
  <2> HIDE DEF resets, put, m, cleared, got, screen
  <2>6. (\A i \in 1 .. m : ~resets(i)) <=> ~resets(1) /\ \A i \in 1 .. n : ~cleared(i)
    <3>1. ASSUME \A i \in 1 .. m : ~resets(i)
          PROVE  ~resets(1) /\ \A i \in 1 .. n : ~cleared(i)
      <4>1. \A i \in 1 .. n : i + 1 \in 1 .. m
        BY <2>5
      <4>2. 1 \in 1 .. m
        BY <2>5
      <4> QED
        BY <2>4, <3>1, <4>1, <4>2
    <3>2. ASSUME ~resets(1), \A i \in 1 .. n : ~cleared(i), NEW i \in 1 .. m
          PROVE  ~resets(i)
      <4>1. i = 1 \/ (i - 1 \in 1 .. n /\ (i - 1) + 1 = i)
        BY <2>5
      <4> QED
        BY <2>4, <3>2, <4>1
    <3> QED
      BY <3>1, <3>2
  <2>7. (\A i \in 2 .. m : ~resets(i)) <=> \A i \in 1 .. n : ~cleared(i)
    <3>1. ASSUME \A i \in 2 .. m : ~resets(i)
          PROVE  \A i \in 1 .. n : ~cleared(i)
      <4>1. \A i \in 1 .. n : i + 1 \in 2 .. m
        BY <2>5
      <4> QED
        BY <2>4, <3>1, <4>1
    <3>2. ASSUME \A i \in 1 .. n : ~cleared(i), NEW i \in 2 .. m
          PROVE  ~resets(i)
      <4>1. i - 1 \in 1 .. n /\ (i - 1) + 1 = i
        BY <2>5
      <4> QED
        BY <2>4, <3>2, <4>1
    <3> QED
      BY <3>1, <3>2
  <2>8. ASSUME NEW j \in 1 .. n
        PROVE  (\A i \in (j + 1) + 1 .. m : ~resets(i)) <=> \A i \in j + 1 .. n : ~cleared(i)
    <3>1. ASSUME \A i \in (j + 1) + 1 .. m : ~resets(i)
          PROVE  \A i \in j + 1 .. n : ~cleared(i)
      <4>1. \A i \in j + 1 .. n : i + 1 \in (j + 1) + 1 .. m /\ i \in 1 .. n
        BY <2>5
      <4> QED
        BY <2>4, <3>1, <4>1
    <3>2. ASSUME \A i \in j + 1 .. n : ~cleared(i), NEW i \in (j + 1) + 1 .. m
          PROVE  ~resets(i)
      <4>1. i - 1 \in j + 1 .. n /\ i - 1 \in 1 .. n /\ (i - 1) + 1 = i
        BY <2>5
      <4> QED
        BY <2>4, <3>2, <4>1
    <3> QED
      BY <3>1, <3>2
  <2>9. (\E j \in 1 .. m : byte \in put(j) /\ \A i \in j + 1 .. m : ~resets(i)) <=>
          \/ byte \in put(1) /\ \A i \in 1 .. n : ~cleared(i)
          \/ \E j \in 1 .. n : byte \in got(j) /\ \A i \in j + 1 .. n : ~cleared(i)
    <3>0. 1 \in 1 .. m /\ 1 + 1 = 2
      BY <2>5
    <3>1. ASSUME NEW j \in 1 .. m, byte \in put(j), \A i \in j + 1 .. m : ~resets(i)
          PROVE  \/ byte \in put(1) /\ \A i \in 1 .. n : ~cleared(i)
                 \/ \E k \in 1 .. n : byte \in got(k) /\ \A i \in k + 1 .. n : ~cleared(i)
      <4>1. CASE j = 1
        BY <2>7, <3>0, <3>1, <4>1
      <4>2. CASE j # 1
        <5>1. j - 1 \in 1 .. n /\ (j - 1) + 1 = j
          BY <2>5, <4>2
        <5> QED
          BY <2>4, <2>8, <3>1, <5>1
      <4> QED
        BY <4>1, <4>2
    <3>2. ASSUME byte \in put(1), \A i \in 1 .. n : ~cleared(i)
          PROVE  \E j \in 1 .. m : byte \in put(j) /\ \A i \in j + 1 .. m : ~resets(i)
      BY <2>7, <3>0, <3>2
    <3>3. ASSUME NEW k \in 1 .. n, byte \in got(k), \A i \in k + 1 .. n : ~cleared(i)
          PROVE  \E j \in 1 .. m : byte \in put(j) /\ \A i \in j + 1 .. m : ~resets(i)
      <4>1. k + 1 \in 1 .. m
        BY <2>5
      <4> QED
        BY <2>4, <2>8, <3>3, <4>1
    <3> QED
      BY <3>1, <3>2, <3>3
  <2> QED
    BY <2>1, <2>2, <2>3, <2>6, <2>9 DEF screen
<1> QED
  BY <1>1

\* What the messages paint.
LEMMA PaintedFacts ==
  ASSUME NEW s, NEW m
  PROVE  /\ ~Terminal(m) => Painted(s, m) = s /\ ~Resets(m)
         /\ ~Resets(m) => s \subseteq Painted(s, m)
         /\ m.type = "data" => Painted(s, m) = s \cup Bytes(m.gen, m.from, m.to) /\ ~Resets(m)
         /\ m.type = "clear" => Painted(s, m) = {} /\ Resets(m)
         /\ Last_(m) => Painted(s, m) = Bytes(m.gen, 0, m.to) /\ Resets(m)
         /\ Resets(m) <=> m.type = "clear" \/ Last_(m)
BY DEF Terminal, Painted, Resets, Carries, Last_

LEMMA BytesFacts ==
  ASSUME NEW gen, NEW from \in Int, NEW to \in Int
  PROVE  /\ to <= from => Bytes(gen, from, to) = {}
         /\ \A f \in Int, t \in Int : f <= from /\ to <= t =>
              Bytes(gen, from, to) \subseteq Bytes(gen, f, t)
         /\ \A mid \in Int :
              Bytes(gen, from, to) \subseteq Bytes(gen, from, mid) \cup Bytes(gen, mid, to)
BY DEF Bytes
-----------------------------------------------------------------------------
(***************************************************************************)
(* Steps that lose the link or leave it as it is.                          *)
(***************************************************************************)
LEMMA TypedFacts ==
  ASSUME TypeOK
  PROVE  /\ down \in Seq(Messages) /\ writes \in Seq(Messages) /\ up \in Seq(Calls)
         /\ Len(down) \in Nat /\ Len(writes) \in Nat /\ Len(up) \in Nat
         /\ \A i \in 1 .. Len(down) : down[i] \in Messages
         /\ \A i \in 1 .. Len(writes) : writes[i] \in Messages
         /\ \A i \in 1 .. Len(up) : up[i] \in Calls
         /\ sock \in Sockets /\ sock.last \in Int /\ sock.gen \in Int
         /\ cache \in Screens /\ cache.last \in Int /\ cache.gen \in Int
         /\ stream.gen \in Nat /\ stream.base \in Nat /\ stream.end \in Nat
         /\ None = -1
<1>1. MaxEnd \in Nat /\ MaxGen \in Nat
  BY ResumeBounds
<1>2. sock.last \in Int /\ sock.gen \in Int /\ cache.last \in Int /\ cache.gen \in Int
  BY <1>1 DEF TypeOK, Sockets, Screens, Cursors, None
<1>3. down \in Seq(Messages) /\ writes \in Seq(Messages) /\ up \in Seq(Calls)
      /\ sock \in Sockets /\ cache \in Screens
  BY DEF TypeOK
<1> QED
  BY <1>2, <1>3, StreamFields DEF None

\* With the link empty, only the write queue and the cursor count.
LEMMA EmptyLink ==
  ASSUME down' = <<>>, up' = <<>>, serving' = FALSE
  PROVE  /\ AnswersOK' /\ AttachOK' /\ SettledOK' /\ FramesOK' /\ NextOK' /\ LinkOrdered'
         /\ Len(down') = 0
<1>1. Len(down') = 0
  OBVIOUS
<1>2. \A i \in 1 .. Len(down') : FALSE
  BY <1>1
<1> QED
  BY <1>1, <1>2 DEF AnswersOK, AttachOK, SettledOK, FramesOK, NextOK, LinkOrdered

\* The writes without the link.
LEMMA WritesAlone ==
  ASSUME TypeOK, OrderOK, Elsewhere, sock'.last = sock.last, down' = <<>>
  PROVE  BoundsOK' /\ WritesOrdered'
<1>1. \A j \in 1 .. Len(down') : FALSE
  BY DEF Elsewhere
<1>2. BoundsOK /\ WritesOrdered
  BY DEF OrderOK
<1>3. stream' = stream /\ writes' = writes /\ cache' = cache /\ origin' = origin
  BY DEF Elsewhere
<1>4. CursorSet' <=> CursorSet
  BY <1>3 DEF CursorSet
<1> QED
  BY <1>1, <1>2, <1>3, <1>4 DEF BoundsOK, WritesOrdered, Content

LEMMA GoneLink ==
  ASSUME TypeOK, LinkOK, Elsewhere, up' = <<>>, down' = <<>>, serving' = FALSE,
         link' # "open", sock'.gen <= stream.gen
  PROVE  LinkOK'
<1>1. \A i \in 1 .. Len(down') : FALSE
  BY DEF Elsewhere
<1>2. \A i \in 1 .. Len(up') : FALSE
  BY DEF Elsewhere
<1> QED
  BY <1>1, <1>2 DEF Elsewhere, LinkOK

LEMMA GoneStep ==
  ASSUME TypeOK, Elsewhere, up' = <<>>, down' = <<>>, serving' = FALSE,
         sock'.last = sock.last, OrderOK, CacheOK, OriginOK', QueueOK', Honest'
  PROVE  AnswersOK' /\ Faithful'
<1>1. /\ AnswersOK' /\ AttachOK' /\ SettledOK' /\ FramesOK' /\ NextOK' /\ LinkOrdered'
  BY EmptyLink
<1>2. BoundsOK' /\ WritesOrdered'
  BY WritesAlone
<1>3. CacheOK'
  BY DEF CacheOK, Elsewhere, Resumable
<1> QED
  BY <1>1, <1>2, <1>3 DEF Faithful, OrderOK

\* A request behind the calls on the way is no attach.
UpKept == up' = up \/ \E call \in Calls : call.type = "request" /\ up' = Append(up, call)

LEMMA UpFacts ==
  ASSUME TypeOK, UpKept
  PROVE  /\ up' # <<>> /\ Head(up').type = "attach" => up # <<>> /\ Head(up') = Head(up)
         /\ \A i \in 1 .. Len(up') : up'[i].type = "attach" =>
              i \in 1 .. Len(up) /\ up'[i] = up[i]
<1>1. CASE up' = up
  BY <1>1
<1>2. CASE \E call \in Calls : call.type = "request" /\ up' = Append(up, call)
  <2>1. PICK call \in Calls : call.type = "request" /\ up' = Append(up, call)
    BY <1>2
  <2>2. up \in Seq(Calls) /\ Len(up) \in Nat
    BY DEF TypeOK
  <2>3. /\ Len(up') = Len(up) + 1 /\ up'[Len(up) + 1] = call
        /\ \A i \in 1 .. Len(up) : up'[i] = up[i]
    BY <2>1, <2>2
  <2>4. Head(up') = up'[1] /\ (up # <<>> => Head(up) = up[1]) /\ (up = <<>> <=> Len(up) = 0)
    BY <2>1, <2>2
  <2>5. \A i \in 1 .. Len(up') : i \in 1 .. Len(up) \/ i = Len(up) + 1
    BY <2>2, <2>3
  <2> QED
    BY <2>1, <2>2, <2>3, <2>4, <2>5
<1> QED
  BY <1>1, <1>2 DEF UpKept

LEMMA KeepsCases ==
  ASSUME NEW rest, Keeps(rest)
  PROVE  \/ UpKept /\ down' = rest /\ serving' = serving /\ link' = link
         \/ up' = <<>> /\ down' = <<>> /\ serving' = FALSE /\ link' # "open"
BY DEF Keeps, UpKept

LEMMA IdleKeeps ==
  ASSUME TypeOK, LinkOK, Idles
  PROVE  LinkOK' /\ (AnswersOK /\ Faithful => AnswersOK' /\ Faithful')
<1>1. /\ Elsewhere /\ Keeps(down)
      /\ sock'.last = sock.last /\ sock'.gen = sock.gen /\ sock'.pending = sock.pending
      /\ sock.awaiting => sock'.awaiting
  BY DEF Idles
<1>2. /\ stream' = stream /\ writes' = writes /\ shown' = shown /\ cache' = cache
      /\ origin' = origin
  BY <1>1 DEF Elsewhere
<1>3. Eventual' = Eventual
  BY <1>2 DEF Eventual
<1>4. LossKnown => LossKnown'
  BY <1>1, <1>2 DEF LossKnown, Last_
<1>5. CursorSet' <=> CursorSet
  BY <1>1, <1>2 DEF CursorSet
<1>6. QueueOK => QueueOK'
  BY <1>2, <1>3, <1>4 DEF QueueOK, WholeNow, Content
<1>7. Honest => Honest'
  BY <1>1, <1>2, <1>3 DEF Honest, Resumable
<1>8. (OriginOK => OriginOK') /\ (CacheOK => CacheOK')
  BY <1>1, <1>2 DEF OriginOK, CacheOK, Resumable
<1>9. sock.gen <= stream.gen
  BY DEF LinkOK
<1>10. CASE up' = <<>> /\ down' = <<>> /\ serving' = FALSE /\ link' # "open"
  <2>1. LinkOK'
    BY <1>1, <1>9, <1>10, GoneLink
  <2>2. ASSUME Faithful PROVE AnswersOK' /\ Faithful'
    <3>1. OrderOK /\ CacheOK /\ OriginOK' /\ QueueOK' /\ Honest'
      BY <1>6, <1>7, <1>8, <2>2 DEF Faithful, OrderOK
    <3> QED
      BY <1>1, <1>10, <3>1, GoneStep
  <2> QED
    BY <2>1, <2>2
<1>11. CASE UpKept /\ down' = down /\ serving' = serving /\ link' = link
  <2>1. \/ link = "open" \/ up' = up
    BY <1>1, <1>11 DEF Keeps, LinkOK
  <2>2. LinkOK'
    <3>1. \A i \in 1 .. Len(up') : up'[i].type = "attach" => i = 1 /\ ~serving'
      BY <1>11, UpFacts DEF LinkOK
    <3> QED
      BY <1>1, <1>2, <1>11, <2>1, <3>1 DEF LinkOK
  <2>3. ASSUME AnswersOK, Faithful
        PROVE  AnswersOK' /\ Faithful'
    <3>1. AnswersOK'
      BY <1>11, <2>3 DEF AnswersOK, Resets
    <3>2. OrderOK'
      BY <1>1, <1>2, <1>5, <1>11, <2>3
         DEF Faithful, OrderOK, OriginOK, BoundsOK, WritesOrdered, LinkOrdered, Content
    <3>3. AttachOK'
      BY <1>2, <1>3, <1>11, <2>3, UpFacts DEF Faithful, AttachOK, Resumable, WholeNow
    <3>4. SettledOK'
      BY <1>1, <1>2, <1>3, <1>5, <1>11, <2>3
         DEF Faithful, SettledOK, Settles, WholeAt, ScreenAt, Content
    <3>5. FramesOK' /\ NextOK'
      BY <1>2, <1>3, <1>4, <1>11, <2>3 DEF Faithful, FramesOK, NextOK, LossAt, WholeAt, ScreenAt
    <3> QED
      BY <1>6, <1>7, <1>8, <2>3, <3>1, <3>2, <3>3, <3>4, <3>5 DEF Faithful
  <2> QED
    BY <2>2, <2>3
<1> QED
  BY <1>1, <1>10, <1>11, KeepsCases
-----------------------------------------------------------------------------
(***************************************************************************)
(* Steps that take the first message off the link.                         *)
(***************************************************************************)
Takes == down # <<>> /\ down' = Tail(down) /\ stream' = stream /\ serving' = serving

LEMMA TakenFacts ==
  ASSUME TypeOK, Takes
  PROVE  /\ Len(down) \in Nat /\ Len(down) >= 1 /\ Len(down') = Len(down) - 1
         /\ Head(down) = down[1] /\ 1 \in 1 .. Len(down)
         /\ \A i \in 1 .. Len(down') : i + 1 \in 1 .. Len(down) /\ down'[i] = down[i + 1]
         /\ \A i \in 1 .. Len(down) : i # 1 => i - 1 \in 1 .. Len(down') /\ down'[i - 1] = down[i]
<1>1. down \in Seq(Messages) /\ down # <<>> /\ down' = Tail(down)
  BY DEF TypeOK, Takes
<1>2. /\ Len(down) \in Nat /\ Len(down) >= 1 /\ Head(down) = down[1]
      /\ Len(Tail(down)) = Len(down) - 1
      /\ \A i \in 1 .. Len(down) - 1 : Tail(down)[i] = down[i + 1]
  BY <1>1
<1>3. Len(down') = Len(down) - 1 /\ \A i \in 1 .. Len(down) - 1 : down'[i] = down[i + 1]
  BY <1>1, <1>2
<1>4. ASSUME NEW i \in 1 .. Len(down), i # 1
      PROVE  i - 1 \in 1 .. Len(down') /\ down'[i - 1] = down[i]
  <2>1. i - 1 \in 1 .. Len(down) - 1 /\ (i - 1) + 1 = i
    BY <1>2, <1>4
  <2> QED
    BY <1>3, <2>1
<1> QED
  BY <1>2, <1>3, <1>4

LEMMA TakenLoss ==
  ASSUME TypeOK, Takes, NEW n \in 0 .. Len(down'), LossAt(n + 1),
         Announces(down[1]) => LossKnown', LossKnown /\ ~Ends(down[1]) => LossKnown'
  PROVE  GapOpen(down', n) \/ (LossKnown' /\ Unended(down', n))
<1>1. /\ Len(down) \in Nat /\ Len(down') = Len(down) - 1 /\ Len(down) >= 1
      /\ \A i \in 1 .. Len(down') : i + 1 \in 1 .. Len(down) /\ down'[i] = down[i + 1]
      /\ \A i \in 1 .. Len(down) : i # 1 => i - 1 \in 1 .. Len(down') /\ down'[i - 1] = down[i]
  BY TakenFacts
<1>2. \A i \in 1 .. n : i + 1 \in 2 .. n + 1 /\ down'[i] = down[i + 1]
  BY <1>1
<1>3. CASE LossKnown /\ Unended(down, n + 1)
  <2>1. 1 \in 1 .. n + 1 /\ \A i \in 2 .. n + 1 : i \in 1 .. n + 1
    BY <1>1
  <2>2. LossKnown'
    BY <1>3, <2>1 DEF Unended
  <2>3. \A i \in 1 .. n : ~Ends(down'[i])
    BY <1>2, <1>3, <2>1 DEF Unended
  <2> QED
    BY <2>2, <2>3 DEF Unended
<1>4. ASSUME NEW g \in 1 .. n + 1, Announces(down[g]), \A i \in g + 1 .. n + 1 : ~Ends(down[i])
      PROVE  GapOpen(down', n) \/ (LossKnown' /\ Unended(down', n))
  <2>1. CASE g = 1
    <3>1. LossKnown'
      BY <1>4, <2>1
    <3>2. \A i \in 1 .. n : ~Ends(down'[i])
      BY <1>2, <1>4, <2>1
    <3> QED
      BY <3>1, <3>2 DEF Unended
  <2>2. CASE g # 1
    <3>1. g - 1 \in 1 .. n /\ down'[g - 1] = down[g]
      BY <1>1, <2>2
    <3>2. ASSUME NEW i \in (g - 1) + 1 .. n PROVE ~Ends(down'[i])
      <4>1. i + 1 \in g + 1 .. n + 1 /\ i \in 1 .. n
        BY <2>2
      <4> QED
        BY <1>2, <1>4, <4>1
    <3>3. Announces(down'[g - 1])
      BY <1>4, <3>1
    <3> QED
      BY <3>1, <3>2, <3>3 DEF GapOpen
  <2> QED
    BY <2>1, <2>2
<1> QED
  BY <1>3, <1>4 DEF LossAt, GapOpen

\* What is left of the invariants that speak of the link.
LEMMA TakenStep ==
  ASSUME TypeOK, Takes, sock'.last = sock.last, origin' = origin,
         \A n \in 0 .. Len(down') :
           ScreenAfter(Eventual', down', n) = ScreenAfter(Eventual, down, n + 1),
         \A i \in 1 .. Len(writes') :
           writes'[i] = down[1] \/ \E k \in 1 .. Len(writes) : writes'[i] = writes[k],
         Announces(down[1]) => LossKnown', LossKnown /\ ~Ends(down[1]) => LossKnown',
         AnswersOK, SettledOK, FramesOK, NextOK, LinkOrdered
  PROVE  AnswersOK' /\ SettledOK' /\ FramesOK' /\ NextOK' /\ LinkOrdered'
<1>1. /\ Len(down) \in Nat /\ Len(down') = Len(down) - 1 /\ Len(down) >= 1
      /\ \A i \in 1 .. Len(down') : i + 1 \in 1 .. Len(down) /\ down'[i] = down[i + 1]
      /\ \A i \in 1 .. Len(down) : i # 1 => i - 1 \in 1 .. Len(down') /\ down'[i - 1] = down[i]
      /\ Len(down') \in Nat /\ 1 \in 1 .. Len(down)
  BY TakenFacts
<1>2. stream' = stream /\ serving' = serving /\ (CursorSet' <=> CursorSet)
  BY DEF Takes, CursorSet
<1> DEFINE whole(n, to) == Bytes(stream.gen, stream.base, to) \subseteq
                             ScreenAfter(Eventual', down', n)
           lost(n) == GapOpen(down', n) \/ (LossKnown' /\ Unended(down', n))
<1>4. ASSUME NEW n \in 0 .. Len(down'), NEW to, WholeAt(n + 1, to)
      PROVE  whole(n, to)
  BY <1>4 DEF WholeAt, ScreenAt
<1>5. ASSUME NEW n \in 0 .. Len(down'), LossAt(n + 1)
      PROVE  lost(n)
  BY <1>5, TakenLoss
<1>6. AnswersOK'
  <2>1. ASSUME NEW i \in 1 .. Len(down'), down'[i].type \in {"clear", "snapshot"}
        PROVE  \E r \in i + 1 .. Len(down') : down'[r].type \in {"attached", "resynced"}
    <3>1. i + 1 \in 1 .. Len(down) /\ down[i + 1].type \in {"clear", "snapshot"}
      BY <1>1, <2>1
    <3>2. PICK r \in (i + 1) + 1 .. Len(down) : down[r].type \in {"attached", "resynced"}
      BY <3>1 DEF AnswersOK
    <3>3. r - 1 \in i + 1 .. Len(down') /\ down'[r - 1] = down[r]
      BY <1>1
    <3> QED
      BY <3>2, <3>3
  <2>2. ASSUME NEW g \in 1 .. Len(down'), NEW r \in 1 .. Len(down'), g < r,
               down'[g].type = "gap", Settles(down'[r])
        PROVE  \E i \in g + 1 .. r - 1 : Resets(down'[i])
    <3>1. /\ g + 1 \in 1 .. Len(down) /\ r + 1 \in 1 .. Len(down) /\ g + 1 < r + 1
          /\ down[g + 1].type = "gap" /\ Settles(down[r + 1])
      BY <1>1, <2>2
    <3>2. PICK i \in (g + 1) + 1 .. (r + 1) - 1 : Resets(down[i])
      BY <3>1 DEF AnswersOK
    <3>3. /\ g \in Int /\ r \in Int /\ i \in Int /\ i - 1 \in g + 1 .. r - 1
          /\ i - 1 \in 1 .. Len(down') /\ (i - 1) + 1 = i
      BY <1>1
    <3>4. down'[i - 1] = down[i]
      BY <1>1, <3>3
    <3> QED
      BY <3>2, <3>3, <3>4
  <2> QED
    BY <2>1, <2>2 DEF AnswersOK
<1>7. LinkOrdered'
  <2> SUFFICES ASSUME NEW i \in 1 .. Len(down'), Content(down'[i])
               PROVE  /\ down'[i].to <= stream.end
                      /\ CursorSet => sock.last <= down'[i].to
                      /\ \A j \in i + 1 .. Len(down') :
                           Content(down'[j]) => down'[i].to <= down'[j].to
    BY <1>2 DEF LinkOrdered, Content
  <2>1. i + 1 \in 1 .. Len(down) /\ Content(down[i + 1]) /\ down'[i] = down[i + 1]
    BY <1>1
  <2>2. /\ down[i + 1].to <= stream.end
        /\ CursorSet => sock.last <= down[i + 1].to
        /\ \A j \in (i + 1) + 1 .. Len(down) : Content(down[j]) => down[i + 1].to <= down[j].to
    BY <2>1 DEF LinkOrdered
  <2>3. ASSUME NEW j \in i + 1 .. Len(down'), Content(down'[j])
        PROVE  down'[i].to <= down'[j].to
    <3>1. j + 1 \in (i + 1) + 1 .. Len(down) /\ down'[j] = down[j + 1]
      BY <1>1
    <3> QED
      BY <2>1, <2>2, <2>3, <3>1
  <2> QED
    BY <2>1, <2>2, <2>3
<1>8. SettledOK'
  <2> SUFFICES ASSUME NEW r \in 1 .. Len(down'), Settles(down'[r])
               PROVE  /\ CursorSet => whole(r - 1, sock.last)
                      /\ \A i \in 1 .. Len(writes') :
                           Content(writes'[i]) => whole(r - 1, writes'[i].to)
                      /\ \A i \in 1 .. r - 1 :
                           Content(down'[i]) => whole(r - 1, down'[i].to)
    BY <1>2 DEF SettledOK, WholeAt, ScreenAt, Content
  <2>1. r + 1 \in 1 .. Len(down) /\ Settles(down[r + 1]) /\ r - 1 \in 0 .. Len(down')
        /\ (r + 1) - 1 = r /\ (r - 1) + 1 = r
    BY <1>1
  <2>2. /\ CursorSet => WholeAt(r, sock.last)
        /\ \A i \in 1 .. Len(writes) : Content(writes[i]) => WholeAt(r, writes[i].to)
        /\ \A i \in 1 .. r : Content(down[i]) => WholeAt(r, down[i].to)
    BY <2>1 DEF SettledOK
  <2>3. \A to : WholeAt(r, to) => whole(r - 1, to)
    BY <1>4, <2>1
  <2> HIDE DEF whole
  <2>4. ASSUME NEW i \in 1 .. Len(writes'), Content(writes'[i])
        PROVE  whole(r - 1, writes'[i].to)
    <3>1. 1 \in 1 .. r
      OBVIOUS
    <3>2. WholeAt(r, writes'[i].to)
      BY <2>2, <2>4, <3>1
    <3> QED
      BY <2>3, <3>2
  <2>5. ASSUME NEW i \in 1 .. r - 1, Content(down'[i])
        PROVE  whole(r - 1, down'[i].to)
    <3>1. i + 1 \in 1 .. r /\ i \in 1 .. Len(down')
      BY <1>1
    <3>2. down'[i] = down[i + 1]
      BY <1>1, <3>1
    <3>3. WholeAt(r, down'[i].to)
      BY <2>2, <2>5, <3>1, <3>2
    <3> QED
      BY <2>3, <3>3
  <2>6. ASSUME CursorSet PROVE whole(r - 1, sock.last)
    BY <2>2, <2>3, <2>6
  <2> QED
    BY <2>4, <2>5, <2>6
<1>9. FramesOK'
  <2> SUFFICES ASSUME NEW n \in 1 .. Len(down'), down'[n].type = "data"
               PROVE  whole(n - 1, down'[n].from) \/ lost(n - 1)
    BY <1>2 DEF FramesOK, WholeAt, ScreenAt, LossAt
  <2> HIDE DEF whole, lost
  <2>1. /\ n + 1 \in 1 .. Len(down) /\ down'[n] = down[n + 1] /\ n - 1 \in 0 .. Len(down')
        /\ (n + 1) - 1 = n /\ (n - 1) + 1 = n
    BY <1>1
  <2>2. WholeAt(n, down'[n].from) \/ LossAt(n)
    BY <2>1 DEF FramesOK
  <2> QED
    BY <1>4, <1>5, <2>1, <2>2
<1>10. NextOK'
  <2> SUFFICES ASSUME serving
               PROVE  whole(Len(down'), stream.end) \/ lost(Len(down'))
    BY <1>2 DEF NextOK, WholeAt, ScreenAt, LossAt
  <2> HIDE DEF whole, lost
  <2>1. Len(down') \in 0 .. Len(down') /\ Len(down') + 1 = Len(down)
    BY <1>1
  <2>2. WholeAt(Len(down), stream.end) \/ LossAt(Len(down))
    BY DEF NextOK
  <2> QED
    BY <1>4, <1>5, <2>1, <2>2
<1> QED
  BY <1>6, <1>7, <1>8, <1>9, <1>10

LEMMA DropKeeps ==
  ASSUME TypeOK, LinkOK, Drops
  PROVE  LinkOK' /\ (~skipped' /\ AnswersOK /\ Faithful => AnswersOK' /\ Faithful')
<1> DEFINE h == Head(down)
<1>1. /\ Elsewhere /\ down # <<>> /\ ~Terminal(h) /\ Keeps(Tail(down)) /\ link = "open"
      /\ sock'.last = sock.last
      /\ sock'.gen = IF h.type = "attached" THEN h.gen ELSE sock.gen
      /\ h.type = "attached" /\ sock.last # None /\ origin # h.gen => skipped'
      /\ IF Settles(h)
         THEN /\ sock'.pending = sock.pending
              /\ sock'.awaiting = sock.awaiting \/ (~sock.pending /\ ~sock'.awaiting)
         ELSE \/ sock'.awaiting /\ ~sock'.pending
              \/ /\ ~Announces(h)
                 /\ sock'.pending = sock.pending /\ sock'.awaiting = sock.awaiting
  BY DEF Drops
<1>2. /\ stream' = stream /\ writes' = writes /\ shown' = shown /\ cache' = cache
      /\ origin' = origin
  BY <1>1 DEF Elsewhere
<1>3. Eventual' = Eventual
  BY <1>2 DEF Eventual
<1>4. h = down[1] /\ 1 \in 1 .. Len(down) /\ Len(down) \in Nat
  BY <1>1, TypedFacts
<1>5. h.gen = stream.gen
  BY <1>4 DEF LinkOK
<1>6. CursorSet' <=> CursorSet
  BY <1>1, <1>2 DEF CursorSet
<1> HIDE DEF h
<1>7. ~Settles(h) => (LossKnown => LossKnown')
  BY <1>1, <1>2 DEF LossKnown
<1>8. Announces(h) => LossKnown'
  <2>1. Announces(h) => ~Settles(h)
    BY DEF Announces, Settles
  <2> QED
    BY <1>1, <1>2, <2>1 DEF LossKnown
<1>9. ASSUME Faithful, Settles(h)
      PROVE  /\ CursorSet => Bytes(stream.gen, stream.base, sock.last) \subseteq Eventual
             /\ \A i \in 1 .. Len(writes) : Content(writes[i]) => WholeNow(writes[i].to)
  <2>1. SettledOK /\ 1 - 1 = 0 /\ ScreenAfter(Eventual, down, 0) = Eventual
    BY <1>9, ScreenNone DEF Faithful
  <2>2. /\ CursorSet => WholeAt(0, sock.last)
        /\ \A i \in 1 .. Len(writes) : Content(writes[i]) => WholeAt(0, writes[i].to)
    BY <1>4, <1>9, <2>1 DEF SettledOK
  <2> QED
    BY <2>1, <2>2 DEF WholeAt, ScreenAt, WholeNow
<1>10. Faithful => QueueOK'
  <2>1. CASE Settles(h)
    BY <1>2, <1>3, <1>9, <2>1 DEF QueueOK, WholeNow, Content
  <2>2. CASE ~Settles(h)
    BY <1>2, <1>3, <1>7, <2>2 DEF Faithful, QueueOK, WholeNow, Content
  <2> QED
    BY <2>1, <2>2
<1>11. OriginOK /\ ~skipped' => OriginOK'
  BY <1>1, <1>2 DEF OriginOK
<1>12. ~skipped' /\ Faithful => Honest'
  <2> SUFFICES ASSUME ~skipped', Faithful, sock'.last # None, sock'.gen = stream.gen,
                      sock'.last >= stream.base, ~sock'.awaiting
               PROVE  Bytes(stream.gen, stream.base, sock'.last) \subseteq Eventual
    BY <1>2, <1>3 DEF Honest, Resumable
  <2>1. OriginOK
    BY DEF Faithful, OrderOK
  <2>2. CASE Settles(h)
    <3>1. stream.gen # None
      BY TypedFacts
    <3>2. CursorSet
      BY <1>1, <1>5, <2>1, <3>1 DEF OriginOK, CursorSet
    <3> QED
      BY <1>1, <1>9, <2>2, <3>2
  <2>3. CASE ~Settles(h)
    <3>1. ~Announces(h) /\ sock'.awaiting = sock.awaiting
      BY <1>1, <2>3
    <3>2. h \in Messages
      BY <1>4, TypedFacts
    <3>3. h.type # "attached"
      BY <2>3, <3>1, <3>2, MessageFields DEF Announces, Settles
    <3> QED
      BY <1>1, <3>1, <3>3 DEF Faithful, Honest, Resumable
  <2> QED
    BY <2>2, <2>3
<1>13. sock'.gen <= stream.gen
  BY <1>1, <1>5, TypedFacts DEF LinkOK
<1>14. CASE up' = <<>> /\ down' = <<>> /\ serving' = FALSE /\ link' # "open"
  <2>1. LinkOK'
    BY <1>1, <1>13, <1>14, GoneLink
  <2>2. ASSUME ~skipped', Faithful PROVE AnswersOK' /\ Faithful'
    <3>1. OrderOK /\ CacheOK /\ OriginOK' /\ QueueOK' /\ Honest'
      BY <1>10, <1>11, <1>12, <2>2 DEF Faithful, OrderOK
    <3> QED
      BY <1>1, <1>14, <3>1, GoneStep
  <2> QED
    BY <2>1, <2>2
<1>15. CASE UpKept /\ down' = Tail(down) /\ serving' = serving /\ link' = link
  <2>0. Takes
    BY <1>1, <1>2, <1>15 DEF Takes
  <2>1. /\ Len(down) \in Nat /\ Len(down) >= 1 /\ Len(down') = Len(down) - 1
        /\ \A i \in 1 .. Len(down') : i + 1 \in 1 .. Len(down) /\ down'[i] = down[i + 1]
    BY <2>0, TakenFacts
  <2>2. LinkOK'
    <3>1. \A i \in 1 .. Len(up') : up'[i].type = "attach" => i = 1 /\ ~serving'
      BY <1>15, UpFacts DEF LinkOK
    <3>2. \A i \in 1 .. Len(down') : down'[i].gen = stream.gen
      BY <2>1 DEF LinkOK
    <3>3. ~serving' => down' = <<>>
      BY <1>1, <1>15 DEF LinkOK
    <3> QED
      BY <1>1, <1>2, <1>13, <1>15, <3>1, <3>2, <3>3 DEF LinkOK
  <2>3. ASSUME ~skipped', AnswersOK, Faithful
        PROVE  AnswersOK' /\ Faithful'
    <3>1. ASSUME NEW n \in 0 .. Len(down')
          PROVE  ScreenAfter(Eventual', down', n) = ScreenAfter(Eventual, down, n + 1)
      <4>1. Painted(Eventual, down[1]) = Eventual
        BY <1>1, <1>4, PaintedFacts
      <4>2. n \in Nat /\ \A i \in 1 .. n : down'[i] = down[i + 1]
        BY <2>1
      <4>3. ScreenAfter(Eventual, down, n + 1) = ScreenAfter(Painted(Eventual, down[1]), down', n)
        BY <4>2, ScreenShift
      <4> QED
        BY <1>3, <4>1, <4>3
    <3>2. Announces(down[1]) => LossKnown'
      BY <1>4, <1>8
    <3>3. LossKnown /\ ~Ends(down[1]) => LossKnown'
      BY <1>4, <1>7 DEF Ends
    <3>4. \A i \in 1 .. Len(writes') : \E k \in 1 .. Len(writes) : writes'[i] = writes[k]
      BY <1>2
    <3>5. AnswersOK' /\ SettledOK' /\ FramesOK' /\ NextOK' /\ LinkOrdered'
      BY <1>1, <1>2, <2>0, <2>3, <3>1, <3>2, <3>3, <3>4, TakenStep DEF Faithful, OrderOK
    <3>6. BoundsOK'
      BY <1>1, <1>2, <1>6, <2>3 DEF Faithful, OrderOK, BoundsOK
    <3>7. WritesOrdered'
      <4>1. WritesOrdered
        BY <2>3 DEF Faithful, OrderOK
      <4>2. ASSUME NEW i \in 1 .. Len(writes), Content(writes[i]),
                   NEW j \in 1 .. Len(down'), Content(down'[j])
            PROVE  writes[i].to <= down'[j].to
        BY <2>1, <4>1, <4>2 DEF WritesOrdered
      <4> QED
        BY <1>1, <1>2, <1>6, <4>1, <4>2 DEF WritesOrdered, Content
    <3>8. AttachOK'
      BY <1>2, <1>3, <1>15, <2>3, UpFacts DEF Faithful, AttachOK, Resumable, WholeNow
    <3>9. CacheOK'
      BY <1>2, <2>3 DEF Faithful, CacheOK, Resumable
    <3> QED
      BY <1>10, <1>11, <1>12, <2>3, <3>5, <3>6, <3>7, <3>8, <3>9 DEF Faithful, OrderOK
  <2> QED
    BY <2>2, <2>3
<1> QED
  BY <1>1, <1>14, <1>15, KeepsCases

LEMMA AppendFacts ==
  ASSUME NEW s \in Seq(Messages), NEW m \in Messages
  PROVE  /\ Append(s, m) \in Seq(Messages) /\ Len(s) \in Nat /\ Len(Append(s, m)) = Len(s) + 1
         /\ Append(s, m)[Len(s) + 1] = m
         /\ \A i \in 1 .. Len(s) : Append(s, m)[i] = s[i]
         /\ \A i \in 1 .. Len(s) + 1 : i \in 1 .. Len(s) \/ i = Len(s) + 1
OBVIOUS

LEMMA ReceiveFrameKeeps ==
  ASSUME TypeOK, LinkOK, ReceiveFrame
  PROVE  LinkOK' /\ (~skipped' /\ AnswersOK /\ Faithful => AnswersOK' /\ Faithful')
<1> DEFINE m == down[1]
           q == Len(writes)
<1>0. /\ link = "open" /\ down # <<>> /\ Terminal(Head(down))
      /\ writes' = Append(writes, Head(down)) /\ down' = Tail(down)
      /\ sock'.last = sock.last /\ sock'.gen = sock.gen /\ sock'.awaiting = sock.awaiting
      /\ sock'.pending <=> (sock.pending \/ Head(down).type = "snapshot")
      /\ ~skipped' => ~skipped /\ ~(/\ Head(down).type = "clear" /\ ~sock.awaiting
                                    /\ Resumable(sock.last, sock.gen))
      /\ UNCHANGED <<stream, up, serving, link, shown, cache, origin>>
  BY ReceiveFrameTyped
<1>1. /\ Takes /\ Head(down) = m /\ m \in Messages /\ 1 \in 1 .. Len(down)
      /\ Len(down) \in Nat /\ Len(down) >= 1 /\ Len(down') = Len(down) - 1
      /\ \A i \in 1 .. Len(down') : i + 1 \in 1 .. Len(down) /\ down'[i] = down[i + 1]
  BY <1>0, TakenFacts, TypedFacts DEF Takes
<1>2. /\ writes' = Append(writes, m) /\ Terminal(m)
      /\ sock'.pending <=> (sock.pending \/ m.type = "snapshot")
      /\ ~skipped' => ~(m.type = "clear" /\ ~sock.awaiting /\ Resumable(sock.last, sock.gen))
  BY <1>0, <1>1
<1>3. /\ q \in Nat /\ Len(writes') = q + 1 /\ writes'[q + 1] = m
      /\ \A i \in 1 .. q : writes'[i] = writes[i]
      /\ \A i \in 1 .. q + 1 : i \in 1 .. q \/ i = q + 1
  BY <1>1, <1>2, AppendFacts, TypedFacts
<1>4. m.gen = stream.gen /\ m.to \in Int /\ m.from \in Int /\ m.flag \in BOOLEAN
      /\ stream.gen \in Nat /\ stream.base \in Nat
  BY <1>1, MessageFields, TypedFacts DEF LinkOK
<1>5. Eventual' = Painted(Eventual, m)
  <2>1. ScreenAfter(shown, writes', q + 1) = Painted(ScreenAfter(shown, writes', q), m)
    BY <1>3, ScreenNext
  <2>2. ScreenAfter(shown, writes', q) = Eventual
    BY <1>3, ScreenSame DEF Eventual
  <2>3. Eventual' = ScreenAfter(shown, writes', q + 1)
    BY <1>0, <1>3 DEF Eventual
  <2> QED
    BY <2>1, <2>2, <2>3
<1>6. CursorSet' <=> CursorSet
  BY <1>0 DEF CursorSet
<1> HIDE DEF m, q
<1>7. ASSUME NEW n \in 0 .. Len(down')
      PROVE  ScreenAfter(Eventual', down', n) = ScreenAfter(Eventual, down, n + 1)
  <2>1. n \in Nat /\ \A i \in 1 .. n : down'[i] = down[i + 1]
    BY <1>1
  <2>2. ScreenAfter(Eventual, down, n + 1) = ScreenAfter(Painted(Eventual, down[1]), down', n)
    BY <2>1, ScreenShift
  <2> QED
    BY <1>5, <2>2 DEF m
<1>8. /\ m.type \in {"data", "snapshot", "clear"}
      /\ (Resets(m) <=> m.type = "clear" \/ Last_(m))
      /\ ~Resets(m) => Eventual \subseteq Eventual'
      /\ m.type = "data" => Eventual' = Eventual \cup Bytes(m.gen, m.from, m.to)
      /\ Last_(m) => Eventual' = Bytes(m.gen, 0, m.to)
      /\ ~Announces(m) /\ ~Settles(m)
  BY <1>2, <1>5, PaintedFacts DEF Terminal, Announces, Settles
<1>9. LossKnown /\ ~Ends(m) => LossKnown'
  <2> SUFFICES ASSUME LossKnown, ~Resets(m)
               PROVE  LossKnown'
    BY DEF Ends
  <2>1. ~Last_(m)
    BY <1>8
  <2>2. ASSUME NEW k \in 1 .. Len(writes'), Last_(writes'[k]), sock'.pending
        PROVE  \E j \in k + 1 .. Len(writes') : writes'[j].type = "snapshot"
    <3>1. k \in 1 .. q /\ Last_(writes[k])
      BY <1>3, <2>1, <2>2
    <3>2. CASE m.type = "snapshot"
      <4>1. q + 1 \in k + 1 .. Len(writes')
        BY <1>3, <3>1
      <4> QED
        BY <1>3, <3>2, <4>1
    <3>3. CASE m.type # "snapshot"
      <4>1. sock.pending
        BY <1>2, <2>2, <3>3
      <4>2. PICK j \in k + 1 .. q : writes[j].type = "snapshot"
        BY <3>1, <4>1 DEF LossKnown, q
      <4>3. j \in k + 1 .. Len(writes') /\ writes'[j] = writes[j]
        BY <1>3, <3>1
      <4> QED
        BY <4>2, <4>3
    <3> QED
      BY <3>2, <3>3
  <2>3. sock'.awaiting
    BY <1>0 DEF LossKnown
  <2> QED
    BY <2>2, <2>3 DEF LossKnown
<1>10. LinkOK'
  <2>1. \A i \in 1 .. Len(down') : down'[i].gen = stream.gen
    BY <1>1 DEF LinkOK
  <2>2. \A i \in 1 .. Len(writes') : writes'[i].gen <= stream.gen
    <3>1. \A i \in 1 .. q : writes[i].gen <= stream.gen
      BY DEF LinkOK, q
    <3> QED
      BY <1>3, <1>4, <3>1
  <2>3. ~serving' => down' = <<>>
    BY <1>0 DEF LinkOK
  <2> QED
    BY <1>0, <2>1, <2>2, <2>3 DEF LinkOK
<1>11. ASSUME ~skipped', AnswersOK, Faithful
       PROVE  AnswersOK' /\ Faithful'
  <2>0. /\ OriginOK /\ BoundsOK /\ WritesOrdered /\ LinkOrdered /\ QueueOK /\ SettledOK /\ FramesOK
        /\ NextOK /\ Honest /\ CacheOK
    BY <1>11 DEF Faithful, OrderOK
  <2>1. \A i \in 1 .. Len(writes') :
          writes'[i] = down[1] \/ \E k \in 1 .. Len(writes) : writes'[i] = writes[k]
    BY <1>3 DEF m, q
  <2>2. AnswersOK' /\ SettledOK' /\ FramesOK' /\ NextOK' /\ LinkOrdered'
    <3>1. LossKnown /\ ~Ends(down[1]) => LossKnown'
      BY <1>9 DEF m
    <3>2. ~Announces(down[1])
      BY <1>8 DEF m
    <3> QED
      BY <1>0, <1>1, <1>7, <1>11, <2>0, <2>1, <3>1, <3>2, TakenStep
  <2>3. OriginOK' /\ BoundsOK' /\ CacheOK'
    BY <1>0, <1>6, <2>0 DEF OriginOK, BoundsOK, CacheOK, Resumable
  <2>4. AttachOK'
    <3>1. serving
      BY <1>0 DEF LinkOK
    <3>2. up # <<>> => Head(up) = up[1] /\ 1 \in 1 .. Len(up)
      BY TypedFacts
    <3>3. ~(up # <<>> /\ Head(up).type = "attach")
      BY <3>1, <3>2 DEF LinkOK
    <3> QED
      BY <1>0, <3>3 DEF AttachOK
  <2>5. WritesOrdered'
    <3>1. /\ Content(m) =>
               /\ m.to <= stream.end /\ (CursorSet => sock.last <= m.to)
               /\ \A j \in 1 .. Len(down') : Content(down'[j]) => m.to <= down'[j].to
      <4>1. \A j \in 1 .. Len(down') : j + 1 \in 1 + 1 .. Len(down) /\ down'[j] = down[j + 1]
        BY <1>1
      <4> QED
        BY <1>1, <2>0, <4>1 DEF LinkOrdered, m
    <3>2. \A i \in 1 .. q : Content(writes[i]) =>
            /\ writes[i].to <= stream.end /\ (CursorSet => sock.last <= writes[i].to)
            /\ \A j \in i + 1 .. q : Content(writes[j]) => writes[i].to <= writes[j].to
            /\ Content(m) => writes[i].to <= m.to
            /\ \A j \in 1 .. Len(down') : Content(down'[j]) => writes[i].to <= down'[j].to
      BY <1>1, <2>0 DEF WritesOrdered, m, q
    <3> SUFFICES ASSUME NEW i \in 1 .. q + 1, Content(writes'[i])
                 PROVE  /\ writes'[i].to <= stream.end
                        /\ CursorSet => sock.last <= writes'[i].to
                        /\ \A j \in i + 1 .. q + 1 :
                             Content(writes'[j]) => writes'[i].to <= writes'[j].to
                        /\ \A j \in 1 .. Len(down') :
                             Content(down'[j]) => writes'[i].to <= down'[j].to
      BY <1>0, <1>3, <1>6 DEF WritesOrdered, Content
    <3>3. CASE i = q + 1
      <4>1. \A j \in i + 1 .. q + 1 : FALSE
        BY <1>3, <3>3
      <4> QED
        BY <1>3, <3>1, <3>3, <4>1
    <3>4. CASE i \in 1 .. q
      <4>1. writes'[i] = writes[i]
        BY <1>3, <3>4
      <4>2. ASSUME NEW j \in i + 1 .. q + 1, Content(writes'[j])
            PROVE  writes'[i].to <= writes'[j].to
        <5>1. CASE j = q + 1
          BY <1>3, <3>2, <3>4, <4>1, <4>2, <5>1
        <5>2. CASE j # q + 1
          <6>1. j \in i + 1 .. q /\ j \in 1 .. q
            BY <1>3, <3>4, <5>2
          <6> QED
            BY <1>3, <3>2, <3>4, <4>1, <4>2, <6>1
        <5> QED
          BY <5>1, <5>2
      <4> QED
        BY <3>2, <3>4, <4>1, <4>2
    <3> QED
      BY <1>3, <3>3, <3>4
  <2>6. ASSUME NEW to \in Int, to <= m.to, Last_(m)
        PROVE  Bytes(stream.gen, stream.base, to) \subseteq Eventual'
    BY <1>4, <1>8, <2>6, BytesFacts
  <2>7. QueueOK'
    <3> SUFFICES ASSUME NEW k \in 1 .. q + 1, Content(writes'[k])
                 PROVE  \/ \E j \in k + 1 .. q + 1 : writes'[j].type = "clear"
                        \/ Bytes(stream.gen, stream.base, writes'[k].to) \subseteq Eventual'
                        \/ LossKnown'
      BY <1>0, <1>3 DEF QueueOK, WholeNow, Content
    <3>1. CASE k = q + 1
      <4>1. writes'[k] = m /\ Content(m)
        BY <1>3, <3>1
      <4>2. CASE Last_(m)
        BY <1>4, <2>6, <4>1, <4>2
      <4>3. CASE ~Last_(m)
        <5>1. m.type = "data"
          BY <4>1, <4>3 DEF Content, ContentOf
        <5>2. WholeAt(0, m.from) \/ LossAt(0)
          BY <1>1, <2>0, <5>1 DEF FramesOK, m
        <5>3. CASE LossAt(0)
          <6>1. LossKnown
            BY <5>3 DEF LossAt, GapOpen
          <6>2. ~Ends(m)
            BY <1>8, <5>1 DEF Ends, Last_
          <6> QED
            BY <1>9, <6>1, <6>2
        <5>4. CASE WholeAt(0, m.from)
          <6>1. Bytes(stream.gen, stream.base, m.from) \subseteq Eventual
            BY <5>4, ScreenNone DEF WholeAt, ScreenAt
          <6>2. Bytes(stream.gen, stream.base, m.to) \subseteq
                  Bytes(stream.gen, stream.base, m.from) \cup Bytes(stream.gen, m.from, m.to)
            BY <1>4, BytesFacts
          <6>3. Eventual' = Eventual \cup Bytes(stream.gen, m.from, m.to)
            BY <1>4, <1>8, <5>1
          <6> QED
            BY <4>1, <6>1, <6>2, <6>3
        <5> QED
          BY <5>2, <5>3, <5>4
      <4> QED
        BY <4>2, <4>3
    <3>2. CASE k \in 1 .. q
      <4>1. writes'[k] = writes[k] /\ Content(writes[k]) /\ writes[k].to \in Int
        BY <1>3, <3>2, TypedFacts, MessageFields DEF q
      <4>2. CASE m.type = "clear"
        <5>1. q + 1 \in k + 1 .. q + 1
          BY <1>3, <3>2
        <5> QED
          BY <1>3, <4>2, <5>1
      <4>3. CASE Last_(m)
        <5>1. Content(m)
          BY <1>4, <4>3 DEF Content, ContentOf
        <5>2. writes[k].to <= m.to
          BY <1>1, <2>0, <3>2, <4>1, <5>1 DEF WritesOrdered, m, q
        <5> QED
          BY <2>6, <4>1, <4>3, <5>2
      <4>4. CASE ~Resets(m)
        <5>1. ~Ends(m) /\ Eventual \subseteq Eventual'
          BY <1>8, <4>4 DEF Ends
        <5>2. \/ \E j \in k + 1 .. q : writes[j].type = "clear"
              \/ WholeNow(writes[k].to)
              \/ LossKnown
          BY <2>0, <3>2, <4>1 DEF QueueOK, q
        <5>3. CASE \E j \in k + 1 .. q : writes[j].type = "clear"
          <6>1. PICK j \in k + 1 .. q : writes[j].type = "clear"
            BY <5>3
          <6>2. j \in k + 1 .. q + 1 /\ writes'[j] = writes[j]
            BY <1>3, <3>2
          <6> QED
            BY <6>1, <6>2
        <5>4. CASE WholeNow(writes[k].to)
          BY <4>1, <5>1, <5>4 DEF WholeNow
        <5> QED
          BY <1>9, <5>1, <5>2, <5>3, <5>4
      <4> QED
        BY <1>8, <4>2, <4>3, <4>4
    <3> QED
      BY <1>3, <3>1, <3>2
  <2>8. Honest'
    <3> SUFFICES ASSUME Resumable(sock.last, sock.gen), ~sock.awaiting
                 PROVE  Bytes(stream.gen, stream.base, sock.last) \subseteq Eventual'
      BY <1>0 DEF Honest, Resumable
    <3>1. Bytes(stream.gen, stream.base, sock.last) \subseteq Eventual
      BY <2>0 DEF Honest
    <3>2. CASE ~Resets(m)
      BY <1>8, <3>1, <3>2
    <3>3. CASE m.type = "clear"
      BY <1>2, <1>11, <3>3
    <3>4. CASE Last_(m)
      <4>1. CursorSet
        BY <1>4, <2>0, TypedFacts DEF Resumable, OriginOK, CursorSet
      <4>2. Content(m)
        BY <1>4, <3>4 DEF Content, ContentOf
      <4>3. sock.last <= m.to /\ sock.last \in Int
        BY <1>1, <2>0, <4>1, <4>2, TypedFacts DEF LinkOrdered, m
      <4> QED
        BY <2>6, <3>4, <4>3
    <3> QED
      BY <1>8, <3>2, <3>3, <3>4
  <2> QED
    BY <2>2, <2>3, <2>4, <2>5, <2>7, <2>8 DEF Faithful, OrderOK
<1> QED
  BY <1>10, <1>11
-----------------------------------------------------------------------------
(***************************************************************************)
(* Painting, caching, mounting, connecting, a new generation.              *)
(***************************************************************************)
\* The write queue without its oldest frame.
LEMMA PaintedQueue ==
  ASSUME TypeOK, writes # <<>>, writes' = Tail(writes)
  PROVE  /\ Len(writes) \in Nat /\ Len(writes) >= 1 /\ Len(writes') = Len(writes) - 1
         /\ Head(writes) = writes[1] /\ 1 \in 1 .. Len(writes) /\ writes[1] \in Messages
         /\ \A i \in 1 .. Len(writes') :
              i + 1 \in 1 .. Len(writes) /\ writes'[i] = writes[i + 1]
         /\ \A i \in 1 .. Len(writes) : i # 1 =>
              i - 1 \in 1 .. Len(writes') /\ writes'[i - 1] = writes[i]
<1>1. writes \in Seq(Messages)
  BY DEF TypeOK
<1>2. /\ Len(writes) \in Nat /\ Len(writes) >= 1 /\ Head(writes) = writes[1]
      /\ Len(Tail(writes)) = Len(writes) - 1 /\ writes[1] \in Messages
      /\ \A i \in 1 .. Len(writes) - 1 : Tail(writes)[i] = writes[i + 1]
  BY <1>1
<1>3. Len(writes') = Len(writes) - 1 /\ \A i \in 1 .. Len(writes) - 1 : writes'[i] = writes[i + 1]
  BY <1>2
<1>4. ASSUME NEW i \in 1 .. Len(writes), i # 1
      PROVE  i - 1 \in 1 .. Len(writes') /\ writes'[i - 1] = writes[i]
  <2>1. i - 1 \in 1 .. Len(writes) - 1 /\ (i - 1) + 1 = i
    BY <1>2, <1>4
  <2> QED
    BY <1>3, <2>1
<1> QED
  BY <1>2, <1>3, <1>4

LEMMA PaintKeeps ==
  ASSUME TypeOK, LinkOK, Paint
  PROVE  LinkOK' /\ (~skipped' /\ AnswersOK /\ Faithful => AnswersOK' /\ Faithful')
<1> DEFINE m == writes[1]
<1>0. /\ writes # <<>> /\ writes' = Tail(writes)
      /\ shown' = Painted(shown, Head(writes)) /\ sock'.gen = sock.gen
      /\ IF Last_(Head(writes))
         THEN sock'.last = Head(writes).to /\ ~sock'.awaiting /\ ~sock'.pending
         ELSE sock'.awaiting = sock.awaiting /\ sock'.pending = sock.pending
      /\ Head(writes).type = "data" /\ ~sock.awaiting =>
           sock'.last = AdvanceSeq(sock.last, Head(writes).to)
      /\ ~Last_(Head(writes)) /\ (Head(writes).type # "data" \/ sock.awaiting) =>
           sock'.last = sock.last
      /\ origin' = IF SetsCursor THEN Head(writes).gen ELSE origin
      /\ ~skipped' =>
           /\ ~skipped
           /\ Last_(Head(writes)) /\ sock.awaiting =>
                /\ sock.pending
                /\ \A k \in 1 .. Len(Tail(writes)) : Tail(writes)[k].type # "snapshot"
           /\ SetsCursor => sock.gen \in {None, Head(writes).gen}
           /\ ~sock'.awaiting /\ Resumable(sock'.last, sock'.gen) =>
                /\ \A k \in 1 .. Len(Tail(writes)) : Tail(writes)[k].type # "clear"
                /\ \A k \in 1 .. Len(down) : down[k].type # "clear"
      /\ UNCHANGED <<stream, down, up, serving, link, cache>>
  BY PaintTyped
<1>1. /\ Len(writes) \in Nat /\ Len(writes) >= 1 /\ Len(writes') = Len(writes) - 1
      /\ Head(writes) = m /\ 1 \in 1 .. Len(writes) /\ m \in Messages
      /\ \A i \in 1 .. Len(writes') : i + 1 \in 1 .. Len(writes) /\ writes'[i] = writes[i + 1]
      /\ \A i \in 1 .. Len(writes) : i # 1 =>
           i - 1 \in 1 .. Len(writes') /\ writes'[i - 1] = writes[i]
  BY <1>0, PaintedQueue
<1>2. m.gen \in Nat /\ m.gen <= stream.gen /\ m.to \in Int /\ stream.gen \in Nat
      /\ sock.last \in Int /\ sock.gen \in Int /\ None = -1
  BY <1>1, MessageFields, TypedFacts, ResumeBounds DEF LinkOK
<1>3. stream' = stream /\ down' = down /\ up' = up /\ serving' = serving /\ link' = link
      /\ cache' = cache /\ sock'.gen = sock.gen
  BY <1>0
<1>4. Eventual' = Eventual
  <2> DEFINE q == Len(writes')
  <2>1. q \in Nat /\ q + 1 = Len(writes) /\ \A i \in 1 .. q : writes'[i] = writes[i + 1]
    BY <1>1
  <2> HIDE DEF q
  <2>2. ScreenAfter(shown, writes, q + 1) = ScreenAfter(Painted(shown, writes[1]), writes', q)
    BY <2>1, ScreenShift
  <2> QED
    BY <1>0, <1>1, <2>1, <2>2 DEF Eventual, q
<1> HIDE DEF m
<1>5. /\ IF Last_(m) THEN sock'.last = m.to /\ ~sock'.awaiting /\ ~sock'.pending
         ELSE sock'.awaiting = sock.awaiting /\ sock'.pending = sock.pending
      /\ m.type = "data" /\ ~sock.awaiting => sock'.last = AdvanceSeq(sock.last, m.to)
      /\ ~Last_(m) /\ (m.type # "data" \/ sock.awaiting) => sock'.last = sock.last
      /\ origin' = IF SetsCursor THEN m.gen ELSE origin
      /\ (SetsCursor <=> Last_(m) \/ sock'.last # sock.last)
  BY <1>0, <1>1 DEF SetsCursor
\* A cursor that is set is set to the end of the frame.
<1>6. SetsCursor => sock'.last = m.to /\ (m.type = "data" \/ Last_(m))
  BY <1>5 DEF AdvanceSeq
<1>7. CursorSet' => \/ SetsCursor /\ Content(m) /\ sock'.last = m.to
                    \/ CursorSet /\ sock'.last = sock.last
  BY <1>3, <1>5, <1>6 DEF CursorSet, Content, ContentOf
<1>8. LinkOK'
  <2>1. origin' \in None .. stream.gen
    BY <1>2, <1>5 DEF LinkOK
  <2>2. \A i \in 1 .. Len(writes') : writes'[i].gen <= stream.gen
    BY <1>1 DEF LinkOK
  <2> QED
    BY <1>3, <2>1, <2>2 DEF LinkOK
<1>9. ASSUME ~skipped', AnswersOK, Faithful
      PROVE  AnswersOK' /\ Faithful'
  <2>0. /\ OriginOK /\ BoundsOK /\ WritesOrdered /\ LinkOrdered /\ QueueOK /\ AttachOK /\ SettledOK
        /\ FramesOK /\ NextOK /\ Honest /\ CacheOK
    BY <1>9 DEF Faithful, OrderOK
  <2>1. /\ Last_(m) /\ sock.awaiting =>
             sock.pending /\ \A k \in 2 .. Len(writes) : writes[k].type # "snapshot"
        /\ SetsCursor => sock.gen \in {None, m.gen}
        /\ ~sock'.awaiting /\ Resumable(sock'.last, sock'.gen) =>
             \A k \in 2 .. Len(writes) : writes[k].type # "clear"
    <3>1. \A k \in 2 .. Len(writes) : k - 1 \in 1 .. Len(Tail(writes)) /\
            Tail(writes)[k - 1] = writes[k]
      BY <1>0, <1>1
    <3> QED
      BY <1>0, <1>1, <1>9, <3>1
  <2>2. LossKnown => ~Last_(m)
    <3> SUFFICES ASSUME LossKnown, Last_(m) PROVE FALSE
      OBVIOUS
    <3>1. sock.pending /\ \A k \in 2 .. Len(writes) : writes[k].type # "snapshot"
      BY <2>1 DEF LossKnown
    <3>2. \E j \in 1 + 1 .. Len(writes) : writes[j].type = "snapshot"
      BY <1>1, <3>1 DEF LossKnown, m
    <3> QED
      BY <3>1, <3>2
  <2>3. LossKnown => LossKnown'
    <3> SUFFICES ASSUME LossKnown
                 PROVE  LossKnown'
      OBVIOUS
    <3>1. sock'.awaiting /\ (sock'.pending <=> sock.pending)
      BY <1>5, <2>2 DEF LossKnown
    <3>2. ASSUME NEW k \in 1 .. Len(writes'), Last_(writes'[k]), sock.pending
          PROVE  \E j \in k + 1 .. Len(writes') : writes'[j].type = "snapshot"
      <4>1. k + 1 \in 1 .. Len(writes) /\ Last_(writes[k + 1])
        BY <1>1, <3>2
      <4>2. PICK j \in (k + 1) + 1 .. Len(writes) : writes[j].type = "snapshot"
        BY <3>2, <4>1 DEF LossKnown
      <4>3. j - 1 \in k + 1 .. Len(writes') /\ writes'[j - 1] = writes[j]
        BY <1>1
      <4> QED
        BY <4>2, <4>3
    <3> QED
      BY <3>1, <3>2 DEF LossKnown
  <2>4. AnswersOK' /\ AttachOK' /\ CacheOK' /\ LinkOrdered'
    <3>1. AnswersOK' /\ AttachOK' /\ CacheOK'
      BY <1>3, <1>4, <1>9, <2>0 DEF AnswersOK, AttachOK, CacheOK, Resumable, WholeNow
    <3>2. CursorSet' => \A i \in 1 .. Len(down) : Content(down[i]) => sock'.last <= down[i].to
      BY <1>1, <1>7, <2>0 DEF WritesOrdered, LinkOrdered, m
    <3> QED
      BY <1>3, <2>0, <3>1, <3>2 DEF LinkOrdered, Content
  <2>5. OriginOK' /\ BoundsOK'
    <3>1. OriginOK'
      BY <1>3, <1>5, <2>0, <2>1 DEF OriginOK
    <3>2. CursorSet' => sock'.last <= stream.end
      BY <1>1, <1>7, <2>0 DEF WritesOrdered, BoundsOK, m
    <3> QED
      BY <1>3, <2>0, <3>1, <3>2 DEF BoundsOK
  <2>6. WritesOrdered'
    <3> SUFFICES ASSUME NEW i \in 1 .. Len(writes'), Content(writes'[i])
                 PROVE  /\ writes'[i].to <= stream.end
                        /\ CursorSet' => sock'.last <= writes'[i].to
                        /\ \A j \in i + 1 .. Len(writes') :
                             Content(writes'[j]) => writes'[i].to <= writes'[j].to
                        /\ \A j \in 1 .. Len(down) :
                             Content(down[j]) => writes'[i].to <= down[j].to
      BY <1>3 DEF WritesOrdered, Content
    <3>1. i + 1 \in 1 .. Len(writes) /\ i + 1 \in 1 + 1 .. Len(writes)
          /\ writes'[i] = writes[i + 1] /\ Content(writes[i + 1])
      BY <1>1
    <3>2. /\ writes[i + 1].to <= stream.end
          /\ CursorSet => sock.last <= writes[i + 1].to
          /\ \A j \in (i + 1) + 1 .. Len(writes) :
               Content(writes[j]) => writes[i + 1].to <= writes[j].to
          /\ \A j \in 1 .. Len(down) : Content(down[j]) => writes[i + 1].to <= down[j].to
      BY <2>0, <3>1 DEF WritesOrdered
    <3>3. Content(m) => m.to <= writes[i + 1].to
      BY <1>1, <2>0, <3>1 DEF WritesOrdered, m
    <3>4. ASSUME NEW j \in i + 1 .. Len(writes'), Content(writes'[j])
          PROVE  writes'[i].to <= writes'[j].to
      <4>1. j + 1 \in (i + 1) + 1 .. Len(writes) /\ writes'[j] = writes[j + 1]
        BY <1>1
      <4> QED
        BY <3>1, <3>2, <3>4, <4>1
    <3> QED
      BY <1>7, <3>1, <3>2, <3>3, <3>4
  <2>7. QueueOK'
    <3> SUFFICES ASSUME NEW k \in 1 .. Len(writes'), Content(writes'[k])
                 PROVE  \/ \E j \in k + 1 .. Len(writes') : writes'[j].type = "clear"
                        \/ WholeNow(writes'[k].to)
                        \/ LossKnown'
      BY <1>3, <1>4 DEF QueueOK, WholeNow, Content
    <3>1. k + 1 \in 1 .. Len(writes) /\ writes'[k] = writes[k + 1]
      BY <1>1
    <3>2. \/ \E j \in (k + 1) + 1 .. Len(writes) : writes[j].type = "clear"
          \/ WholeNow(writes'[k].to)
          \/ LossKnown
      BY <2>0, <3>1 DEF QueueOK
    <3>3. ASSUME NEW j \in (k + 1) + 1 .. Len(writes), writes[j].type = "clear"
          PROVE  \E i \in k + 1 .. Len(writes') : writes'[i].type = "clear"
      <4>1. j - 1 \in k + 1 .. Len(writes') /\ writes'[j - 1] = writes[j]
        BY <1>1
      <4> QED
        BY <3>3, <4>1
    <3> QED
      BY <2>3, <3>2, <3>3
  <2>8. SettledOK'
    <3> SUFFICES ASSUME NEW r \in 1 .. Len(down), Settles(down[r])
                 PROVE  /\ CursorSet' => WholeAt(r - 1, sock'.last)
                        /\ \A i \in 1 .. Len(writes') :
                             Content(writes'[i]) => WholeAt(r - 1, writes'[i].to)
                        /\ \A i \in 1 .. r - 1 :
                             Content(down[i]) => WholeAt(r - 1, down[i].to)
      BY <1>3, <1>4 DEF SettledOK, WholeAt, ScreenAt, Content
    <3>1. /\ CursorSet => WholeAt(r - 1, sock.last)
          /\ \A i \in 1 .. Len(writes) : Content(writes[i]) => WholeAt(r - 1, writes[i].to)
          /\ \A i \in 1 .. r - 1 : Content(down[i]) => WholeAt(r - 1, down[i].to)
      BY <2>0 DEF SettledOK
    <3>2. CursorSet' => WholeAt(r - 1, sock'.last)
      BY <1>1, <1>7, <3>1 DEF m
    <3>3. \A i \in 1 .. Len(writes') : Content(writes'[i]) => WholeAt(r - 1, writes'[i].to)
      BY <1>1, <3>1
    <3> QED
      BY <3>1, <3>2, <3>3
  <2>9. FramesOK' /\ NextOK'
    BY <1>3, <1>4, <2>0, <2>3 DEF FramesOK, NextOK, WholeAt, ScreenAt, LossAt
  <2>10. Honest'
    <3> SUFFICES ASSUME Resumable(sock'.last, sock'.gen), ~sock'.awaiting
                 PROVE  Bytes(stream.gen, stream.base, sock'.last) \subseteq Eventual
      BY <1>3, <1>4 DEF Honest, Resumable
    <3>1. \A k \in 1 + 1 .. Len(writes) : writes[k].type # "clear"
      BY <2>1
    <3>2. CASE SetsCursor
      <4>1. sock.gen = stream.gen
        BY <1>3 DEF Resumable
      <4>2. Content(m) /\ sock'.last = m.to
        BY <1>2, <1>6, <2>1, <3>2, <4>1 DEF Content, ContentOf
      <4>3. ~LossKnown
        BY <1>5, <2>2 DEF LossKnown
      <4>4. WholeNow(m.to)
        BY <1>1, <2>0, <3>1, <4>2, <4>3 DEF QueueOK, m
      <4> QED
        BY <4>2, <4>4 DEF WholeNow
    <3>3. CASE ~SetsCursor
      BY <1>3, <1>5, <2>0, <3>3 DEF Honest
    <3> QED
      BY <3>2, <3>3
  <2> QED
    BY <2>4, <2>5, <2>6, <2>7, <2>8, <2>9, <2>10 DEF Faithful, OrderOK
<1> QED
  BY <1>8, <1>9

LEMMA NothingQueued ==
  ASSUME writes = <<>>
  PROVE  Eventual = shown
BY ScreenNone DEF Eventual

LEMMA CacheKeeps ==
  ASSUME TypeOK, LinkOK, CacheScreen
  PROVE  LinkOK' /\ (AnswersOK /\ Faithful => AnswersOK' /\ Faithful')
<1>1. /\ writes = <<>> /\ ~sock.awaiting
      /\ cache'.gen = sock.gen /\ cache'.shown = shown
      /\ cache'.last = IF sock.last = None THEN 0 ELSE sock.last
      /\ UNCHANGED <<stream, down, up, serving, link, sock, writes, shown, origin, skipped>>
  BY CacheTyped
<1>2. Eventual' = Eventual /\ Eventual = shown
  BY <1>1, NothingQueued DEF Eventual
<1>3. LinkOK'
  BY <1>1 DEF LinkOK
<1>4. ASSUME AnswersOK, Faithful
      PROVE  AnswersOK' /\ Faithful'
  <2>0. OrderOK /\ Honest
    BY <1>4 DEF Faithful
  <2>1. AnswersOK' /\ AttachOK' /\ SettledOK' /\ FramesOK' /\ NextOK' /\ QueueOK' /\ Honest'
    BY <1>1, <1>2, <1>4
       DEF Faithful, AnswersOK, AttachOK, SettledOK, FramesOK, NextOK, QueueOK, Honest, Resumable,
           WholeAt, ScreenAt, WholeNow, LossAt, LossKnown, CursorSet, Content
  <2>2. OriginOK' /\ WritesOrdered' /\ LinkOrdered'
    BY <1>1, <2>0 DEF OrderOK, OriginOK, WritesOrdered, LinkOrdered, CursorSet, Content
  <2>3. stream.gen \in Nat /\ stream.base \in Nat /\ stream.end \in Nat /\ sock.last \in Int
        /\ None = -1
    BY TypedFacts
  <2>4. BoundsOK'
    BY <1>1, <2>0, <2>3 DEF OrderOK, OriginOK, BoundsOK, CursorSet
  <2>5. CacheOK'
    <3> SUFFICES ASSUME Resumable(cache'.last, cache'.gen)
                 PROVE  Bytes(stream.gen, stream.base, cache'.last) \subseteq shown
      BY <1>1 DEF CacheOK, Resumable
    <3>1. CASE sock.last = None
      <4>1. cache'.last = 0 /\ cache'.last <= stream.base
        BY <1>1, <2>3, <3>1
      <4>2. Bytes(stream.gen, stream.base, cache'.last) = {}
        BY <2>3, <4>1, BytesFacts
      <4> QED
        BY <4>2
    <3>2. CASE sock.last # None
      BY <1>1, <1>2, <2>0, <3>2 DEF Honest, Resumable
    <3> QED
      BY <3>1, <3>2
  <2> QED
    BY <2>0, <2>1, <2>2, <2>4, <2>5 DEF Faithful, OrderOK
<1> QED
  BY <1>3, <1>4

LEMMA JoinsKeeps ==
  ASSUME TypeOK, LinkOK, NEW screen \in {cache, NoScreen}, Joins(screen)
  PROVE  LinkOK' /\ (~skipped' /\ AnswersOK /\ Faithful => AnswersOK' /\ Faithful')
<1>1. /\ writes' = <<>> /\ cache' = screen /\ origin' = screen.gen /\ stream' = stream
      /\ sock'.last = screen.last /\ sock'.gen = screen.gen
      /\ link' # "open" /\ up' = <<>> /\ down' = <<>> /\ serving' = FALSE
      /\ ~skipped' => screen.shown \subseteq shown'
  BY DEF Joins
<1>2. Len(writes') = 0 /\ (\A i \in 1 .. Len(writes') : FALSE)
      /\ \A i \in 1 .. Len(down') : FALSE
  BY <1>1
<1>3. Eventual' = shown'
  <2>1. Eventual' = ScreenAfter(shown', writes', Len(writes'))
    BY DEF Eventual
  <2> QED
    BY <1>2, <2>1, ScreenNone
<1>4. stream.gen \in Nat /\ stream.end \in Nat /\ cache.last \in Int /\ cache.gen \in Int
      /\ NoScreen.last = None /\ NoScreen.gen = None /\ None = -1
  BY TypedFacts, NoScreenTyped
<1>5. LinkOK'
  <2>1. screen.gen \in None .. stream.gen /\ screen.gen <= stream.gen
    <3>1. cache.gen \in None .. stream.gen
      <4>1. cache.gen >= None
        BY <1>4, ResumeBounds DEF TypeOK, Screens
      <4> QED
        BY <1>4, <4>1 DEF LinkOK
    <3> QED
      BY <1>4, <3>1
  <2>2. \A i \in 1 .. Len(up') : FALSE
    BY <1>1
  <2>3. cache'.gen = screen.gen
    BY <1>1
  <2> QED
    BY <1>1, <1>2, <2>1, <2>2, <2>3 DEF LinkOK
<1>6. ASSUME ~skipped', Faithful
      PROVE  AnswersOK' /\ Faithful'
  <2>1. /\ AnswersOK' /\ AttachOK' /\ SettledOK' /\ FramesOK' /\ NextOK' /\ LinkOrdered'
    BY <1>1, EmptyLink
  <2>2. QueueOK' /\ WritesOrdered'
    BY <1>2 DEF QueueOK, WritesOrdered
  <2>3. OriginOK'
    BY <1>1 DEF OriginOK
  <2>4. BoundsOK'
    <3>1. BoundsOK
      BY <1>6 DEF Faithful, OrderOK
    <3>2. screen.gen = stream.gen => screen = cache
      BY <1>4
    <3>3. screen.gen = stream.gen => screen.last <= stream.end
      BY <3>1, <3>2 DEF BoundsOK
    <3>4. cache'.gen = screen.gen /\ cache'.last = screen.last
      BY <1>1
    <3> QED
      BY <1>1, <3>3, <3>4 DEF BoundsOK, CursorSet
  <2>5. Resumable(screen.last, screen.gen) =>
          Bytes(stream.gen, stream.base, screen.last) \subseteq screen.shown
    <3>1. screen # cache => ~Resumable(screen.last, screen.gen)
      BY <1>4 DEF Resumable
    <3> QED
      BY <1>6, <3>1 DEF Faithful, CacheOK
  <2>6. Honest' /\ CacheOK'
    <3>1. cache'.gen = screen.gen /\ cache'.last = screen.last /\ cache'.shown = screen.shown
      BY <1>1
    <3>2. screen.shown \subseteq shown'
      BY <1>1, <1>6
    <3> QED
      BY <1>1, <1>3, <2>5, <3>1, <3>2 DEF Honest, CacheOK, Resumable
  <2> QED
    BY <2>1, <2>2, <2>3, <2>4, <2>6 DEF Faithful, OrderOK
<1> QED
  BY <1>5, <1>6

LEMMA RegenerateKeeps ==
  ASSUME TypeOK, LinkOK, Regenerate
  PROVE  LinkOK' /\ (Faithful => AnswersOK' /\ Faithful')
<1>1. /\ stream'.gen = stream.gen + 1 /\ stream'.base = 0 /\ stream'.end = 0
      /\ link' # "open" /\ up' = <<>> /\ down' = <<>> /\ serving' = FALSE
      /\ sock'.last = sock.last /\ sock'.gen = sock.gen
      /\ UNCHANGED <<writes, shown, cache, origin, skipped>>
  BY RegenerateTyped
<1>2. \A i \in 1 .. Len(down') : FALSE
  BY <1>1
<1>3. \A i \in 1 .. Len(up') : FALSE
  BY <1>1
<1>4. /\ stream.gen \in Nat /\ sock.gen \in Int /\ cache.gen \in Int /\ None = -1
      /\ \A i \in 1 .. Len(writes) : writes[i].gen \in Int
  BY TypedFacts, MessageFields
<1>5. /\ sock.gen # stream'.gen /\ cache.gen # stream'.gen /\ origin # stream'.gen
      /\ \A i \in 1 .. Len(writes) : writes[i].gen # stream'.gen
      /\ sock.gen <= stream'.gen /\ cache.gen <= stream'.gen /\ origin \in None .. stream'.gen
      /\ \A i \in 1 .. Len(writes) : writes[i].gen <= stream'.gen
  BY <1>1, <1>4 DEF LinkOK
<1>6. LinkOK'
  BY <1>1, <1>2, <1>3, <1>5 DEF LinkOK
<1>7. ASSUME Faithful
      PROVE  AnswersOK' /\ Faithful'
  <2>1. /\ AnswersOK' /\ AttachOK' /\ SettledOK' /\ FramesOK' /\ NextOK' /\ LinkOrdered'
    BY <1>1, EmptyLink
  <2>2. QueueOK' /\ WritesOrdered'
    BY <1>1, <1>5 DEF QueueOK, WritesOrdered, Content, ContentOf
  <2>3. OriginOK' /\ BoundsOK'
    BY <1>1, <1>5, <1>7 DEF Faithful, OrderOK, OriginOK, BoundsOK, CursorSet
  <2>4. Honest' /\ CacheOK'
    BY <1>1, <1>5 DEF Honest, CacheOK, Resumable
  <2> QED
    BY <2>1, <2>2, <2>3, <2>4 DEF Faithful, OrderOK
<1> QED
  BY <1>6, <1>7

LEMMA OpenedKeeps ==
  ASSUME TypeOK, LinkOK, Opened
  PROVE  LinkOK' /\ (AnswersOK /\ Faithful => AnswersOK' /\ Faithful')
<1>1. /\ link = "opening" /\ link' = "open"
      /\ Len(up') = 1 /\ up'[1] = Head(up') /\ up'[1].type = "attach"
      /\ up'[1].gen = sock.gen
      /\ up'[1].last = IF sock.awaiting THEN None ELSE sock.last
      /\ UNCHANGED <<stream, down, serving, sock, writes, shown, cache, origin, skipped>>
  BY OpenedTyped
<1>2. Eventual' = Eventual
  BY <1>1 DEF Eventual
<1>3. LinkOK'
  <2>1. ~serving
    BY <1>1 DEF LinkOK
  <2> QED
    BY <1>1, <2>1 DEF LinkOK
<1>4. ASSUME AnswersOK, Faithful
      PROVE  AnswersOK' /\ Faithful'
  <2>1. AnswersOK' /\ OrderOK'
    BY <1>1, <1>4
       DEF Faithful, AnswersOK, OrderOK, OriginOK, BoundsOK, WritesOrdered, LinkOrdered,
           CursorSet, Content
  <2>2. SettledOK' /\ FramesOK' /\ NextOK' /\ QueueOK' /\ Honest' /\ CacheOK'
    BY <1>1, <1>2, <1>4
       DEF Faithful, SettledOK, FramesOK, NextOK, QueueOK, Honest, CacheOK, Resumable,
           WholeAt, ScreenAt, WholeNow, LossAt, LossKnown, CursorSet, Content
  <2>3. AttachOK'
    <3>1. Honest
      BY <1>4 DEF Faithful
    <3> QED
      BY <1>1, <1>2, <3>1 DEF AttachOK, Honest, Resumable, WholeNow
  <2> QED
    BY <2>1, <2>2, <2>3 DEF Faithful
<1> QED
  BY <1>3, <1>4
-----------------------------------------------------------------------------
(***************************************************************************)
(* Steps that put messages on the link.                                    *)
(***************************************************************************)
\* The screen after n messages of the new link misses nothing, or a loss is
\* known there.
Covered(n, to) ==
  Bytes(stream'.gen, stream'.base, to) \subseteq ScreenAfter(Eventual, down', n)
Lossy(n) == GapOpen(down', n) \/ (LossKnown /\ Unended(down', n))

Grows(k) ==
  /\ Extends(down', down, k)
  /\ stream'.gen = stream.gen /\ stream'.base \in Int /\ stream'.end \in Int
  /\ stream.base <= stream'.base /\ stream.end <= stream'.end
  /\ sock' = sock /\ writes' = writes /\ shown' = shown /\ cache' = cache /\ origin' = origin

LEMMA GrownFacts ==
  ASSUME TypeOK, NEW k \in Nat, Grows(k)
  PROVE  /\ Len(down) \in Nat /\ Len(down') = Len(down) + k
         /\ \A i \in 1 .. Len(down) : down'[i] = down[i]
         /\ \A n \in 0 .. Len(down) :
              /\ ScreenAfter(Eventual, down', n) = ScreenAt(n)
              /\ \A to \in Int : WholeAt(n, to) => Covered(n, to)
              /\ LossAt(n) => Lossy(n)
<1>1. /\ Len(down) \in Nat /\ Len(down') = Len(down) + k
      /\ \A i \in 1 .. Len(down) : down'[i] = down[i]
  BY DEF Grows, Extends
<1>2. ASSUME NEW n \in 0 .. Len(down)
      PROVE  /\ ScreenAfter(Eventual, down', n) = ScreenAt(n)
             /\ \A to \in Int : WholeAt(n, to) => Covered(n, to)
             /\ LossAt(n) => Lossy(n)
  <2>1. n \in Nat /\ \A i \in 1 .. n : down'[i] = down[i]
    BY <1>1
  <2>2. ScreenAfter(Eventual, down', n) = ScreenAfter(Eventual, down, n)
    BY <2>1, ScreenSame
  <2>3. ASSUME NEW to \in Int, WholeAt(n, to)
        PROVE  Covered(n, to)
    <3>1. stream.base \in Int /\ stream'.base \in Int /\ stream.base <= stream'.base
          /\ stream'.gen = stream.gen
      BY TypedFacts DEF Grows
    <3>2. Bytes(stream.gen, stream'.base, to) \subseteq Bytes(stream.gen, stream.base, to)
      BY <3>1, BytesFacts
    <3> QED
      BY <2>2, <2>3, <3>1, <3>2 DEF WholeAt, ScreenAt, Covered
  <2>4. ASSUME LossAt(n) PROVE Lossy(n)
    <3>1. \A g \in 1 .. n : \A i \in g + 1 .. n : i \in 1 .. n
      OBVIOUS
    <3>2. GapOpen(down, n) => GapOpen(down', n)
      BY <2>1, <3>1 DEF GapOpen
    <3>3. Unended(down, n) => Unended(down', n)
      BY <2>1 DEF Unended
    <3> QED
      BY <2>4, <3>2, <3>3 DEF LossAt, Lossy
  <2> QED
    BY <2>2, <2>3, <2>4 DEF ScreenAt
<1> QED
  BY <1>1, <1>2

LEMMA GrowStep ==
  ASSUME TypeOK, AnswersOK, Faithful, NEW k \in Nat, Grows(k),
         up' = up \/ ~(up' # <<>> /\ Head(up').type = "attach"),
         \A i \in Len(down) + 1 .. Len(down') :
           /\ down'[i].type \in {"clear", "snapshot"} =>
                \E r \in i + 1 .. Len(down') : down'[r].type \in {"attached", "resynced"}
           /\ Settles(down'[i]) /\ Len(down) # 0 =>
                \E r \in Len(down) + 1 .. i - 1 : Resets(down'[r])
           /\ down'[i].type = "gap" => \A r \in i + 1 .. Len(down') : ~Settles(down'[r])
           /\ Content(down'[i]) => down'[i].to = stream'.end
           /\ down'[i].type = "data" => Covered(i - 1, down'[i].from) \/ Lossy(i - 1)
           /\ Settles(down'[i]) => Covered(i - 1, stream'.end),
         serving' => Covered(Len(down'), stream'.end) \/ Lossy(Len(down'))
  PROVE  AnswersOK' /\ Faithful'
<1> DEFINE n == Len(down)
           l == Len(down')
<1>1. /\ n \in Nat /\ l = n + k /\ l \in Nat
      /\ \A i \in 1 .. n : down'[i] = down[i]
      /\ \A i \in 0 .. n :
           /\ ScreenAfter(Eventual, down', i) = ScreenAt(i)
           /\ \A to \in Int : WholeAt(i, to) => Covered(i, to)
           /\ LossAt(i) => Lossy(i)
      /\ \A i \in 1 .. l : i \in 1 .. n \/ i \in n + 1 .. l
      /\ \A i \in 1 .. n : i \in 1 .. l
  BY GrownFacts
<1>2. /\ stream'.gen = stream.gen /\ stream'.base \in Int /\ stream'.end \in Int
      /\ stream.base <= stream'.base /\ stream.end <= stream'.end
      /\ sock' = sock /\ writes' = writes /\ shown' = shown /\ cache' = cache
      /\ origin' = origin
  BY DEF Grows
<1>3. \A i \in n + 1 .. l :
        /\ down'[i].type \in {"clear", "snapshot"} =>
             \E r \in i + 1 .. l : down'[r].type \in {"attached", "resynced"}
        /\ Settles(down'[i]) /\ n # 0 =>
             \E r \in n + 1 .. i - 1 : Resets(down'[r])
        /\ down'[i].type = "gap" => \A r \in i + 1 .. l : ~Settles(down'[r])
        /\ Content(down'[i]) => down'[i].to = stream'.end
        /\ down'[i].type = "data" => Covered(i - 1, down'[i].from) \/ Lossy(i - 1)
        /\ Settles(down'[i]) => Covered(i - 1, stream'.end)
  OBVIOUS
<1>4. Eventual' = Eventual /\ (LossKnown' <=> LossKnown) /\ (CursorSet' <=> CursorSet)
  BY <1>2 DEF Eventual, LossKnown, CursorSet
<1>5. /\ OriginOK /\ BoundsOK /\ WritesOrdered /\ LinkOrdered /\ QueueOK /\ AttachOK /\ SettledOK
      /\ FramesOK /\ NextOK /\ Honest /\ CacheOK
  BY DEF Faithful, OrderOK
<1>6. /\ stream.end \in Int /\ stream.base \in Int /\ sock.last \in Int /\ cache.last \in Int
      /\ \A i \in 1 .. n : down[i].to \in Int /\ down[i].from \in Int
      /\ \A i \in 1 .. Len(writes) : writes[i].to \in Int
  BY TypedFacts, MessageFields
<1>7. ASSUME NEW to \in Int, NEW screen, Bytes(stream.gen, stream.base, to) \subseteq screen
      PROVE  Bytes(stream'.gen, stream'.base, to) \subseteq screen
  BY <1>2, <1>6, <1>7, BytesFacts
<1>8. serving' => Covered(l, stream'.end) \/ Lossy(l)
  OBVIOUS
<1> HIDE DEF n, l
<1>9. AnswersOK'
  <2>1. ASSUME NEW i \in 1 .. l, down'[i].type \in {"clear", "snapshot"}
        PROVE  \E r \in i + 1 .. l : down'[r].type \in {"attached", "resynced"}
    <3>1. CASE i \in 1 .. n
      <4>1. PICK r \in i + 1 .. n : down[r].type \in {"attached", "resynced"}
        BY <1>1, <2>1, <3>1 DEF AnswersOK, n
      <4>2. r \in 1 .. n /\ r \in i + 1 .. l
        BY <1>1, <3>1
      <4> QED
        BY <1>1, <4>1, <4>2
    <3>2. CASE i \in n + 1 .. l
      BY <1>3, <2>1, <3>2
    <3> QED
      BY <1>1, <3>1, <3>2
  <2>2. ASSUME NEW g \in 1 .. l, NEW r \in 1 .. l, g < r,
               down'[g].type = "gap", Settles(down'[r])
        PROVE  \E i \in g + 1 .. r - 1 : Resets(down'[i])
    <3>1. g \in 1 .. n /\ n # 0
      <4>1. r \in g + 1 .. l
        BY <1>1, <2>2
      <4> QED
        BY <1>1, <1>3, <2>2, <4>1
    <3>2. CASE r \in 1 .. n
      <4>1. PICK i \in g + 1 .. r - 1 : Resets(down[i])
        BY <1>1, <2>2, <3>1, <3>2 DEF AnswersOK, n
      <4>2. i \in 1 .. n
        BY <1>1, <3>1, <3>2
      <4> QED
        BY <1>1, <4>1, <4>2
    <3>3. CASE r \in n + 1 .. l
      <4>1. PICK i \in n + 1 .. r - 1 : Resets(down'[i])
        BY <1>3, <2>2, <3>1, <3>3
      <4>2. i \in g + 1 .. r - 1
        BY <1>1, <3>1
      <4> QED
        BY <4>1, <4>2
    <3> QED
      BY <1>1, <3>2, <3>3
  <2> QED
    BY <2>1, <2>2 DEF AnswersOK, l
<1>10. OriginOK' /\ BoundsOK' /\ CacheOK' /\ Honest'
  <2>1. OriginOK' /\ BoundsOK'
    <3>1. CursorSet => sock.last <= stream'.end
      BY <1>2, <1>5, <1>6 DEF BoundsOK
    <3>2. cache.gen = stream.gen => cache.last <= stream'.end
      BY <1>2, <1>5, <1>6 DEF BoundsOK
    <3> QED
      BY <1>2, <1>4, <1>5, <3>1, <3>2 DEF OriginOK, BoundsOK
  <2>2. CacheOK'
    <3> SUFFICES ASSUME Resumable(cache.last, cache.gen)'
                 PROVE  Bytes(stream'.gen, stream'.base, cache.last) \subseteq cache.shown
      BY <1>2 DEF CacheOK
    <3>1. Resumable(cache.last, cache.gen)
      BY <1>2, <1>6 DEF Resumable
    <3> QED
      BY <1>5, <1>6, <1>7, <3>1 DEF CacheOK
  <2>3. Honest'
    <3> SUFFICES ASSUME Resumable(sock.last, sock.gen)', ~sock.awaiting
                 PROVE  Bytes(stream'.gen, stream'.base, sock.last) \subseteq Eventual
      BY <1>2, <1>4 DEF Honest
    <3>1. Resumable(sock.last, sock.gen)
      BY <1>2, <1>6 DEF Resumable
    <3> QED
      BY <1>5, <1>6, <1>7, <3>1 DEF Honest
  <2> QED
    BY <2>1, <2>2, <2>3
<1>11. AttachOK'
  <2>1. CASE ~(up' # <<>> /\ Head(up').type = "attach")
    BY <2>1 DEF AttachOK
  <2>2. CASE up' = up
    <3> SUFFICES ASSUME up # <<>>, Head(up).type = "attach",
                        Head(up).last # None, Head(up).gen = stream'.gen,
                        Head(up).last >= stream'.base
                 PROVE  Bytes(stream'.gen, stream'.base, Head(up).last) \subseteq Eventual
      BY <1>4, <2>2 DEF AttachOK, Resumable, WholeNow
    <3>1. Head(up).last \in Int
      BY TypedFacts, ResumeBounds DEF Calls, Cursors, None
    <3>2. Resumable(Head(up).last, Head(up).gen)
      BY <1>2, <1>6, <3>1 DEF Resumable
    <3> QED
      BY <1>5, <1>7, <3>1, <3>2 DEF AttachOK, WholeNow
  <2> QED
    BY <2>1, <2>2
<1>12. QueueOK'
  <2> SUFFICES ASSUME NEW i \in 1 .. Len(writes), Content(writes[i])
               PROVE  \/ \E j \in i + 1 .. Len(writes) : writes[j].type = "clear"
                      \/ Bytes(stream'.gen, stream'.base, writes[i].to) \subseteq Eventual
                      \/ LossKnown
    BY <1>2, <1>4 DEF QueueOK, WholeNow, Content
  <2> QED
    BY <1>5, <1>6, <1>7 DEF QueueOK, WholeNow
\* Everything sent before ends no later than the stream.
<1>13. /\ CursorSet => sock.last <= stream'.end
       /\ \A i \in 1 .. Len(writes) : Content(writes[i]) => writes[i].to <= stream'.end
       /\ \A i \in 1 .. n : Content(down[i]) => down[i].to <= stream'.end
  <2>1. CursorSet => sock.last <= stream.end
    BY <1>5 DEF BoundsOK
  <2>2. \A i \in 1 .. Len(writes) : Content(writes[i]) => writes[i].to <= stream.end
    BY <1>5 DEF WritesOrdered
  <2>3. \A i \in 1 .. n : Content(down[i]) => down[i].to <= stream.end
    BY <1>5 DEF LinkOrdered, n
  <2> QED
    BY <1>2, <1>6, <2>1, <2>2, <2>3
<1>14. WritesOrdered'
  <2> SUFFICES ASSUME NEW i \in 1 .. Len(writes), Content(writes[i])
               PROVE  /\ writes[i].to <= stream'.end
                      /\ CursorSet => sock.last <= writes[i].to
                      /\ \A j \in i + 1 .. Len(writes) :
                           Content(writes[j]) => writes[i].to <= writes[j].to
                      /\ \A j \in 1 .. l : Content(down'[j]) => writes[i].to <= down'[j].to
    BY <1>2, <1>4 DEF WritesOrdered, Content, l
  <2>1. ASSUME NEW j \in 1 .. l, Content(down'[j])
        PROVE  writes[i].to <= down'[j].to
    <3>1. CASE j \in 1 .. n
      BY <1>1, <1>5, <2>1, <3>1 DEF WritesOrdered, n
    <3>2. CASE j \in n + 1 .. l
      BY <1>3, <1>13, <2>1, <3>2
    <3> QED
      BY <1>1, <3>1, <3>2
  <2> QED
    BY <1>5, <1>13, <2>1 DEF WritesOrdered
<1>15. LinkOrdered'
  <2> SUFFICES ASSUME NEW i \in 1 .. l, Content(down'[i])
               PROVE  /\ down'[i].to <= stream'.end
                      /\ CursorSet => sock.last <= down'[i].to
                      /\ \A j \in i + 1 .. l : Content(down'[j]) => down'[i].to <= down'[j].to
    BY <1>2, <1>4 DEF LinkOrdered, Content, l
  <2>1. CASE i \in 1 .. n
    <3>1. down'[i] = down[i] /\ down[i].to <= stream'.end
      BY <1>1, <1>13, <2>1
    <3>2. ASSUME NEW j \in i + 1 .. l, Content(down'[j])
          PROVE  down'[i].to <= down'[j].to
      <4>1. CASE j \in 1 .. n
        <5>1. j \in i + 1 .. n
          BY <1>1, <2>1, <4>1
        <5> QED
          BY <1>1, <1>5, <2>1, <3>1, <3>2, <4>1, <5>1 DEF LinkOrdered, n
      <4>2. CASE j \in n + 1 .. l
        BY <1>3, <3>1, <3>2, <4>2
      <4>3. j \in 1 .. l
        BY <1>1, <2>1
      <4> QED
        BY <1>1, <4>1, <4>2, <4>3
    <3>3. CursorSet => sock.last <= down'[i].to
      BY <1>5, <2>1, <3>1 DEF LinkOrdered, n
    <3> QED
      BY <3>1, <3>2, <3>3
  <2>2. CASE i \in n + 1 .. l
    <3>1. down'[i].to = stream'.end
      BY <1>3, <2>2
    <3>2. ASSUME NEW j \in i + 1 .. l, Content(down'[j])
          PROVE  down'[j].to = stream'.end
      <4>1. j \in n + 1 .. l
        BY <1>1, <2>2
      <4> QED
        BY <1>3, <3>2, <4>1
    <3> QED
      BY <1>2, <1>13, <3>1, <3>2
  <2> QED
    BY <1>1, <2>1, <2>2
<1>16. SettledOK'
  <2> SUFFICES ASSUME NEW r \in 1 .. l, Settles(down'[r])
               PROVE  /\ CursorSet => Covered(r - 1, sock.last)
                      /\ \A i \in 1 .. Len(writes) :
                           Content(writes[i]) => Covered(r - 1, writes[i].to)
                      /\ \A i \in 1 .. r - 1 : Content(down'[i]) => Covered(r - 1, down'[i].to)
    BY <1>2, <1>4 DEF SettledOK, WholeAt, ScreenAt, Content, Covered, l
  <2>1. CASE r \in 1 .. n
    <3>1. /\ CursorSet => WholeAt(r - 1, sock.last)
          /\ \A i \in 1 .. Len(writes) : Content(writes[i]) => WholeAt(r - 1, writes[i].to)
          /\ \A i \in 1 .. r - 1 : Content(down[i]) => WholeAt(r - 1, down[i].to)
      BY <1>1, <1>5, <2>1 DEF SettledOK, n
    <3>2. \A to \in Int : WholeAt(r - 1, to) => Covered(r - 1, to)
      <4>1. r - 1 \in 0 .. n
        BY <1>1, <2>1
      <4> QED
        BY <1>1, <4>1
    <3>3. \A i \in 1 .. r - 1 : i \in 1 .. n
      BY <1>1, <2>1
    <3> QED
      BY <1>1, <1>6, <3>1, <3>2, <3>3
  <2>2. CASE r \in n + 1 .. l
    <3>1. Covered(r - 1, stream'.end)
      BY <1>3, <2>2
    <3>2. \A to \in Int : to <= stream'.end => Covered(r - 1, to)
      <4>1. ASSUME NEW to \in Int, to <= stream'.end
            PROVE  Bytes(stream'.gen, stream'.base, to) \subseteq
                     Bytes(stream'.gen, stream'.base, stream'.end)
        BY <1>2, <4>1, BytesFacts
      <4> QED
        BY <3>1, <4>1 DEF Covered
    <3>3. ASSUME NEW i \in 1 .. r - 1, Content(down'[i])
          PROVE  Covered(r - 1, down'[i].to)
      <4>1. CASE i \in 1 .. n
        BY <1>1, <1>6, <1>13, <3>2, <3>3, <4>1
      <4>2. CASE i \in n + 1 .. l
        BY <1>3, <3>1, <3>3, <4>2
      <4>3. i \in 1 .. l
        BY <1>1, <2>2
      <4> QED
        BY <1>1, <4>1, <4>2, <4>3
    <3> QED
      BY <1>6, <1>13, <3>2, <3>3
  <2> QED
    BY <1>1, <2>1, <2>2
<1>17. FramesOK'
  <2> SUFFICES ASSUME NEW i \in 1 .. l, down'[i].type = "data"
               PROVE  Covered(i - 1, down'[i].from) \/ Lossy(i - 1)
    BY <1>2, <1>4 DEF FramesOK, WholeAt, ScreenAt, LossAt, Covered, Lossy, l
  <2>1. CASE i \in 1 .. n
    <3>1. WholeAt(i - 1, down[i].from) \/ LossAt(i - 1)
      BY <1>1, <1>5, <2>1 DEF FramesOK, n
    <3>2. i - 1 \in 0 .. n
      BY <1>1, <2>1
    <3> QED
      BY <1>1, <1>6, <2>1, <3>1, <3>2
  <2>2. CASE i \in n + 1 .. l
    BY <1>3, <2>2
  <2> QED
    BY <1>1, <2>1, <2>2
<1>18. NextOK'
  BY <1>2, <1>4, <1>8 DEF NextOK, WholeAt, ScreenAt, LossAt, Covered, Lossy, l
<1> QED
  BY <1>9, <1>10, <1>11, <1>12, <1>14, <1>15, <1>16, <1>17, <1>18 DEF Faithful, OrderOK

\* One message more on the new link.
LEMMA SentStep ==
  ASSUME TypeOK, NEW n \in Nat, NEW m \in Messages, down'[n + 1] = m,
         stream'.base \in Int, stream'.gen = stream.gen, m.gen = stream.gen
  PROVE  /\ \A to : ~Terminal(m) => (Covered(n, to) <=> Covered(n + 1, to))
         /\ ~Ends(m) /\ Lossy(n) => Lossy(n + 1)
         /\ Announces(m) => Lossy(n + 1)
         /\ m.type = "data" /\ Covered(n, m.from) => Covered(n + 1, m.to)
         /\ Covered(n, stream'.base)
         /\ Last_(m) /\ 0 <= stream'.base => Covered(n + 1, m.to)
<1> DEFINE screen == ScreenAfter(Eventual, down', n)
           base == stream'.base
           gen == stream'.gen
<1>1. ScreenAfter(Eventual, down', n + 1) = Painted(screen, m)
  BY ScreenNext
<1>2. /\ \A to : Covered(n, to) <=> Bytes(gen, base, to) \subseteq screen
      /\ \A to : Covered(n + 1, to) <=> Bytes(gen, base, to) \subseteq Painted(screen, m)
  BY <1>1 DEF Covered
<1>3. m.from \in Int /\ m.to \in Int /\ base \in Int /\ 0 \in Int
  BY MessageFields
<1> HIDE DEF screen, base, gen
<1>4. \A to : ~Terminal(m) => (Covered(n, to) <=> Covered(n + 1, to))
  BY <1>2, PaintedFacts
<1>5. ASSUME m.type = "data", Covered(n, m.from)
      PROVE  Covered(n + 1, m.to)
  <2>1. Painted(screen, m) = screen \cup Bytes(gen, m.from, m.to)
    BY <1>5, PaintedFacts DEF gen
  <2>2. Bytes(gen, base, m.to) \subseteq Bytes(gen, base, m.from) \cup Bytes(gen, m.from, m.to)
    BY <1>3, BytesFacts
  <2> QED
    BY <1>2, <1>5, <2>1, <2>2
<1>6. Covered(n, base)
  <2>1. Bytes(gen, base, base) = {}
    BY <1>3, BytesFacts
  <2> QED
    BY <1>2, <2>1
<1>7. ASSUME Last_(m), 0 <= base
      PROVE  Covered(n + 1, m.to)
  <2>1. Painted(screen, m) = Bytes(gen, 0, m.to)
    BY <1>7, PaintedFacts DEF gen
  <2>2. Bytes(gen, base, m.to) \subseteq Bytes(gen, 0, m.to)
    BY <1>3, <1>7, BytesFacts
  <2> QED
    BY <1>2, <2>1, <2>2
<1>8. \A i \in Int : i \in 1 .. n + 1 <=> i \in 1 .. n \/ i = n + 1
  OBVIOUS
<1>9. ASSUME ~Ends(m), Lossy(n)
      PROVE  Lossy(n + 1)
  <2>1. GapOpen(down', n) => GapOpen(down', n + 1)
    <3>1. ASSUME NEW g \in 1 .. n, \A i \in g + 1 .. n : ~Ends(down'[i]), NEW i \in g + 1 .. n + 1
          PROVE  ~Ends(down'[i])
      <4>1. i \in g + 1 .. n \/ i = n + 1
        OBVIOUS
      <4> QED
        BY <1>9, <3>1, <4>1
    <3> QED
      BY <1>8, <3>1 DEF GapOpen
  <2>2. Unended(down', n) => Unended(down', n + 1)
    BY <1>8, <1>9 DEF Unended
  <2> QED
    BY <1>9, <2>1, <2>2 DEF Lossy
<1>10. ASSUME Announces(m)
       PROVE  Lossy(n + 1)
  <2>1. n + 1 \in 1 .. n + 1 /\ \A i \in (n + 1) + 1 .. n + 1 : FALSE
    OBVIOUS
  <2> QED
    BY <1>10, <2>1 DEF Lossy, GapOpen
<1> QED
  BY <1>4, <1>5, <1>6, <1>7, <1>9, <1>10 DEF base

\* What the properties read of a message that the server sends.
LEMMA SentFacts ==
  ASSUME TypeOK
  PROVE  /\ \A from : LET m == DataSent(from)
                      IN /\ m.type = "data" /\ m.gen = stream.gen /\ m.from = from
                         /\ m.to = stream.end /\ ~Ends(m) /\ ~Settles(m) /\ ~Resets(m)
         /\ LET m == ClearSent
            IN /\ m.type = "clear" /\ m.gen = stream.gen /\ Resets(m) /\ ~Settles(m)
               /\ ~Content(m)
         /\ LET m == ChunkSent
            IN /\ m.type = "snapshot" /\ m.gen = stream.gen /\ ~Settles(m) /\ ~Content(m)
               /\ ~Ends(m)
         /\ LET m == LastSent
            IN /\ m.type = "snapshot" /\ m.gen = stream.gen /\ Resets(m) /\ Last_(m)
               /\ m.to = stream.end /\ ~Settles(m)
         /\ \A type \in {"attached", "begin", "resynced", "rejected", "exit"} :
              /\ LET m == ControlSent(type)
                 IN /\ m.type = type /\ m.gen = stream.gen /\ ~Terminal(m) /\ ~Content(m)
                    /\ Settles(m) <=> type \in {"attached", "resynced"}
                    /\ Ends(m) <=> type \in {"attached", "resynced"}
              /\ LET m == LossSent(type)
                 IN /\ m.type = type /\ m.gen = stream.gen /\ ~Terminal(m) /\ ~Content(m)
                    /\ ~Settles(m) /\ ~Ends(m)
                    /\ Announces(m) <=> type \in {"attached", "resynced"}
BY DEF DataSent, ClearSent, ChunkSent, LastSent, ControlSent, LossSent, Ends, Settles, Resets,
       Content, ContentOf, Last_, Terminal, Announces

LEMMA TailUp ==
  ASSUME TypeOK, LinkOK, up # <<>>, up' = Tail(up)
  PROVE  /\ up' \in Seq(Calls) /\ \A i \in 1 .. Len(up') : up'[i].type # "attach"
         /\ ~(up' # <<>> /\ Head(up').type = "attach")
<1>1. up \in Seq(Calls)
  BY DEF TypeOK
<1>2. /\ up' \in Seq(Calls) /\ Len(up) \in Nat /\ Len(up') = Len(up) - 1
      /\ \A i \in 1 .. Len(up) - 1 : up'[i] = up[i + 1]
  BY <1>1
<1>3. ASSUME NEW i \in 1 .. Len(up')
      PROVE  up'[i].type # "attach"
  <2>1. i + 1 \in 1 .. Len(up) /\ i + 1 # 1 /\ up'[i] = up[i + 1]
    BY <1>2
  <2> QED
    BY <2>1 DEF LinkOK
<1>4. up' # <<>> => 1 \in 1 .. Len(up') /\ Head(up') = up'[1]
  BY <1>2
<1> QED
  BY <1>2, <1>3, <1>4

LEMMA ProduceKeeps ==
  ASSUME TypeOK, LinkOK, Produce
  PROVE  LinkOK' /\ (AnswersOK /\ Faithful => AnswersOK' /\ Faithful')
<1> DEFINE frame == [type |-> "data", gen |-> stream.gen, from |-> stream.end,
                     to |-> stream.end + 1, flag |-> FALSE]
           n == Len(down)
<1>0. stream.base <= stream.end
  BY DEF LinkOK
<1>1. /\ TypeOK'
      /\ stream'.gen = stream.gen /\ stream'.end = stream.end + 1
      /\ stream.base <= stream'.base /\ stream'.base <= stream'.end
      /\ down' = IF serving THEN Append(down, frame) ELSE down
      /\ UNCHANGED <<up, serving, link, sock, writes, shown, cache, origin, skipped>>
  BY <1>0, ProduceTyped
<1>2. /\ frame.type = "data" /\ frame.gen = stream.gen /\ frame.from = stream.end
      /\ frame.to = stream'.end /\ ~Ends(frame) /\ ~Settles(frame)
  BY <1>1 DEF Ends, Resets, Settles
<1>3. /\ down \in Seq(Messages) /\ n \in Nat /\ stream.end \in Nat /\ stream.base \in Nat
      /\ stream.gen \in Nat
  BY TypedFacts
<1>4. down' \in Seq(Messages) /\ stream'.base \in Int /\ stream'.end \in Int
  BY <1>1, ResumeBounds DEF TypeOK
<1>5. frame \in Messages
  <2>1. frame.to \in 0 .. MaxEnd /\ frame.from \in 0 .. MaxEnd /\ frame.gen \in 0 .. MaxGen
    BY <1>1, <1>2, StreamFields DEF TypeOK
  <2> QED
    BY <2>1 DEF Messages, Kinds
<1> HIDE DEF frame
<1>6. CASE serving
  <2>1. /\ Len(down') = n + 1 /\ down'[n + 1] = frame /\ \A i \in 1 .. n : down'[i] = down[i]
        /\ \A i \in n + 1 .. Len(down') : i = n + 1
    <3>1. down' = Append(down, frame)
      BY <1>1, <1>6
    <3> QED
      BY <1>3, <1>5, <3>1
  <2>2. Grows(1)
    BY <1>1, <1>3, <1>4, <2>1 DEF Grows, Extends
  <2>3. LinkOK'
    <3>1. \A i \in 1 .. Len(down') : down'[i].gen = stream'.gen
      BY <1>1, <1>2, <1>3, <2>1 DEF LinkOK
    <3> QED
      BY <1>1, <1>6, <3>1 DEF LinkOK
  <2>4. ASSUME AnswersOK, Faithful
        PROVE  AnswersOK' /\ Faithful'
    <3>1. Covered(n, stream.end) \/ Lossy(n)
      <4>1. WholeAt(n, stream.end) \/ LossAt(n)
        BY <1>6, <2>4 DEF Faithful, NextOK
      <4>2. n \in 0 .. n /\ stream.end \in Int
        BY <1>3
      <4> QED
        BY <2>2, <4>1, <4>2, GrownFacts
    <3>2. Covered(n + 1, stream'.end) \/ Lossy(n + 1)
      BY <1>1, <1>2, <1>3, <1>4, <1>5, <2>1, <3>1, SentStep
    <3>3. \A i \in n + 1 .. Len(down') :
            /\ i = n + 1 /\ down'[i] = frame /\ i - 1 = n
      BY <1>3, <2>1
    <3>4. \A i \in Len(down) + 1 .. Len(down') :
            /\ down'[i].type \in {"clear", "snapshot"} =>
                 \E r \in i + 1 .. Len(down') : down'[r].type \in {"attached", "resynced"}
            /\ Settles(down'[i]) /\ Len(down) # 0 =>
                 \E r \in Len(down) + 1 .. i - 1 : Resets(down'[r])
            /\ down'[i].type = "gap" => \A r \in i + 1 .. Len(down') : ~Settles(down'[r])
            /\ Content(down'[i]) => down'[i].to = stream'.end
            /\ down'[i].type = "data" => Covered(i - 1, down'[i].from) \/ Lossy(i - 1)
            /\ Settles(down'[i]) => Covered(i - 1, stream'.end)
      BY <1>2, <3>1, <3>3
    <3> QED
      BY <1>1, <2>1, <2>2, <2>4, <3>2, <3>4, GrowStep
  <2> QED
    BY <2>3, <2>4
<1>7. CASE ~serving
  <2>1. down' = down /\ down = <<>>
    BY <1>1, <1>7 DEF LinkOK
  <2>2. Grows(0) /\ \A i \in Len(down) + 1 .. Len(down') : FALSE
    BY <1>1, <1>3, <1>4, <2>1 DEF Grows, Extends
  <2>3. LinkOK'
    BY <1>1, <2>1 DEF LinkOK
  <2>4. ASSUME AnswersOK, Faithful
        PROVE  AnswersOK' /\ Faithful'
    BY <1>1, <1>7, <2>2, <2>4, GrowStep
  <2> QED
    BY <2>3, <2>4
<1> QED
  BY <1>6, <1>7

\* A message that says nothing of the screen.
LEMMA QuietKeeps ==
  ASSUME TypeOK, TypeOK', LinkOK, NEW type \in {"exit", "rejected"}, serving, serving' = TRUE,
         Extends(down', down, 1), down'[Len(down) + 1] = ControlSent(type),
         up' = up \/ (up # <<>> /\ up' = Tail(up)),
         UNCHANGED <<stream, link, sock, writes, shown, cache, origin, skipped>>
  PROVE  LinkOK' /\ (AnswersOK /\ Faithful => AnswersOK' /\ Faithful')
<1> DEFINE m == ControlSent(type)
           n == Len(down)
<1>1. /\ m.type = type /\ m.gen = stream.gen /\ ~Ends(m) /\ ~Settles(m) /\ ~Terminal(m)
      /\ ~Content(m)
  BY DEF ControlSent, Ends, Resets, Settles, Terminal, Content, ContentOf, Last_
<1>2. /\ n \in Nat /\ Len(down') = n + 1 /\ down'[n + 1] = m /\ down' \in Seq(Messages)
      /\ \A i \in 1 .. n : down'[i] = down[i]
  BY DEF Extends
<1>3. \A i \in n + 1 .. Len(down') : i = n + 1
  BY <1>2
<1>4. m \in Messages /\ stream.base \in Int /\ stream.end \in Int
  <2>1. n + 1 \in 1 .. Len(down')
    BY <1>2
  <2>2. m \in Messages
    BY <1>2, <2>1, ElementOfSeq
  <2> QED
    BY <2>2, TypedFacts
<1> HIDE DEF m
<1>5. Grows(1)
  BY <1>2, <1>4 DEF Grows, Extends
<1>6. LinkOK'
  <2>1. \A i \in 1 .. Len(down') : down'[i].gen = stream'.gen
    BY <1>1, <1>2 DEF LinkOK
  <2>2. link = "open"
    BY DEF LinkOK
  <2>3. \A i \in 1 .. Len(up') : up'[i].type = "attach" => i = 1 /\ ~serving'
    <3>1. CASE up' = up
      BY <3>1 DEF LinkOK
    <3>2. CASE up # <<>> /\ up' = Tail(up)
      BY <3>2, TailUp
    <3> QED
      BY <3>1, <3>2
  <2> QED
    BY <2>1, <2>2, <2>3 DEF LinkOK
<1>7. ASSUME AnswersOK, Faithful
      PROVE  AnswersOK' /\ Faithful'
  <2>1. Covered(n, stream'.end) \/ Lossy(n)
    <3>1. WholeAt(n, stream.end) \/ LossAt(n)
      BY <1>7 DEF Faithful, NextOK
    <3>2. n \in 0 .. n
      BY <1>2
    <3> QED
      BY <1>4, <1>5, <3>1, <3>2, GrownFacts
  <2>2. Covered(n + 1, stream'.end) \/ Lossy(n + 1)
    BY <1>1, <1>2, <1>4, <2>1, SentStep
  <2>3. \A i \in Len(down) + 1 .. Len(down') :
          /\ down'[i].type \notin {"clear", "snapshot", "attached", "resynced", "gap", "data"}
          /\ ~Content(down'[i]) /\ ~Settles(down'[i])
    BY <1>1, <1>2, <1>3
  <2>4. up' = up \/ ~(up' # <<>> /\ Head(up').type = "attach")
    BY TailUp
  <2> QED
    BY <1>2, <1>5, <1>7, <2>2, <2>3, <2>4, GrowStep
<1> QED
  BY <1>6, <1>7

LEMMA ExitKeeps ==
  ASSUME TypeOK, LinkOK, Exit
  PROVE  LinkOK' /\ (AnswersOK /\ Faithful => AnswersOK' /\ Faithful')
<1> DEFINE m == ControlSent("exit")
           n == Len(down)
<1>1. /\ TypeOK' /\ serving /\ down' = Append(down, m)
      /\ UNCHANGED <<stream, up, serving, link, sock, writes, shown, cache, origin, skipped>>
  BY ExitTyped
<1>2. m \in Messages
  BY SentTyped
<1>3. down \in Seq(Messages)
  BY DEF TypeOK
<1> HIDE DEF m
<1>4. /\ Len(down') = n + 1 /\ down'[n + 1] = m /\ \A i \in 1 .. n : down'[i] = down[i]
      /\ n \in Nat /\ down' \in Seq(Messages)
  BY <1>1, <1>2, <1>3
<1>5. Extends(down', down, 1) /\ down'[n + 1] = ControlSent("exit")
  BY <1>4 DEF Extends, m
<1> QED
  BY <1>1, <1>2, <1>4, <1>5, QuietKeeps

\* An answer ends with the screen whole, or tells of a loss.
Answered(k) ==
  /\ Grows(k) /\ stream' = stream
  /\ \A i \in Len(down) + 1 .. Len(down') :
       /\ down'[i].gen = stream.gen
       /\ down'[i].type \in {"clear", "snapshot"} =>
            \E r \in i + 1 .. Len(down') : down'[r].type \in {"attached", "resynced"}
       /\ Settles(down'[i]) /\ Len(down) # 0 =>
            \E r \in Len(down) + 1 .. i - 1 : Resets(down'[r])
       /\ down'[i].type = "gap" => \A r \in i + 1 .. Len(down') : ~Settles(down'[r])
       /\ Content(down'[i]) => down'[i].to = stream.end
       /\ down'[i].type = "data" => Covered(i - 1, down'[i].from) \/ Lossy(i - 1)
       /\ Settles(down'[i]) => Covered(i - 1, stream.end)
  /\ Covered(Len(down'), stream.end) \/ Lossy(Len(down'))

LEMMA AnsweredKeeps ==
  ASSUME TypeOK, LinkOK, AnswersOK, Faithful, NEW k \in Nat, Answered(k),
         up # <<>>, up' = Tail(up)
  PROVE  AnswersOK' /\ Faithful'
<1>1. ~(up' # <<>> /\ Head(up').type = "attach")
  BY TailUp
<1> QED
  BY <1>1, GrowStep DEF Answered

LEMMA AnsweredLink ==
  ASSUME TypeOK, LinkOK, NEW k \in Nat, Extends(down', down, k),
         \A i \in Len(down) + 1 .. Len(down') : down'[i].gen = stream.gen,
         up # <<>>, up' = Tail(up), serving' = TRUE,
         UNCHANGED <<stream, link, sock, writes, cache, origin>>
  PROVE  LinkOK'
<1>1. link = "open" /\ \A i \in 1 .. Len(up') : up'[i].type # "attach"
  BY TailUp DEF LinkOK
<1>2. ASSUME NEW i \in 1 .. Len(down')
      PROVE  down'[i].gen = stream.gen
  <2>1. Len(down) \in Nat /\ Len(down') = Len(down) + k
        /\ \A j \in 1 .. Len(down) : down'[j] = down[j]
    BY DEF Extends
  <2>2. i \in 1 .. Len(down) \/ i \in Len(down) + 1 .. Len(down')
    BY <2>1
  <2> QED
    BY <2>1, <2>2 DEF LinkOK
<1> QED
  BY <1>1, <1>2 DEF LinkOK

LEMMA ServeAttachKeeps ==
  ASSUME TypeOK, LinkOK, NEW answer \in Answers, ServeAttach(answer)
  PROVE  LinkOK' /\ (AnswersOK /\ Faithful => AnswersOK' /\ Faithful')
<1> DEFINE last == Head(up).last
           attached == ControlSent("attached")
           lost == LossSent("attached")
<1>1. down = <<>> /\ up # <<>> /\ Head(up).type = "attach"
  <2>1. up # <<>> /\ Head(up).type = "attach" /\ up \in Seq(Calls)
    BY DEF ServeAttach, TypeOK
  <2>2. 1 \in 1 .. Len(up) /\ Head(up) = up[1]
    BY <2>1
  <2> QED
    BY <2>1, <2>2 DEF LinkOK
<1>2. /\ TypeOK' /\ up' = Tail(up)
      /\ answer = "delta" => ResumeOK(Head(up))
      /\ AttachAnswered(answer, last)
      /\ serving' = TRUE
      /\ UNCHANGED <<stream, link, sock, writes, shown, cache, origin, skipped>>
  BY <1>1, ServeAttachTyped
<1>3. /\ Len(down) = 0 /\ down' \in Seq(Messages) /\ stream.base \in Nat /\ stream.end \in Nat
      /\ stream.gen \in Nat /\ \A i \in 1 .. Len(down') : down'[i] \in Messages
      /\ 0 + 1 = 1 /\ 1 + 1 = 2 /\ 2 + 1 = 3 /\ 0 \in Nat /\ 1 \in Nat /\ 2 \in Nat
  <2>1. down' \in Seq(Messages)
    BY <1>2 DEF TypeOK
  <2> QED
    BY <1>1, <2>1, TypedFacts
<1>4. Eventual = ScreenAfter(Eventual, down', 0)
  BY ScreenNone
<1>5. ASSUME NEW k \in Nat, Len(down') = k
      PROVE  Grows(k) /\ Extends(down', down, k)
  BY <1>2, <1>3, <1>5 DEF Grows, Extends
<1>6. /\ attached.type = "attached" /\ attached.gen = stream.gen /\ ~Terminal(attached)
      /\ ~Content(attached) /\ Settles(attached)
      /\ lost.type = "attached" /\ lost.gen = stream.gen /\ ~Terminal(lost)
      /\ ~Content(lost) /\ ~Settles(lost) /\ Announces(lost)
  BY SentFacts
<1>7. ASSUME NEW k \in Nat, Len(down') = k,
             \A i \in 1 .. k :
               /\ down'[i].gen = stream.gen
               /\ down'[i].type \in {"clear", "snapshot"} =>
                    \E r \in i + 1 .. k : down'[r].type \in {"attached", "resynced"}
               /\ down'[i].type # "gap",
             AnswersOK /\ Faithful =>
               /\ \A i \in 1 .. k :
                    /\ Content(down'[i]) => down'[i].to = stream.end
                    /\ down'[i].type = "data" => Covered(i - 1, down'[i].from)
                    /\ Settles(down'[i]) => Covered(i - 1, stream.end)
               /\ Covered(k, stream.end) \/ Lossy(k)
      PROVE  LinkOK' /\ (AnswersOK /\ Faithful => AnswersOK' /\ Faithful')
  <2>1. Len(down) + 1 .. Len(down') = 1 .. k
    BY <1>3, <1>7
  <2>2. Grows(k) /\ Extends(down', down, k)
    BY <1>5, <1>7
  <2>3. LinkOK'
    BY <1>1, <1>2, <1>7, <2>1, <2>2, AnsweredLink
  <2>4. ASSUME AnswersOK, Faithful
        PROVE  AnswersOK' /\ Faithful'
    <3>1. Answered(k)
      BY <1>2, <1>3, <1>7, <2>1, <2>2, <2>4 DEF Answered, Settles
    <3> QED
      BY <1>1, <1>2, <2>4, <3>1, AnsweredKeeps
  <2> QED
    BY <2>3, <2>4
\* What a message of the answer leaves of the screen.
<1>8. ASSUME NEW n \in Nat, n + 1 \in 1 .. Len(down'), down'[n + 1].gen = stream.gen
      PROVE  LET m == down'[n + 1]
             IN /\ \A to : ~Terminal(m) => (Covered(n, to) <=> Covered(n + 1, to))
                /\ Announces(m) => Lossy(n + 1)
                /\ m.type = "data" /\ Covered(n, m.from) => Covered(n + 1, m.to)
                /\ Covered(n, stream.base)
                /\ Last_(m) => Covered(n + 1, m.to)
  BY <1>2, <1>3, <1>8, SentStep
<1>9. answer = "delta" => /\ last \in Nat /\ stream.base <= last /\ last <= stream.end
                          /\ last # None /\ Head(up).gen = stream.gen
  <2>1. answer = "delta" => ResumeOK(Head(up))
    BY <1>2
  <2>2. Head(up) \in Calls
    BY <1>1, HeadTailProperties DEF TypeOK
  <2>3. last \in Cursors
    BY <2>2 DEF Calls
  <2> QED
    BY <2>1, <2>3, ResumeBounds DEF ResumeOK, Cursors
<1>10. AnswersOK /\ Faithful /\ answer = "delta" => Covered(0, last)
  <2>1. Faithful => AttachOK
    BY DEF Faithful
  <2>2. Resumable(last, Head(up).gen) <=> last # None /\ Head(up).gen = stream.gen /\ last >= stream.base
    BY DEF Resumable
  <2> QED
    BY <1>1, <1>2, <1>4, <1>9, <2>1, <2>2 DEF AttachOK, WholeNow, Covered
<1>11. CASE answer = "delta" /\ last = stream.end /\ Len(down') = 1 /\ down'[1] = attached
  <2>1. \A i \in 1 .. 1 : i = 1 /\ i - 1 = 0
    OBVIOUS
  <2>2. 1 \in 1 .. Len(down') /\ 1 \in Nat
    BY <1>11
  <2>3. AnswersOK /\ Faithful => Covered(0, stream.end) /\ Covered(1, stream.end)
    BY <1>3, <1>6, <1>8, <1>10, <1>11, <2>2
  <2> HIDE DEF attached, lost
  <2> QED
    BY <1>6, <1>7, <1>11, <2>1, <2>2, <2>3
<1>12. CASE /\ answer = "delta" /\ last # stream.end
            /\ Len(down') = 2 /\ down'[1] = DataSent(last) /\ down'[2] = attached
  <2>1. \A i \in 1 .. 2 : (i = 1 /\ i - 1 = 0) \/ (i = 2 /\ i - 1 = 1)
    OBVIOUS
  <2>2. 1 \in 1 .. Len(down') /\ 2 \in 1 .. Len(down') /\ 2 \in Nat
    BY <1>12
  <2>3. /\ down'[1].type = "data" /\ down'[1].gen = stream.gen /\ down'[1].from = last
        /\ down'[1].to = stream.end /\ ~Settles(down'[1])
    BY <1>12, SentFacts
  <2> HIDE DEF attached, lost
  <2>4. AnswersOK /\ Faithful => /\ Covered(0, last) /\ Covered(1, stream.end)
                                 /\ Covered(2, stream.end)
    BY <1>3, <1>6, <1>8, <1>10, <1>12, <2>2, <2>3
  <2> QED
    BY <1>6, <1>7, <1>12, <2>1, <2>2, <2>3, <2>4
<1>13. CASE /\ answer = "screen" /\ Len(down') = 3
            /\ down'[1] = ChunkSent /\ down'[2] = LastSent /\ down'[3] = attached
  <2>1. \A i \in 1 .. 3 : (i = 1 /\ i - 1 = 0) \/ (i = 2 /\ i - 1 = 1) \/ (i = 3 /\ i - 1 = 2)
    OBVIOUS
  <2>2. /\ 1 \in 1 .. Len(down') /\ 2 \in 1 .. Len(down') /\ 3 \in 1 .. Len(down')
        /\ 3 \in Nat /\ 3 \in 1 + 1 .. 3 /\ 3 \in 2 + 1 .. 3
    BY <1>13
  <2>3. /\ down'[1].type = "snapshot" /\ down'[1].gen = stream.gen /\ ~Settles(down'[1])
        /\ ~Content(down'[1])
        /\ down'[2].type = "snapshot" /\ down'[2].gen = stream.gen /\ ~Settles(down'[2])
        /\ Last_(down'[2]) /\ down'[2].to = stream.end
    BY <1>13, SentFacts
  <2> HIDE DEF attached, lost
  <2>4. Covered(2, stream.end) /\ Covered(3, stream.end)
    BY <1>3, <1>6, <1>8, <1>13, <2>2, <2>3
  <2> QED
    BY <1>6, <1>7, <1>13, <2>1, <2>2, <2>3, <2>4
<1>14. CASE /\ answer = "raw" /\ stream.base = stream.end
            /\ Len(down') = 2 /\ down'[1] = ClearSent /\ down'[2] = attached
  <2>1. \A i \in 1 .. 2 : (i = 1 /\ i - 1 = 0) \/ (i = 2 /\ i - 1 = 1)
    OBVIOUS
  <2>2. 1 \in 1 .. Len(down') /\ 2 \in 1 .. Len(down') /\ 2 \in Nat /\ 2 \in 1 + 1 .. 2
    BY <1>14
  <2>3. /\ down'[1].type = "clear" /\ down'[1].gen = stream.gen /\ ~Settles(down'[1])
        /\ ~Content(down'[1])
    BY <1>14, SentFacts
  <2> HIDE DEF attached, lost
  <2>4. Covered(1, stream.end) /\ Covered(2, stream.end)
    BY <1>3, <1>6, <1>8, <1>14, <2>2, <2>3
  <2> QED
    BY <1>6, <1>7, <1>14, <2>1, <2>2, <2>3, <2>4
<1>15. CASE /\ answer = "raw" /\ stream.base # stream.end
            /\ Len(down') = 3 /\ down'[1] = ClearSent /\ down'[2] = DataSent(stream.base)
            /\ down'[3] = attached
  <2>1. \A i \in 1 .. 3 : (i = 1 /\ i - 1 = 0) \/ (i = 2 /\ i - 1 = 1) \/ (i = 3 /\ i - 1 = 2)
    OBVIOUS
  <2>2. /\ 1 \in 1 .. Len(down') /\ 2 \in 1 .. Len(down') /\ 3 \in 1 .. Len(down')
        /\ 3 \in Nat /\ 3 \in 1 + 1 .. 3
    BY <1>15
  <2>3. /\ down'[1].type = "clear" /\ down'[1].gen = stream.gen /\ ~Settles(down'[1])
        /\ ~Content(down'[1])
        /\ down'[2].type = "data" /\ down'[2].gen = stream.gen /\ ~Settles(down'[2])
        /\ down'[2].from = stream.base /\ down'[2].to = stream.end
    BY <1>15, SentFacts
  <2> HIDE DEF attached, lost
  <2>4. Covered(1, stream.base) /\ Covered(2, stream.end) /\ Covered(3, stream.end)
    BY <1>3, <1>6, <1>8, <1>15, <2>2, <2>3
  <2> QED
    BY <1>6, <1>7, <1>15, <2>1, <2>2, <2>3, <2>4
<1> QED
  BY <1>2, <1>11, <1>12, <1>13, <1>14, <1>15 DEF AttachAnswered

LEMMA ServeRequestKeeps ==
  ASSUME TypeOK, LinkOK, ServeRequest
  PROVE  LinkOK' /\ (AnswersOK /\ Faithful => AnswersOK' /\ Faithful')
<1> DEFINE n == Len(down)
           begin == ControlSent("begin")
           rejected == ControlSent("rejected")
<1>1. /\ TypeOK' /\ serving /\ up # <<>> /\ up' = Tail(up)
      /\ RequestAnswered(n)
      /\ UNCHANGED <<stream, serving, link, sock, writes, shown, cache, origin, skipped>>
  BY ServeRequestTyped
<1>2. /\ n \in Nat /\ down' \in Seq(Messages) /\ stream.base \in Nat /\ stream.end \in Nat
      /\ stream.gen \in Nat /\ \A i \in 1 .. Len(down') : down'[i] \in Messages
  <2>1. down' \in Seq(Messages)
    BY <1>1 DEF TypeOK
  <2> QED
    BY <2>1, TypedFacts
<1>3. ASSUME NEW k \in Nat, Extends(down', down, k)
      PROVE  Grows(k) /\ Len(down') = n + k
  BY <1>1, <1>2, <1>3 DEF Grows, Extends
<1>4. /\ begin.type = "begin" /\ begin.gen = stream.gen /\ ~Terminal(begin)
      /\ ~Content(begin) /\ ~Settles(begin)
  BY SentFacts
<1>5. \A m \in Resynced : /\ m.type = "resynced" /\ m.gen = stream.gen /\ ~Terminal(m)
                          /\ ~Content(m)
  BY SentFacts DEF Resynced
<1>6. ASSUME NEW k \in Nat, Extends(down', down, k),
             \A i \in n + 1 .. n + k :
               /\ down'[i].gen = stream.gen
               /\ down'[i].type \in {"clear", "snapshot"} =>
                    \E r \in i + 1 .. n + k : down'[r].type \in {"attached", "resynced"}
               /\ down'[i].type \in {"attached", "resynced"} =>
                    \E r \in n + 1 .. i - 1 : Resets(down'[r])
               /\ down'[i].type # "gap"
               /\ Content(down'[i]) => down'[i].to = stream.end
               /\ down'[i].type = "data" => Covered(i - 1, down'[i].from)
               /\ Settles(down'[i]) => Covered(i - 1, stream.end),
             Covered(n + k, stream.end)
      PROVE  LinkOK' /\ (AnswersOK /\ Faithful => AnswersOK' /\ Faithful')
  <2>1. Len(down') = n + k /\ Grows(k)
    BY <1>3, <1>6
  <2>2. LinkOK'
    BY <1>1, <1>6, <2>1, AnsweredLink
  <2>3. ASSUME AnswersOK, Faithful
        PROVE  AnswersOK' /\ Faithful'
    <3>1. Answered(k)
      BY <1>1, <1>6, <2>1 DEF Answered, Settles
    <3> QED
      BY <1>1, <2>3, <3>1, AnsweredKeeps
  <2> QED
    BY <2>2, <2>3
<1>7. ASSUME NEW i \in Nat, i + 1 \in 1 .. Len(down'), down'[i + 1].gen = stream.gen
      PROVE  LET m == down'[i + 1]
             IN /\ \A to : ~Terminal(m) => (Covered(i, to) <=> Covered(i + 1, to))
                /\ m.type = "data" /\ Covered(i, m.from) => Covered(i + 1, m.to)
                /\ Covered(i, stream.base)
                /\ Last_(m) => Covered(i + 1, m.to)
  <2> DEFINE m == down'[i + 1]
  <2>1. m \in Messages /\ m.gen = stream.gen /\ stream'.base = stream.base
        /\ stream'.gen = stream.gen /\ stream'.base \in Int /\ 0 <= stream'.base
    BY <1>1, <1>2, <1>7
  <2> QED
    BY <2>1, SentStep
<1>8. CASE /\ Extends(down', down, 4) /\ down'[n + 1] = begin
           /\ down'[n + 2] = ChunkSent /\ down'[n + 3] = LastSent
           /\ down'[n + 4] = ControlSent("resynced")
  <2>1. /\ down'[n + 2].type = "snapshot" /\ down'[n + 2].gen = stream.gen
        /\ ~Settles(down'[n + 2]) /\ ~Content(down'[n + 2])
        /\ down'[n + 3].type = "snapshot" /\ down'[n + 3].gen = stream.gen
        /\ ~Settles(down'[n + 3]) /\ Resets(down'[n + 3])
        /\ Last_(down'[n + 3]) /\ down'[n + 3].to = stream.end
        /\ down'[n + 4].type = "resynced" /\ down'[n + 4].gen = stream.gen
        /\ ~Terminal(down'[n + 4]) /\ ~Content(down'[n + 4])
    BY <1>5, <1>8, SentFacts DEF Resynced
  <2>2. Len(down') = n + 4
    BY <1>3, <1>8
  <2> HIDE DEF n, begin, rejected
  <2>3. /\ \A i \in n + 1 .. n + 4 : \/ i = n + 1
                                     \/ i = n + 2
                                     \/ i = n + 3
                                     \/ i = n + 4 /\ i - 1 = n + 3
        /\ n + 4 \in (n + 2) + 1 .. n + 4 /\ n + 4 \in (n + 3) + 1 .. n + 4
        /\ n + 3 \in n + 1 .. (n + 4) - 1
        /\ n + 2 \in Nat /\ n + 3 \in Nat /\ (n + 2) + 1 = n + 3 /\ (n + 3) + 1 = n + 4
        /\ (n + 2) + 1 \in 1 .. Len(down') /\ (n + 3) + 1 \in 1 .. Len(down')
    BY <1>2, <2>2
  <2>4. Covered(n + 3, stream.end) /\ Covered(n + 4, stream.end)
    BY <1>7, <2>1, <2>3
  <2> QED
    BY <1>4, <1>6, <1>8, <2>1, <2>3, <2>4
<1>9. CASE /\ Extends(down', down, 3) /\ stream.base = stream.end
           /\ down'[n + 1] = begin /\ down'[n + 2] = ClearSent
           /\ down'[n + 3] \in Resynced
  <2>1. /\ down'[n + 2].type = "clear" /\ down'[n + 2].gen = stream.gen
        /\ ~Settles(down'[n + 2]) /\ ~Content(down'[n + 2]) /\ Resets(down'[n + 2])
        /\ down'[n + 3].type = "resynced" /\ down'[n + 3].gen = stream.gen
        /\ ~Terminal(down'[n + 3]) /\ ~Content(down'[n + 3])
    BY <1>5, <1>9, SentFacts
  <2>2. Len(down') = n + 3
    BY <1>3, <1>9
  <2> HIDE DEF n, begin, rejected
  <2>3. /\ \A i \in n + 1 .. n + 3 : \/ i = n + 1
                                     \/ i = n + 2
                                     \/ i = n + 3 /\ i - 1 = n + 2
        /\ n + 3 \in (n + 2) + 1 .. n + 3 /\ n + 2 \in n + 1 .. (n + 3) - 1
        /\ n + 2 \in Nat /\ (n + 2) + 1 = n + 3
        /\ (n + 2) + 1 \in 1 .. Len(down')
    BY <1>2, <2>2
  <2>4. Covered(n + 2, stream.end) /\ Covered(n + 3, stream.end)
    BY <1>7, <1>9, <2>1, <2>3
  <2> QED
    BY <1>4, <1>6, <1>9, <2>1, <2>3, <2>4
<1>10. CASE /\ Extends(down', down, 4) /\ stream.base # stream.end
            /\ down'[n + 1] = begin /\ down'[n + 2] = ClearSent
            /\ down'[n + 3] = DataSent(stream.base)
            /\ down'[n + 4] \in Resynced
  <2>1. /\ down'[n + 2].type = "clear" /\ down'[n + 2].gen = stream.gen
        /\ ~Settles(down'[n + 2]) /\ ~Content(down'[n + 2]) /\ Resets(down'[n + 2])
        /\ down'[n + 3].type = "data" /\ down'[n + 3].gen = stream.gen
        /\ ~Settles(down'[n + 3]) /\ down'[n + 3].from = stream.base
        /\ down'[n + 3].to = stream.end
        /\ down'[n + 4].type = "resynced" /\ down'[n + 4].gen = stream.gen
        /\ ~Terminal(down'[n + 4]) /\ ~Content(down'[n + 4])
    BY <1>5, <1>10, SentFacts
  <2>2. Len(down') = n + 4
    BY <1>3, <1>10
  <2> HIDE DEF n, begin, rejected
  <2>3. /\ \A i \in n + 1 .. n + 4 : \/ i = n + 1
                                     \/ i = n + 2
                                     \/ i = n + 3 /\ i - 1 = n + 2
                                     \/ i = n + 4 /\ i - 1 = n + 3
        /\ n + 4 \in (n + 2) + 1 .. n + 4 /\ n + 2 \in n + 1 .. (n + 4) - 1
        /\ n + 2 \in Nat /\ n + 3 \in Nat /\ (n + 2) + 1 = n + 3 /\ (n + 3) + 1 = n + 4
        /\ (n + 2) + 1 \in 1 .. Len(down') /\ (n + 3) + 1 \in 1 .. Len(down')
    BY <1>2, <2>2
  <2>4. /\ Covered(n + 2, stream.base) /\ Covered(n + 3, stream.end)
        /\ Covered(n + 4, stream.end)
    BY <1>7, <2>1, <2>3
  <2> QED
    BY <1>4, <1>6, <1>10, <2>1, <2>3, <2>4
<1>11. CASE Extends(down', down, 1) /\ down'[n + 1] = rejected
  BY <1>1, <1>11, QuietKeeps
<1> QED
  BY <1>1, <1>8, <1>9, <1>10, <1>11 DEF RequestAnswered
-----------------------------------------------------------------------------
(***************************************************************************)
(* A replay that was cut or torn while it was queued.                      *)
(***************************************************************************)
LEMMA ReplyLink ==
  ASSUME TypeOK, LinkOK, up # <<>>, Happens, skipped' \in BOOLEAN,
         NEW kept, Own(kept), NEW incomplete \in BOOLEAN, Reply(kept, incomplete)
  PROVE  /\ TypeOK' /\ LinkOK' /\ up' = Tail(up) /\ serving' = TRUE
         /\ UNCHANGED <<stream, link, sock, state, writes, shown, desync, cache, origin>>
<1>1. /\ up' = Tail(up) /\ serving' = TRUE
      /\ UNCHANGED <<stream, link, sock, state, writes, shown, desync, cache, origin>>
  BY DEF Reply
<1>2. /\ up' \in Seq(Calls) /\ \A i \in 1 .. Len(up') : up'[i].type # "attach"
      /\ link = "open"
  BY <1>1, TailUp DEF LinkOK
<1>3. Own(down)
  BY DEF TypeOK, LinkOK, Own
<1>4. /\ Own(One(Message("begin", 0, 0, FALSE)))
      /\ Own(One(Message("attached", 0, 0, incomplete)))
      /\ Own(One(Message("resynced", 0, 0, incomplete)))
  BY PartsOwn
<1>5. \/ down' = (down \o kept) \o One(Message("attached", 0, 0, incomplete))
      \/ down' = ((down \o One(Message("begin", 0, 0, FALSE))) \o kept)
                   \o One(Message("resynced", 0, 0, incomplete))
  BY DEF Reply, One
<1>6. Own(down \o kept) /\ Own((down \o One(Message("begin", 0, 0, FALSE))) \o kept)
  BY <1>3, <1>4, OwnConcat
<1>7. down' \in Seq(Messages) /\ \A i \in 1 .. Len(down') : down'[i].gen = stream.gen
  <2>1. Own(down')
    BY <1>4, <1>5, <1>6, OwnConcat
  <2> QED
    BY <2>1 DEF Own
<1>8. TypeOK'
  BY <1>1, <1>2, <1>7, EventsTyped DEF TypeOK
<1>9. LinkOK'
  BY <1>1, <1>2, <1>7 DEF LinkOK
<1> QED
  BY <1>1, <1>8, <1>9

LEMMA ReplayFromTyped ==
  ASSUME TypeOK, up # <<>>
  PROVE  ReplayFrom \in 0 .. MaxEnd /\ stream.end \in 0 .. MaxEnd
<1>1. Head(up) \in Calls
  BY HeadTailProperties DEF TypeOK
<1>2. ResumeOK(Head(up)) => Head(up).last \in 0 .. MaxEnd
  BY <1>1 DEF ResumeOK, Calls, Cursors
<1> QED
  BY <1>2, StreamFields DEF ReplayFrom

\* No chunk of a snapshot among these messages.
Chunkless(ms) == \A i \in 1 .. Len(ms) : ~Chunk(ms[i])

LEMMA ConcatChunkless ==
  ASSUME NEW s, NEW t, Own(s), Own(t), Chunkless(s), Chunkless(t)
  PROVE  Chunkless(s \o t)
<1>1. /\ Len(s) \in Nat /\ Len(t) \in Nat /\ Len(s \o t) = Len(s) + Len(t)
      /\ \A i \in 1 .. Len(s) + Len(t) :
           (s \o t)[i] = IF i <= Len(s) THEN s[i] ELSE t[i - Len(s)]
  BY ConcatProperties DEF Own
<1> SUFFICES ASSUME NEW i \in 1 .. Len(s) + Len(t)
             PROVE  ~Chunk((s \o t)[i])
  BY <1>1 DEF Chunkless
<1>2. CASE i <= Len(s)
  BY <1>1, <1>2 DEF Chunkless
<1>3. CASE ~(i <= Len(s))
  <2>1. i - Len(s) \in 1 .. Len(t)
    BY <1>1, <1>3
  <2> QED
    BY <1>1, <1>3, <2>1 DEF Chunkless
<1> QED
  BY <1>2, <1>3

LEMMA PartsChunkless ==
  ASSUME TypeOK
  PROVE  Chunkless(Gap) /\ \A from, to \in 0 .. MaxEnd : Chunkless(Frame(from, to))
<1>1. \A m \in Messages : ~Chunk(m) => Chunkless(One(m))
  BY OneSeq DEF Chunkless
<1>2. Chunkless(Gap)
  BY <1>1, GapTyped DEF Chunk
<1>3. ASSUME NEW from \in 0 .. MaxEnd, NEW to \in 0 .. MaxEnd
      PROVE  Chunkless(Frame(from, to))
  <2>1. "data" \in Kinds
    BY DEF Kinds
  <2>2. Message("data", from, to, FALSE) \in Messages
    BY <2>1, MessageTyped
  <2>3. ~Chunk(Message("data", from, to, FALSE))
    BY DEF Message, Chunk
  <2>4. Chunkless(One(Message("data", from, to, FALSE)))
    BY <1>1, <2>2, <2>3
  <2>5. Chunkless(<<>>)
    BY DEF Chunkless
  <2> QED
    BY <2>4, <2>5, SentTuples
<1> QED
  BY <1>2, <1>3

LEMMA TornTyped ==
  ASSUME TypeOK, up # <<>>, NEW kept \in Torn
  PROVE  Own(kept) /\ Chunkless(kept)
<1>1. /\ \A first \in ReplayFrom .. stream.end : first \in 0 .. MaxEnd
      /\ \A first \in ReplayFrom + 1 .. stream.end : first \in 0 .. MaxEnd
      /\ stream.end \in 0 .. MaxEnd
  BY ReplayFromTyped, ResumeBounds
<1>2. CASE \E first \in ReplayFrom .. stream.end : kept = Frame(first, stream.end)
  BY <1>1, <1>2, PartsOwn, PartsChunkless
<1>3. CASE \E first, last \in ReplayFrom + 1 .. stream.end :
             kept = Frame(first, last) \o Gap \o Frame(last, stream.end)
  <2>1. PICK first \in ReplayFrom + 1 .. stream.end, last \in ReplayFrom + 1 .. stream.end :
          kept = Frame(first, last) \o Gap \o Frame(last, stream.end)
    BY <1>3
  <2>2. /\ Own(Frame(first, last)) /\ Own(Gap) /\ Own(Frame(last, stream.end))
        /\ Chunkless(Frame(first, last)) /\ Chunkless(Gap)
        /\ Chunkless(Frame(last, stream.end))
    BY <1>1, PartsOwn, PartsChunkless
  <2>3. Own(Frame(first, last) \o Gap) /\ Chunkless(Frame(first, last) \o Gap)
    BY <2>2, OwnConcat, ConcatChunkless
  <2> QED
    BY <2>1, <2>2, <2>3, OwnConcat, ConcatChunkless
<1> DEFINE S == ReplayFrom + 1 .. stream.end
           T == ReplayFrom .. stream.end
           f(a, b) == Frame(a, b) \o Gap \o Frame(b, stream.end)
           g(a) == Frame(a, stream.end)
<1>4. Torn = {f(a, b) : a \in S, b \in S} \cup {g(a) : a \in T}
  BY DEF Torn
<1> HIDE DEF S, T, f, g
<1>5. (\E a, b \in S : kept = f(a, b)) \/ (\E a \in T : kept = g(a))
  BY <1>4
<1> QED
  BY <1>2, <1>3, <1>5 DEF S, T, f, g

LEMMA ServeTornKeeps ==
  ASSUME TypeOK, LinkOK, ServeTorn
  PROVE  TypeOK' /\ LinkOK' /\ skipped' = TRUE
<1>1. up # <<>> /\ Happens /\ skipped' = TRUE
  BY DEF ServeTorn
<1>2. PICK incomplete \in BOOLEAN :
        \/ \E kept \in Torn : Reply(kept, incomplete)
        \/ Head(up).type = "request" /\ Reply(Screen \o RawReplay, incomplete)
  BY DEF ServeTorn
<1>3. \A kept \in Torn : Own(kept)
  BY <1>1, TornTyped
<1>4. Own(Screen \o RawReplay)
  BY PartsOwn, OwnConcat
<1>5. \E kept : Own(kept) /\ Reply(kept, incomplete)
  BY <1>2, <1>3, <1>4
<1> QED
  BY <1>1, <1>5, ReplyLink

\* What ServeCut puts behind the n messages on the link.
CutAnswered(n) ==
  \E z \in {LossSent("attached"), LossSent("resynced")}, first \in 0 .. MaxEnd :
    \/ Extends(down', down, 2) /\ down'[n + 1] = GapSent /\ down'[n + 2] = z
    \/ /\ Extends(down', down, 3)
       /\ down'[n + 1] = GapSent /\ down'[n + 2] = DataSent(first) /\ down'[n + 3] = z
    \/ /\ Extends(down', down, 3) /\ down'[n + 1] = ControlSent("begin")
       /\ down'[n + 2] = GapSent /\ down'[n + 3] = z
    \/ /\ Extends(down', down, 4) /\ down'[n + 1] = ControlSent("begin")
       /\ down'[n + 2] = GapSent /\ down'[n + 3] = DataSent(first) /\ down'[n + 4] = z

LEMMA PushCut ==
  ASSUME NEW s \in Seq(Messages), NEW a \in Messages, NEW b \in Messages, NEW z \in Messages
  PROVE  /\ Extends(BehindOne(s, a, z), s, 2)
         /\ BehindOne(s, a, z)[Len(s) + 1] = a /\ BehindOne(s, a, z)[Len(s) + 2] = z
         /\ Extends(BehindTwo(s, a, b, z), s, 3)
         /\ BehindTwo(s, a, b, z)[Len(s) + 1] = a /\ BehindTwo(s, a, b, z)[Len(s) + 2] = b
         /\ BehindTwo(s, a, b, z)[Len(s) + 3] = z
<1> DEFINE t == s \o One(a)
           u == t \o One(z)
           v == s \o Two(a, b)
           w == v \o One(z)
           n == Len(s)
<1>1. Pushed(t, s, a)
  BY SumOne
<1>2. Extends(t, s, 1) /\ t[n + 1] = a /\ n \in Nat /\ t \in Seq(Messages)
  BY <1>1, PushedExtends DEF Extends
<1>3. Pushed(v, t, b)
  BY SumTwo
<1> HIDE DEF t, n
<1>4. Pushed(u, t, z)
  BY <1>2, SumOne
<1>5. v \in Seq(Messages)
  BY <1>3 DEF Pushed
<1> HIDE DEF u, v
<1>6. Pushed(w, v, z)
  BY <1>5, SumOne
<1> HIDE DEF w
<1>7. Extends(u, s, 1 + 1) /\ u[n + (1 + 1)] = z /\ \A i \in 1 .. n + 1 : u[i] = t[i]
  BY <1>2, <1>4, ExtendsMore DEF n
<1>8. Extends(u, s, 2) /\ u[n + 1] = a /\ u[n + 2] = z
  BY <1>2, <1>7
<1>9. Extends(v, s, 1 + 1) /\ v[n + (1 + 1)] = b /\ \A i \in 1 .. n + 1 : v[i] = t[i]
  BY <1>2, <1>3, ExtendsMore DEF n
<1>10. Extends(v, s, 2) /\ v[n + 1] = a /\ v[n + 2] = b
  BY <1>2, <1>9
<1>11. Extends(w, s, 2 + 1) /\ w[n + (2 + 1)] = z /\ \A i \in 1 .. n + 2 : w[i] = v[i]
  BY <1>6, <1>10, ExtendsMore DEF n
<1>12. Extends(w, s, 3) /\ w[n + 1] = a /\ w[n + 2] = b /\ w[n + 3] = z
  BY <1>2, <1>10, <1>11
<1>13. BehindOne(s, a, z) = u /\ BehindTwo(s, a, b, z) = w
  BY DEF BehindOne, BehindTwo, t, u, v, w
<1> QED
  BY ONLY <1>8, <1>12, <1>13 DEF n

LEMMA ServeCutTyped ==
  ASSUME TypeOK, LinkOK, ServeCut
  PROVE  /\ TypeOK' /\ LinkOK' /\ up # <<>> /\ up' = Tail(up)
         /\ CutAnswered(Len(down))
         /\ UNCHANGED <<stream, sock, writes, shown, cache, origin, skipped>>
<1>1. up # <<>> /\ Happens /\ skipped' = skipped
  BY DEF ServeCut
<1>2. PICK first \in ReplayFrom + 1 .. stream.end : Reply(Gap \o Frame(first, stream.end), TRUE)
  BY DEF ServeCut
<1>3. first \in 0 .. MaxEnd /\ stream.end \in 0 .. MaxEnd
  BY <1>1, ReplayFromTyped, ResumeBounds
<1>4. Own(Gap \o Frame(first, stream.end))
  BY <1>3, PartsOwn, OwnConcat
<1>5. /\ TypeOK' /\ LinkOK' /\ up' = Tail(up)
      /\ UNCHANGED <<stream, sock, writes, shown, cache, origin>>
  BY <1>1, <1>2, <1>4, ReplyLink DEF TypeOK
<1> DEFINE attached == LossSent("attached")
           resynced == LossSent("resynced")
           begin == ControlSent("begin")
           data == DataSent(first)
           n == Len(down)
<1>6. /\ attached \in Messages /\ resynced \in Messages /\ begin \in Messages
      /\ data \in Messages /\ GapSent \in Messages
      /\ Gap = One(GapSent) /\ Message("begin", 0, 0, FALSE) = begin
      /\ Message("attached", 0, 0, TRUE) = attached
      /\ Message("resynced", 0, 0, TRUE) = resynced
  BY <1>3, SentTyped, GapTyped
<1>7. Gap \o Frame(first, stream.end) = IF first = stream.end THEN One(GapSent)
                                        ELSE Two(GapSent, data)
  <2>1. Frame(first, stream.end) = IF first = stream.end THEN <<>> ELSE One(data)
    BY <1>3, AnswerTuples
  <2>2. One(GapSent) \o <<>> = One(GapSent) /\ One(GapSent) \o One(data) = Two(GapSent, data)
    BY <1>6, OneSeq, ConcatEmptySeq, OneAndOne
  <2> QED
    BY <1>6, <2>1, <2>2
<1>8. \/ down' = (down \o (Gap \o Frame(first, stream.end))) \o One(attached)
      \/ down' = ((down \o One(begin)) \o (Gap \o Frame(first, stream.end))) \o One(resynced)
  BY <1>2, <1>6 DEF Reply, One
<1>9. down \in Seq(Messages)
  BY DEF TypeOK
<1> HIDE DEF attached, resynced, begin, data, n
<1>10. /\ Extends(BehindOne(down, GapSent, attached), down, 2)
       /\ BehindOne(down, GapSent, attached)[n + 1] = GapSent /\ BehindOne(down, GapSent, attached)[n + 2] = attached
       /\ Extends(BehindTwo(down, GapSent, data, attached), down, 3)
       /\ BehindTwo(down, GapSent, data, attached)[n + 1] = GapSent /\ BehindTwo(down, GapSent, data, attached)[n + 2] = data
       /\ BehindTwo(down, GapSent, data, attached)[n + 3] = attached
  BY ONLY <1>6, <1>9, PushCut DEF n
<1>11. /\ Extends(SumThree(down, begin, GapSent, resynced), down, 3)
       /\ SumThree(down, begin, GapSent, resynced)[n + 1] = begin
       /\ SumThree(down, begin, GapSent, resynced)[n + 2] = GapSent
       /\ SumThree(down, begin, GapSent, resynced)[n + 3] = resynced
  BY ONLY <1>6, <1>9, PushThree DEF n
<1>12. /\ Extends(SumFour(down, begin, GapSent, data, resynced), down, 4)
       /\ SumFour(down, begin, GapSent, data, resynced)[n + 1] = begin
       /\ SumFour(down, begin, GapSent, data, resynced)[n + 2] = GapSent
       /\ SumFour(down, begin, GapSent, data, resynced)[n + 3] = data
       /\ SumFour(down, begin, GapSent, data, resynced)[n + 4] = resynced
  BY ONLY <1>6, <1>9, PushFour DEF n
<1>13. \/ down' = BehindOne(down, GapSent, attached) \/ down' = BehindTwo(down, GapSent, data, attached)
       \/ down' = SumThree(down, begin, GapSent, resynced)
       \/ down' = SumFour(down, begin, GapSent, data, resynced)
  BY <1>7, <1>8 DEF SumThree, SumFour, BehindOne, BehindTwo
<1>14. \/ Extends(down', down, 2) /\ down'[n + 1] = GapSent /\ down'[n + 2] = attached
       \/ /\ Extends(down', down, 3)
          /\ down'[n + 1] = GapSent /\ down'[n + 2] = data /\ down'[n + 3] = attached
       \/ /\ Extends(down', down, 3) /\ down'[n + 1] = begin
          /\ down'[n + 2] = GapSent /\ down'[n + 3] = resynced
       \/ /\ Extends(down', down, 4) /\ down'[n + 1] = begin
          /\ down'[n + 2] = GapSent /\ down'[n + 3] = data /\ down'[n + 4] = resynced
  BY ONLY <1>10, <1>11, <1>12, <1>13
<1>15. CutAnswered(n)
  BY ONLY <1>3, <1>14 DEF CutAnswered, attached, resynced, begin, data
<1> QED
  BY <1>1, <1>5, <1>15 DEF n

\* An answer whose frames all stand behind a report, and that ends in one.
LEMMA ReportedKeeps ==
  ASSUME TypeOK, LinkOK, AnswersOK, Faithful, up # <<>>, up' = Tail(up),
         NEW k \in Nat, k > 0, Extends(down', down, k),
         UNCHANGED <<stream, sock, writes, shown, cache, origin>>,
         \A i \in Len(down) + 1 .. Len(down) + k :
           /\ down'[i].gen = stream.gen /\ ~Settles(down'[i])
           /\ down'[i].type \notin {"clear", "snapshot"}
           /\ down'[i].type = "data" =>
                /\ down'[i].to = stream.end
                /\ i - 1 \in 1 .. Len(down) + k /\ Announces(down'[i - 1]),
         Announces(down'[Len(down) + k])
  PROVE  AnswersOK' /\ Faithful'
<1> DEFINE n == Len(down)
<1>1. n \in Nat /\ Len(down') = n + k
  BY DEF Extends
<1>2. ASSUME NEW i \in 1 .. n + k, Announces(down'[i])
      PROVE  Lossy(i)
  <2>1. \A r \in i + 1 .. i : ~Ends(down'[r])
    BY <1>1
  <2>2. i \in 1 .. i
    BY <1>1
  <2> QED
    BY <1>2, <2>1, <2>2 DEF Lossy, GapOpen
<1>3. Lossy(n + k)
  <2>1. n + k \in 1 .. n + k
    BY <1>1
  <2> QED
    BY <1>2, <2>1
<1>4. Grows(k)
  BY TypedFacts DEF Grows
<1>5. \A i \in n + 1 .. n + k : down'[i].type = "data" => Lossy(i - 1)
  BY <1>2
<1>6. \A i \in n + 1 .. n + k : Content(down'[i]) => down'[i].type = "data"
  BY DEF Content, ContentOf, Last_
<1>7. \A i \in n + 1 .. n + k : \A r \in i + 1 .. n + k : r \in n + 1 .. n + k
  BY <1>1
<1> HIDE DEF n
<1>8. Answered(k)
  BY <1>1, <1>3, <1>4, <1>5, <1>6, <1>7 DEF Answered, n
<1> QED
  BY <1>8, AnsweredKeeps

LEMMA ServeCutKeeps ==
  ASSUME TypeOK, LinkOK, ServeCut
  PROVE  AnswersOK /\ Faithful => AnswersOK' /\ Faithful'
<1> DEFINE n == Len(down)
<1>1. /\ up # <<>> /\ up' = Tail(up) /\ CutAnswered(n)
      /\ UNCHANGED <<stream, sock, writes, shown, cache, origin>>
  BY ServeCutTyped
<1>2. n \in Nat
  BY TypedFacts
<1>3. /\ GapSent.type = "gap" /\ GapSent.gen = stream.gen /\ Announces(GapSent)
      /\ ~Settles(GapSent)
  BY GapTyped DEF Announces, Settles
<1>4. LET begin == ControlSent("begin")
      IN begin.type = "begin" /\ begin.gen = stream.gen /\ ~Settles(begin)
  BY SentFacts
<1>5. PICK z \in {LossSent("attached"), LossSent("resynced")}, first \in 0 .. MaxEnd :
        \/ Extends(down', down, 2) /\ down'[n + 1] = GapSent /\ down'[n + 2] = z
        \/ /\ Extends(down', down, 3)
           /\ down'[n + 1] = GapSent /\ down'[n + 2] = DataSent(first) /\ down'[n + 3] = z
        \/ /\ Extends(down', down, 3) /\ down'[n + 1] = ControlSent("begin")
           /\ down'[n + 2] = GapSent /\ down'[n + 3] = z
        \/ /\ Extends(down', down, 4) /\ down'[n + 1] = ControlSent("begin")
           /\ down'[n + 2] = GapSent /\ down'[n + 3] = DataSent(first) /\ down'[n + 4] = z
  BY <1>1 DEF CutAnswered
<1>6. /\ z.type \in {"attached", "resynced"} /\ z.gen = stream.gen /\ Announces(z)
      /\ ~Settles(z)
  BY SentFacts
<1>7. LET data == DataSent(first)
      IN data.type = "data" /\ data.gen = stream.gen /\ data.to = stream.end /\ ~Settles(data)
  BY SentFacts
<1> DEFINE good(i, k) ==
             /\ down'[i].gen = stream.gen /\ ~Settles(down'[i])
             /\ down'[i].type \notin {"clear", "snapshot"}
             /\ down'[i].type = "data" =>
                  /\ down'[i].to = stream.end
                  /\ i - 1 \in 1 .. n + k /\ Announces(down'[i - 1])
           fine(k) == /\ k \in Nat /\ k > 0 /\ Extends(down', down, k)
                      /\ \A i \in n + 1 .. n + k : good(i, k)
                      /\ Announces(down'[n + k])
<1>8. \E k \in {2, 3, 4} : fine(k)
  <2> HIDE DEF n
  <2>1. CASE Extends(down', down, 2) /\ down'[n + 1] = GapSent /\ down'[n + 2] = z
    <3>1. \A i \in n + 1 .. n + 2 : i = n + 1 \/ i = n + 2
      BY <1>2
    <3>2. fine(2)
      BY <1>3, <1>6, <2>1, <3>1
    <3> QED
      BY <3>2
  <2>2. CASE /\ Extends(down', down, 3)
             /\ down'[n + 1] = GapSent /\ down'[n + 2] = DataSent(first) /\ down'[n + 3] = z
    <3>1. /\ \A i \in n + 1 .. n + 3 : i = n + 1 \/ i = n + 2 \/ i = n + 3
          /\ (n + 2) - 1 = n + 1 /\ n + 1 \in 1 .. n + 3
      BY <1>2
    <3>2. fine(3)
      BY <1>3, <1>6, <1>7, <2>2, <3>1
    <3> QED
      BY <3>2
  <2>3. CASE /\ Extends(down', down, 3) /\ down'[n + 1] = ControlSent("begin")
             /\ down'[n + 2] = GapSent /\ down'[n + 3] = z
    <3>1. \A i \in n + 1 .. n + 3 : i = n + 1 \/ i = n + 2 \/ i = n + 3
      BY <1>2
    <3>2. fine(3)
      BY <1>3, <1>4, <1>6, <2>3, <3>1
    <3> QED
      BY <3>2
  <2>4. CASE /\ Extends(down', down, 4) /\ down'[n + 1] = ControlSent("begin")
             /\ down'[n + 2] = GapSent /\ down'[n + 3] = DataSent(first) /\ down'[n + 4] = z
    <3>1. /\ \A i \in n + 1 .. n + 4 : i = n + 1 \/ i = n + 2 \/ i = n + 3 \/ i = n + 4
          /\ (n + 3) - 1 = n + 2 /\ n + 2 \in 1 .. n + 4
      BY <1>2
    <3>2. fine(4)
      BY <1>3, <1>4, <1>6, <1>7, <2>4, <3>1
    <3> QED
      BY <3>2
  <2> QED
    BY <1>5, <2>1, <2>2, <2>3, <2>4
<1>9. PICK k \in {2, 3, 4} : fine(k)
  BY <1>8
<1> QED
  BY <1>1, <1>9, ReportedKeeps

-----------------------------------------------------------------------------
(***************************************************************************)
(* The queue gives up a frame.  As long as no frame survives behind it,    *)
(* what is left on the link is control messages, a gap among them.         *)
(***************************************************************************)
LEMMA ShedLink ==
  ASSUME TypeOK, LinkOK, Shed
  PROVE  LinkOK'
<1>1. PICK i \in 1 .. Len(down), next \in Int :
        /\ next \in {i + 1, i + 2}
        /\ \/ down' = Rest(i, next)
           \/ down' = Append(Rest(i, next), GapSent)
  BY ShedTyped
<1>2. /\ UNCHANGED <<stream, up, serving, link, sock, writes, shown, cache, origin>>
      /\ TypeOK'
  BY ShedTyped
<1>n. next \in {i + 1, i + 2}
  BY <1>1
<1> DEFINE rest == Rest(i, next)
           n == Len(rest)
<1>3. /\ rest \in Seq(Messages) /\ n \in Nat /\ Len(down) \in Nat
      /\ n = IF next <= Len(down) + 1 THEN Len(down) + i - next ELSE i - 1
      /\ \A p \in 1 .. n : rest[p] = IF p < i THEN down[p] ELSE down[p + (next - i)]
  <2>1. /\ Rest(i, next) \in Seq(Messages)
        /\ Len(Rest(i, next)) = IF next <= Len(down) + 1 THEN Len(down) + i - next ELSE i - 1
        /\ Len(Rest(i, next)) >= i - 1
        /\ \A p \in 1 .. Len(Rest(i, next)) :
             Rest(i, next)[p] = IF p < i THEN down[p] ELSE down[p + (next - i)]
    BY ONLY TypeOK, i \in 1 .. Len(down), <1>n, RestFacts
  <2> HIDE DEF rest
  <2>2. rest \in Seq(Messages) /\ rest = Rest(i, next)
    BY <2>1 DEF rest
  <2>3. Len(rest) \in Nat /\ Len(down) \in Nat
    BY <2>2, TypedFacts
  <2> QED
    BY <2>1, <2>2, <2>3
<1>4. GapSent \in Messages /\ GapSent.gen = stream.gen
  <2>1. 0 \in 0 .. MaxEnd
    BY ResumeBounds
  <2> QED
    BY <2>1, StreamFields DEF GapSent, Messages, Kinds
<1> HIDE DEF rest
<1>5. \A p \in 1 .. n : rest[p].gen = stream.gen
  <2> SUFFICES ASSUME NEW p \in 1 .. n PROVE rest[p].gen = stream.gen
    OBVIOUS
  <2>1. CASE p < i
    <3>1. p \in 1 .. Len(down)
      BY <1>3, <2>1
    <3> QED
      BY <1>3, <2>1, <3>1 DEF LinkOK
  <2>2. CASE ~(p < i)
    <3>1. p + (next - i) \in 1 .. Len(down)
      BY <1>1, <1>3, <2>2
    <3> QED
      BY <1>3, <2>2, <3>1 DEF LinkOK
  <2> QED
    BY <2>1, <2>2
<1>6. \A p \in 1 .. Len(down') : down'[p].gen = stream.gen
  <2>1. CASE down' = rest
    BY <1>5, <2>1
  <2>2. CASE down' = Append(rest, GapSent)
    <3>1. /\ Len(down') = n + 1 /\ down'[n + 1] = GapSent
          /\ \A p \in 1 .. n : down'[p] = rest[p]
          /\ \A p \in 1 .. n + 1 : p \in 1 .. n \/ p = n + 1
      BY ONLY <1>3, <1>4, <2>2, AppendFacts
    <3> QED
      BY <1>4, <1>5, <3>1
  <2> QED
    BY <1>1, <2>1, <2>2 DEF rest
<1>7. serving
  <2>1. down # <<>>
    BY <1>3
  <2> QED
    BY <2>1 DEF LinkOK
<1> QED
  BY <1>2, <1>6, <1>7 DEF LinkOK

LEMMA TearLink ==
  ASSUME TypeOK, LinkOK, Tear
  PROVE  LinkOK'
<1>1. /\ UNCHANGED <<stream, up, serving, link, sock, writes, cache, origin>>
      /\ TypeOK'
  BY TearTyped
<1>2. PICK i \in 1 .. Len(down), k \in 1 .. Len(down) :
        /\ TornRest(i, k) \in Seq(Messages)
        /\ \A n \in 1 .. Len(TornRest(i, k)) :
             TornRest(i, k)[n].gen \in {down[j].gen : j \in 1 .. Len(down)}
        /\ down' = TornRest(i, k) \/ down' = Append(TornRest(i, k), GapSent)
  BY TearTyped
<1> DEFINE rest == TornRest(i, k)
<1>3. Own(rest) /\ Own(One(GapSent))
  BY <1>2, GapTyped, OwnFacts DEF LinkOK, Own
<1> HIDE DEF rest
<1>4. Append(rest, GapSent) = rest \o One(GapSent)
  BY <1>3, GapTyped, SumOne DEF Own
<1>5. Own(down')
  BY <1>2, <1>3, <1>4, OwnConcat DEF rest
<1>6. serving
  <2>1. down # <<>>
    BY <1>2
  <2> QED
    BY <2>1 DEF LinkOK
<1> QED
  BY <1>1, <1>5, <1>6 DEF LinkOK, Own

LEMMA ShedFacts ==
  ASSUME TypeOK, Shed, AnswersOK, ~skipped'
  PROVE  /\ Len(down') \in Nat
         /\ \A p \in 1 .. Len(down') :
              /\ ~Terminal(down'[p])
              /\ down'[p].type \in {"attached", "resynced"} =>
                   \A q \in 1 .. p : q \in 1 .. Len(down) /\ down'[q] = down[q]
         /\ \A g, r \in 1 .. Len(down') :
              ~(g < r /\ down'[g].type = "gap" /\ Settles(down'[r]))
         /\ GapOpen(down', Len(down'))
<1>1. PICK i \in 1 .. Len(down), next \in Int :
        /\ next \in {i + 1, i + 2}
        /\ Terminal(down[i]) /\ \A j \in 1 .. i - 1 : ~Terminal(down[j])
        /\ \/ /\ \E g \in 1 .. Len(Rest(i, next)) : Rest(i, next)[g].type = "gap"
              /\ down' = Rest(i, next)
           \/ /\ \A g \in 1 .. Len(Rest(i, next)) : Rest(i, next)[g].type # "gap"
              /\ down' = Append(Rest(i, next), GapSent)
        /\ \A j \in next .. Len(down) : down[j].type \notin {"data", "attached", "resynced"}
  BY ShedTyped
<1>n. next \in {i + 1, i + 2}
  BY <1>1
<1> DEFINE rest == Rest(i, next)
           n == Len(rest)
           l == Len(down')
<1>2. /\ rest \in Seq(Messages) /\ n \in Nat /\ Len(down) \in Nat
      /\ n = IF next <= Len(down) + 1 THEN Len(down) + i - next ELSE i - 1
      /\ n >= i - 1
      /\ \A p \in 1 .. n : rest[p] = IF p < i THEN down[p] ELSE down[p + (next - i)]
  <2>1. /\ Rest(i, next) \in Seq(Messages)
        /\ Len(Rest(i, next)) = IF next <= Len(down) + 1 THEN Len(down) + i - next ELSE i - 1
        /\ Len(Rest(i, next)) >= i - 1
        /\ \A p \in 1 .. Len(Rest(i, next)) :
             Rest(i, next)[p] = IF p < i THEN down[p] ELSE down[p + (next - i)]
    BY ONLY TypeOK, i \in 1 .. Len(down), <1>n, RestFacts
  <2> HIDE DEF rest
  <2>2. rest \in Seq(Messages) /\ rest = Rest(i, next)
    BY <2>1 DEF rest
  <2>3. Len(rest) \in Nat /\ Len(down) \in Nat
    BY <2>2, TypedFacts
  <2> QED
    BY <2>1, <2>2, <2>3
<1>3. GapSent \in Messages /\ GapSent.type = "gap"
  <2>1. 0 \in 0 .. MaxEnd
    BY ResumeBounds
  <2> QED
    BY <2>1, StreamFields DEF GapSent, Messages, Kinds
<1>4. \A j \in next .. Len(down) :
        ~Terminal(down[j]) /\ down[j].type \notin {"attached", "resynced"}
  <2> SUFFICES ASSUME NEW j \in next .. Len(down)
               PROVE  ~Terminal(down[j]) /\ down[j].type \notin {"attached", "resynced"}
    OBVIOUS
  <2>1. j \in 1 .. Len(down)
    BY <1>1, <1>2
  <2>2. down[j].type \notin {"clear", "snapshot"}
    <3> SUFFICES ASSUME down[j].type \in {"clear", "snapshot"} PROVE FALSE
      OBVIOUS
    <3>1. PICK r \in j + 1 .. Len(down) : down[r].type \in {"attached", "resynced"}
      BY <2>1 DEF AnswersOK
    <3>2. r \in next .. Len(down)
      BY <1>1, <1>2
    <3> QED
      BY <1>1, <3>1, <3>2
  <2> QED
    BY <1>1, <2>2 DEF Terminal
<1>5. down' = rest \/ down' = Append(rest, GapSent)
  BY <1>1
<1>6. (\E g \in 1 .. n : rest[g].type = "gap") \/ down' = Append(rest, GapSent)
  BY <1>1
<1> HIDE DEF rest
<1>7. \A p \in 1 .. n : /\ ~Terminal(rest[p])
                        /\ rest[p].type \in {"attached", "resynced"} => p < i
                        /\ p < i => rest[p] = down[p]
  <2> SUFFICES ASSUME NEW p \in 1 .. n
               PROVE  /\ ~Terminal(rest[p])
                      /\ rest[p].type \in {"attached", "resynced"} => p < i
                      /\ p < i => rest[p] = down[p]
    OBVIOUS
  <2>1. CASE p < i
    <3>1. p \in 1 .. i - 1
      BY <1>2, <2>1
    <3> QED
      BY <1>1, <1>2, <2>1, <3>1
  <2>2. CASE ~(p < i)
    <3>1. p + (next - i) \in next .. Len(down)
      BY <1>1, <1>2, <2>2
    <3> QED
      BY <1>2, <1>4, <2>2, <3>1
  <2> QED
    BY <2>1, <2>2
<1>8. ~Terminal(GapSent) /\ GapSent.type \notin {"attached", "resynced"}
  BY <1>3 DEF Terminal
<1>9. /\ l \in Nat /\ i - 1 <= l /\ (l = n \/ l = n + 1)
      /\ \A p \in 1 .. n : down'[p] = rest[p]
      /\ \A p \in 1 .. l : p \in 1 .. n \/ (p = n + 1 /\ down'[p] = GapSent)
      /\ down' = Append(rest, GapSent) => l = n + 1 /\ down'[l] = GapSent
  <2>1. CASE down' = rest /\ down' # Append(rest, GapSent)
    BY <1>2, <2>1
  <2>2. CASE down' = Append(rest, GapSent)
    <3>1. /\ l = n + 1 /\ down'[n + 1] = GapSent
          /\ \A p \in 1 .. n : down'[p] = rest[p]
      BY ONLY <1>2, <1>3, <2>2, AppendFacts
    <3> HIDE DEF l, n
    <3>2. n \in Nat /\ n >= i - 1 /\ i \in Int
      BY <1>2
    <3>3. l \in Nat /\ i - 1 <= l /\ l = n + 1
      BY ONLY <3>1, <3>2
    <3>4. \A p \in 1 .. l : p \in 1 .. n \/ p = n + 1
      BY ONLY <3>2, <3>3
    <3> QED
      BY ONLY <3>1, <3>3, <3>4
  <2> QED
    BY <1>5, <2>1, <2>2
<1> HIDE DEF l, n
<1>10. \A p \in 1 .. l : /\ ~Terminal(down'[p])
                         /\ down'[p].type \in {"attached", "resynced"} => p < i
                         /\ p < i => down'[p] = down[p]
  <2> SUFFICES ASSUME NEW p \in 1 .. l
               PROVE  /\ ~Terminal(down'[p])
                      /\ down'[p].type \in {"attached", "resynced"} => p < i
                      /\ p < i => down'[p] = down[p]
    OBVIOUS
  <2>1. CASE p \in 1 .. n
    BY <1>7, <1>9, <2>1
  <2>2. CASE p = n + 1 /\ down'[p] = GapSent
    <3>1. ~(p < i)
      BY <1>2, <2>2
    <3> QED
      BY <1>8, <2>2, <3>1
  <2> QED
    BY <1>9, <2>1, <2>2
<1>11. \A p, q \in Int : 1 <= q /\ q <= p /\ p < i => q \in 1 .. l /\ q < i /\ q \in 1 .. Len(down)
  BY <1>2, <1>9
<1>12. ASSUME NEW g \in 1 .. l, NEW r \in 1 .. l, g < r, down'[g].type = "gap",
              Settles(down'[r])
       PROVE  FALSE
  <2>0. r < i
    BY <1>10, <1>12 DEF Settles
  <2>1. r < i /\ g < i /\ g \in 1 .. Len(down) /\ r \in 1 .. Len(down)
        /\ down[g].type = "gap" /\ Settles(down[r])
    BY <1>10, <1>11, <1>12, <2>0
  <2>2. PICK k \in g + 1 .. r - 1 : Resets(down[k])
    BY <1>12, <2>1 DEF AnswersOK
  <2>3. k \in 1 .. i - 1
    BY <2>1
  <2> QED
    BY <1>1, <2>2, <2>3, PaintedFacts
<1>13. \E g \in 1 .. l : down'[g].type = "gap"
  <2>1. CASE down' = Append(rest, GapSent)
    BY <1>2, <1>3, <1>9, <2>1
  <2>2. CASE \E g \in 1 .. n : rest[g].type = "gap"
    <3>1. PICK g \in 1 .. n : rest[g].type = "gap"
      BY <2>2
    <3>2. g \in 1 .. l
      BY <1>2, <1>9
    <3> QED
      BY <1>9, <3>1, <3>2
  <2> QED
    BY <1>6, <2>1, <2>2
<1>14. GapOpen(down', l)
  <2>1. PICK g \in 1 .. l : down'[g].type = "gap"
    BY <1>13
  <2>2. ASSUME NEW k \in g + 1 .. l
        PROVE  ~Ends(down'[k])
    <3>1. k \in 1 .. l /\ g < k
      BY <1>9
    <3>2. ~Resets(down'[k])
      BY <1>10, <3>1, PaintedFacts
    <3>3. ~Settles(down'[k])
      BY <1>12, <2>1, <3>1
    <3> QED
      BY <3>2, <3>3 DEF Ends
  <2> QED
    BY <2>1, <2>2 DEF GapOpen, Announces
<1>15. ASSUME NEW p \in 1 .. l, down'[p].type \in {"attached", "resynced"}, NEW q \in 1 .. p
       PROVE  q \in 1 .. Len(down) /\ down'[q] = down[q]
  <2>1. 1 <= q /\ q <= p /\ p < i /\ p \in Int /\ q \in Int
    BY <1>9, <1>10, <1>15
  <2>2. q \in 1 .. l /\ q < i /\ q \in 1 .. Len(down)
    BY <1>11, <2>1
  <2> QED
    BY <1>10, <2>2
<1> QED
  BY <1>9, <1>10, <1>12, <1>14, <1>15 DEF l

LEMMA ShedKeeps ==
  ASSUME TypeOK, LinkOK, Shed
  PROVE  LinkOK' /\ (~skipped' /\ AnswersOK /\ Faithful => AnswersOK' /\ Faithful')
<1>1. LinkOK'
  BY ShedLink
<1>2. ASSUME ~skipped', AnswersOK, Faithful
      PROVE  AnswersOK' /\ Faithful'
  <2> DEFINE l == Len(down')
  <2>1. /\ l \in Nat
        /\ \A p \in 1 .. l :
             /\ ~Terminal(down'[p])
             /\ down'[p].type \in {"attached", "resynced"} =>
                  \A q \in 1 .. p : q \in 1 .. Len(down) /\ down'[q] = down[q]
        /\ \A g, r \in 1 .. l :
             ~(g < r /\ down'[g].type = "gap" /\ Settles(down'[r]))
        /\ GapOpen(down', l)
    BY <1>2, ShedFacts
  <2>2. UNCHANGED <<stream, up, serving, link, sock, writes, shown, cache, origin>>
    BY ShedTyped
  <2>3. \A p \in 1 .. l : ~Content(down'[p]) /\ down'[p].type \notin {"data", "clear", "snapshot"}
    BY <2>1 DEF Terminal, Content, ContentOf, Last_
  <2>4. Eventual' = Eventual /\ (CursorSet' <=> CursorSet) /\ (LossKnown' <=> LossKnown)
    BY <2>2 DEF Eventual, CursorSet, LossKnown
  <2>5. /\ OrderOK /\ QueueOK /\ AttachOK /\ SettledOK /\ Honest /\ CacheOK
    BY <1>2 DEF Faithful
  <2> HIDE DEF l
  <2>6. AnswersOK'
    BY <2>1, <2>3 DEF AnswersOK, l
  <2>7. OrderOK'
    BY <2>2, <2>3, <2>4, <2>5
       DEF OrderOK, OriginOK, BoundsOK, WritesOrdered, LinkOrdered, Content, l
  <2>8. QueueOK' /\ AttachOK' /\ Honest' /\ CacheOK'
    BY <2>2, <2>4, <2>5
       DEF QueueOK, AttachOK, Honest, CacheOK, Resumable, WholeNow, Content
  <2>9. FramesOK'
    BY <2>3 DEF FramesOK, l
  <2>10. NextOK'
    BY <2>1 DEF NextOK, LossAt, l
  <2>11. SettledOK'
    <3> SUFFICES ASSUME NEW r \in 1 .. l, Settles(down'[r])
                 PROVE  /\ CursorSet => WholeAt(r - 1, sock.last)'
                        /\ \A k \in 1 .. Len(writes) :
                             Content(writes[k]) => WholeAt(r - 1, writes[k].to)'
      BY <2>2, <2>3, <2>4 DEF SettledOK, WholeAt, ScreenAt, Content, l
    <3>1. /\ down'[r].type \in {"attached", "resynced"} /\ r \in 1 .. r
          /\ \A q \in 1 .. r : q \in 1 .. Len(down) /\ down'[q] = down[q]
      BY <2>1 DEF Settles
    <3>2. r - 1 \in Nat /\ \A q \in 1 .. r - 1 : down'[q] = down[q]
      BY <2>1, <3>1
    <3>3. ScreenAfter(Eventual, down', r - 1) = ScreenAfter(Eventual, down, r - 1)
      BY <3>2, ScreenSame
    <3>4. ScreenAfter(Eventual', down', r - 1) = ScreenAt(r - 1)
      BY <2>4, <3>3 DEF ScreenAt
    <3>5. r \in 1 .. Len(down) /\ Settles(down[r])
      BY <3>1
    <3>6. /\ CursorSet => WholeAt(r - 1, sock.last)
          /\ \A k \in 1 .. Len(writes) : Content(writes[k]) => WholeAt(r - 1, writes[k].to)
      BY <2>5, <3>5 DEF SettledOK
    <3>7. WholeAt(r - 1, sock.last) => WholeAt(r - 1, sock.last)'
      BY <2>2, <3>4 DEF WholeAt, ScreenAt
    <3>8. \A k \in 1 .. Len(writes) :
            WholeAt(r - 1, writes[k].to) => WholeAt(r - 1, writes[k].to)'
      BY <2>2, <3>4 DEF WholeAt, ScreenAt
    <3> QED
      BY <3>6, <3>7, <3>8
  <2> QED
    BY <2>6, <2>7, <2>8, <2>9, <2>10, <2>11 DEF Faithful
<1> QED
  BY <1>1, <1>2
-----------------------------------------------------------------------------
(***************************************************************************)
(* The invariant, and what it comes to.                                    *)
(***************************************************************************)
LEMMA InitIInv ==
  ASSUME Init
  PROVE  IInv
<1>1. /\ stream = [gen |-> 0, base |-> 0, end |-> 0] /\ down = <<>> /\ up = <<>>
      /\ serving = FALSE /\ link = "opening" /\ sock = NewSocket(None, None)
      /\ state = "connecting" /\ writes = <<>> /\ shown = {} /\ desync = FALSE
      /\ cache = NoScreen /\ events = 0 /\ origin = None /\ skipped = FALSE
  BY DEF Init
<1>2. /\ stream.gen = 0 /\ stream.base = 0 /\ stream.end = 0
      /\ sock.last = None /\ sock.gen = None /\ None = -1
      /\ cache.last = None /\ cache.gen = None
  BY <1>1, NoScreenTyped DEF NewSocket, None
<1>3. TypeOK
  <2>1. NewSocket(None, None) \in Sockets
    BY ResumeBounds DEF NewSocket, Sockets, Cursors
  <2>2. <<>> \in Seq(Messages) /\ <<>> \in Seq(Calls)
    BY EmptySeq
  <2>3. 0 \in 0 .. MaxGen /\ 0 \in 0 .. MaxEnd /\ 0 \in 0 .. MaxEvents
    BY ResumeBounds
  <2> QED
    BY <1>1, <2>1, <2>2, <2>3, NoScreenTyped DEF TypeOK
<1>4. /\ \A i \in 1 .. Len(down) : FALSE
      /\ \A i \in 1 .. Len(up) : FALSE
      /\ \A i \in 1 .. Len(writes) : FALSE
  BY <1>1
<1>5. LinkOK
  <2>1. origin \in None .. stream.gen
    BY <1>1, <1>2
  <2> QED
    BY <1>1, <1>2, <1>4, <2>1 DEF LinkOK
<1>6. AnswersOK
  BY <1>4 DEF AnswersOK
<1>7. OrderOK
  BY <1>2, <1>4 DEF OrderOK, OriginOK, BoundsOK, WritesOrdered, LinkOrdered, CursorSet
<1>8. QueueOK /\ AttachOK /\ SettledOK /\ FramesOK /\ NextOK
  BY <1>1, <1>4 DEF QueueOK, AttachOK, SettledOK, FramesOK, NextOK
<1>9. Honest /\ CacheOK
  BY <1>2 DEF Honest, CacheOK, Resumable
<1> QED
  BY <1>3, <1>5, <1>6, <1>7, <1>8, <1>9 DEF IInv, Faithful

LEMMA StutterIInv ==
  ASSUME IInv, UNCHANGED resumeVars
  PROVE  IInv'
<1>1. /\ UNCHANGED <<stream, down, up, serving, link, sock, state, writes, shown>>
      /\ UNCHANGED <<desync, cache, events, origin, skipped>>
  BY DEF resumeVars
<1>2. Eventual' = Eventual /\ (CursorSet' <=> CursorSet) /\ (LossKnown' <=> LossKnown)
  BY <1>1 DEF Eventual, CursorSet, LossKnown
<1>3. TypeOK'
  BY <1>1 DEF IInv, TypeOK
<1>4. LinkOK'
  BY <1>1 DEF IInv, LinkOK
<1>5. AnswersOK => AnswersOK'
  BY <1>1 DEF AnswersOK
<1>6. OrderOK => OrderOK'
  BY <1>1, <1>2 DEF OrderOK, OriginOK, BoundsOK, WritesOrdered, LinkOrdered, Content
<1>7. Faithful => Faithful'
  <2>1. QueueOK /\ AttachOK /\ SettledOK => QueueOK' /\ AttachOK' /\ SettledOK'
    BY <1>1, <1>2 DEF QueueOK, AttachOK, SettledOK, WholeNow, WholeAt, ScreenAt, Content, Resumable
  <2>2. FramesOK /\ NextOK => FramesOK' /\ NextOK'
    BY <1>1, <1>2 DEF FramesOK, NextOK, WholeAt, ScreenAt, LossAt
  <2>3. Honest /\ CacheOK => Honest' /\ CacheOK'
    BY <1>1, <1>2 DEF Honest, CacheOK, Resumable
  <2> QED
    BY <1>6, <2>1, <2>2, <2>3 DEF Faithful
<1> QED
  BY <1>1, <1>3, <1>4, <1>5, <1>7 DEF IInv

LEMMA NextIInv ==
  ASSUME IInv, Next
  PROVE  IInv'
<1>1. TypeOK /\ LinkOK /\ stream.base <= stream.end
  BY DEF IInv, LinkOK
<1> SUFFICES /\ TypeOK' /\ LinkOK' /\ (~skipped' => ~skipped)
             /\ ~skipped' /\ AnswersOK /\ Faithful => AnswersOK' /\ Faithful'
  BY DEF IInv
<1>2. CASE Produce
  BY <1>1, <1>2, ProduceTyped, ProduceKeeps
<1>3. CASE Shed
  <2>1. ~skipped' => ~skipped
    BY <1>1, <1>3, ShedTyped
  <2> QED
    BY <1>1, <1>3, <2>1, ShedTyped, ShedKeeps
<1>4. CASE \E answer \in Answers : ServeAttach(answer)
  <2>1. PICK answer \in Answers : ServeAttach(answer)
    BY <1>4
  <2>2. down = <<>>
    <3>1. up # <<>> /\ Head(up).type = "attach" /\ up \in Seq(Calls)
      BY <1>1, <2>1 DEF ServeAttach, TypeOK
    <3>2. 1 \in 1 .. Len(up) /\ Head(up) = up[1]
      BY <3>1
    <3> QED
      BY <1>1, <3>1, <3>2 DEF LinkOK
  <2> QED
    BY <1>1, <2>1, <2>2, ServeAttachTyped, ServeAttachKeeps
<1>5. CASE ServeRequest
  BY <1>1, <1>5, ServeRequestTyped, ServeRequestKeeps
<1>6. CASE Exit
  BY <1>1, <1>6, ExitTyped, ExitKeeps
<1>7. CASE Regenerate
  BY <1>1, <1>7, RegenerateTyped, RegenerateKeeps
<1>8. CASE \/ \E fatal \in BOOLEAN : LinkBreaks(fatal)
           \/ Reconnect \/ SnapshotTimer \/ LivenessCheck \/ Unresponsive \/ AskForSnapshot
  <2>1. Idles /\ TypeOK'
    BY <1>1, <1>8, IdleStep
  <2> QED
    BY <1>1, <2>1, IdleKeeps DEF Idles
<1>9. CASE \/ ReceiveGap \/ ReceiveAttached \/ ReceiveBegin
           \/ ReceiveResynced \/ ReceiveRejected \/ ReceiveExit
  <2>1. Drops /\ TypeOK'
    BY <1>1, <1>9, DropStep
  <2> QED
    BY <1>1, <2>1, DropKeeps DEF Drops
<1>10. CASE ReceiveFrame
  <2>1. TypeOK' /\ (~skipped' => ~skipped)
    BY <1>1, <1>10, ReceiveFrameTyped
  <2> QED
    BY <1>1, <1>10, <2>1, ReceiveFrameKeeps
<1>11. CASE Paint
  <2>1. TypeOK' /\ (~skipped' => ~skipped)
    BY <1>1, <1>11, PaintTyped
  <2> QED
    BY <1>1, <1>11, <2>1, PaintKeeps
<1>12. CASE Opened
  BY <1>1, <1>12, OpenedTyped, OpenedKeeps
<1>13. CASE CacheScreen
  BY <1>1, <1>13, CacheTyped, CacheKeeps
<1>14. CASE Remount \/ Retry
  <2>1. TypeOK' /\ \E screen \in {cache, NoScreen} : Joins(screen)
    BY <1>1, <1>14, JoinedTyped
  <2>2. PICK screen \in {cache, NoScreen} : Joins(screen)
    BY <2>1
  <2>3. ~skipped' => ~skipped
    BY <2>2 DEF Joins
  <2> QED
    BY <1>1, <2>1, <2>2, <2>3, JoinsKeeps
<1>15. CASE Tear
  BY <1>1, <1>15, TearTyped, TearLink
<1>16. CASE ServeCut
  BY <1>1, <1>16, ServeCutTyped, ServeCutKeeps
<1>17. CASE ServeTorn
  BY <1>1, <1>17, ServeTornKeeps
<1> QED
  BY <1>2, <1>3, <1>4, <1>5, <1>6, <1>7, <1>8, <1>9, <1>10, <1>11, <1>12, <1>13, <1>14,
     <1>15, <1>16, <1>17
     DEF Next, Server, Browser, Receive

(***************************************************************************)
(* The invariant holds: at every point between the server and the screen   *)
(* (the write queue of TerminalPane.vue, the messages of the outbound      *)
(* queue) a frame either joins on to what will be shown there or a loss is *)
(* announced before it counts.                                             *)
(***************************************************************************)
THEOREM ResumeInvariant == Spec => []IInv
<1>1. IInv /\ [Next]_resumeVars => IInv'
  BY NextIInv, StutterIInv
<1> QED
  BY <1>1, InitIInv, PTL DEF Spec

(***************************************************************************)
(* Every field of TerminalSocket, every message under way and the write    *)
(* queue keep their types, whatever the server, the link, the timers and   *)
(* the user do.                                                            *)
(***************************************************************************)
THEOREM TypeCorrect == Spec => []TypeOK
<1>1. IInv => TypeOK
  BY DEF IInv
<1> QED
  BY <1>1, ResumeInvariant, PTL

(***************************************************************************)
(* The cursor that attach_v2 resumes from (advanceSeq and the ack callback *)
(* of client.ts) claims only bytes that the terminal shows or has queued.  *)
(***************************************************************************)
THEOREM CursorTrue == Spec => []CursorIsPainted
<1>1. IInv => CursorIsPainted
  BY DEF IInv, Faithful, CursorIsPainted
<1> QED
  BY <1>1, ResumeInvariant, PTL

(***************************************************************************)
(* A screen persisted by protocol/cache.ts holds every byte below the      *)
(* cursor that is stored with it, so a reload resumes behind nothing it    *)
(* lacks.                                                                  *)
(***************************************************************************)
THEOREM CacheTrue == Spec => []CacheIsPainted
<1>1. IInv => CacheIsPainted
  BY DEF IInv, Faithful, CacheOK, CacheIsPainted
<1> QED
  BY <1>1, ResumeInvariant, PTL

-----------------------------------------------------------------------------
(***************************************************************************)
(* What PaneSettles rests on besides fairness: a pane that waits always    *)
(* has a call, an answer or a timer ahead of it.  The invariant speaks of  *)
(* the values of a client, which the methods of TerminalSocket change.     *)
(***************************************************************************)
\* The end of the answer to an attach; no frame that is shed takes it along.
Answering(ms) ==
  \E i \in 1 .. Len(ms) : ms[i].type = "attached" /\ (i > 1 => ~Chunk(ms[i - 1]))

\* An attach that is not answered yet is on its way.
Asks(c) == c.link = "open" /\ ~c.serving => c.up # <<>>

Promising(c) ==
  /\ Asks(c)
  /\ c.sock.closed => c.link = "none" /\ c.state \in {"exited", "connected"}
  /\ c.state = "disconnected" => c.sock.retryTimer
  /\ c.state = "connecting" =>
       \/ c.link = "opening"
       \/ c.link = "open" /\ (~c.serving \/ Answering(c.down) \/ c.sock.pending)
  /\ c.state = "resyncing" =>
       /\ c.sock.awaiting \/ c.sock.pending
       /\ c.link = "none" => c.sock.awaiting /\ (c.sock.repairTimer \/ c.sock.retryTimer)

InHand == Promising(Client)

\* With nothing under way in either direction, a timer is set or the liveness
\* interval watches the repair.
NothingForgotten ==
  state \in {"connecting", "resyncing", "disconnected"} /\ Quiet =>
    \/ sock.retryTimer \/ sock.repairTimer
    \/ link = "open" /\ ~sock.closed /\ (sock.pending \/ sock.awaiting)

LEMMA BecomesPromising ==
  ASSUME NEW c \in Clients, Promising(c), Becomes(c)
  PROVE  InHand'
BY DEF Becomes, InHand, Promising, Asks, Client

LEMMA RestartPromises ==
  ASSUME NEW c \in Clients, ~c.sock.closed
  PROVE  Promising(Restart(c))
<1> DEFINE d == [Unlinked(c) EXCEPT !.state = "disconnected"]
<1>1. /\ d \in Clients /\ d.sock = c.sock /\ d.link = "none" /\ d.state = "disconnected"
  BY UnlinkedFacts DEF Clients, States
<1>2. Restart(c) = ScheduleReconnect(d)
  BY DEF Restart, d
<1> HIDE DEF d
<1>3. ScheduleReconnect(d) = [d EXCEPT !.sock.retryTimer = TRUE]
  BY <1>1 DEF ScheduleReconnect
<1> DEFINE e == [d EXCEPT !.sock.retryTimer = TRUE]
<1>4. /\ e.sock.retryTimer /\ e.sock.closed = d.sock.closed
      /\ e.link = d.link /\ e.state = d.state
  BY <1>1 DEF Clients, Sockets
<1> HIDE DEF e
<1>5. Promising(e)
  BY <1>1, <1>4 DEF Promising, Asks
<1> QED
  BY <1>2, <1>3, <1>5 DEF e

\* A client that has asked for a snapshot, before the retry is armed.
LEMMA AskedPromises ==
  ASSUME NEW c \in Clients, ~c.sock.closed, Asks(c),
         c.state = "resyncing", c.sock.awaiting
  PROVE  Promising(ScheduleSnapshotRetry(c))
<1> DEFINE d == [c EXCEPT !.sock.attempts = @ + 1, !.sock.repairTimer = TRUE]
<1>1. CASE c.sock.repairTimer
  <2>1. ScheduleSnapshotRetry(c) = c
    BY <1>1 DEF ScheduleSnapshotRetry
  <2> QED
    BY <1>1, <2>1 DEF Promising
<1>2. CASE ~c.sock.repairTimer /\ c.sock.attempts >= MaxRetries
  <2>1. ScheduleSnapshotRetry(c) = Restart(c)
    BY <1>2 DEF ScheduleSnapshotRetry
  <2> QED
    BY <2>1, RestartPromises
<1>3. CASE ~c.sock.repairTimer /\ ~(c.sock.attempts >= MaxRetries)
  <2>1. ScheduleSnapshotRetry(c) = d
    BY <1>3 DEF ScheduleSnapshotRetry
  <2>2. /\ d.sock.repairTimer /\ d.sock.awaiting /\ d.sock.closed = c.sock.closed
        /\ d.state = c.state /\ d.link = c.link /\ d.up = c.up /\ d.serving = c.serving
    BY DEF Clients, Sockets
  <2> HIDE DEF d
  <2> QED
    BY <2>1, <2>2 DEF Promising, Asks
<1> QED
  BY <1>1, <1>2, <1>3

\* Arming the retry takes nothing away.
LEMMA RetryPromises ==
  ASSUME NEW c \in Clients, Promising(c)
  PROVE  Promising(ScheduleSnapshotRetry(c))
<1> DEFINE d == [c EXCEPT !.sock.attempts = @ + 1, !.sock.repairTimer = TRUE]
<1>1. CASE c.sock.closed \/ c.sock.repairTimer \/ ~c.sock.awaiting
  BY <1>1 DEF ScheduleSnapshotRetry
<1>2. CASE ~(c.sock.closed \/ c.sock.repairTimer \/ ~c.sock.awaiting)
           /\ c.sock.attempts >= MaxRetries
  <2>1. ScheduleSnapshotRetry(c) = Restart(c)
    BY <1>2 DEF ScheduleSnapshotRetry
  <2> QED
    BY <1>2, <2>1, RestartPromises
<1>3. CASE ~(c.sock.closed \/ c.sock.repairTimer \/ ~c.sock.awaiting)
           /\ ~(c.sock.attempts >= MaxRetries)
  <2>1. ScheduleSnapshotRetry(c) = d
    BY <1>3 DEF ScheduleSnapshotRetry
  <2>2. /\ d.sock.repairTimer /\ d.sock.awaiting = c.sock.awaiting
        /\ d.sock.pending = c.sock.pending /\ d.sock.retryTimer = c.sock.retryTimer
        /\ d.sock.closed = c.sock.closed /\ d.down = c.down
        /\ d.state = c.state /\ d.link = c.link /\ d.up = c.up /\ d.serving = c.serving
    BY DEF Clients, Sockets
  <2> HIDE DEF d
  <2> QED
    BY <2>1, <2>2 DEF Promising, Asks
<1> QED
  BY <1>1, <1>2, <1>3

LEMMA RequestPromises ==
  ASSUME NEW c \in Clients, ~c.sock.closed, Asks(c)
  PROVE  Promising(RequestSnapshot(c))
<1> DEFINE call == [type |-> "request", last |-> c.sock.last, gen |-> None]
           out == IF c.link = "open" THEN Append(c.up, call) ELSE c.up
           d == [c EXCEPT !.sock.awaiting = TRUE, !.state = "resyncing",
                          !.up = IF c.link = "open" THEN Append(@, call) ELSE @]
<1>1. call \in Calls
  BY ClientFields, SocketFields DEF Calls
<1> HIDE DEF call
<1>2. Append(c.up, call) \in Seq(Calls) /\ Append(c.up, call) # <<>>
  BY <1>1, ClientFields
<1>3. /\ out \in Seq(Calls) /\ (c.link = "open" => out # <<>>)
      /\ d = [c EXCEPT !.sock = [c.sock EXCEPT !.awaiting = TRUE], !.state = "resyncing",
                       !.up = out]
  BY <1>2, ClientFields DEF Clients
<1>4. [c.sock EXCEPT !.awaiting = TRUE] \in Sockets
  BY ClientFields DEF Sockets
<1>5. RequestSnapshot(c) = ScheduleSnapshotRetry(d)
  BY DEF RequestSnapshot, call, d
<1> HIDE DEF out, d
<1>6. /\ d \in Clients /\ d.sock.awaiting /\ d.sock.closed = c.sock.closed
      /\ d.state = "resyncing" /\ d.link = c.link /\ d.up = out
  BY <1>3, <1>4 DEF Clients, Sockets, States
<1>7. Asks(d)
  BY <1>3, <1>6 DEF Asks
<1> QED
  BY <1>5, <1>6, <1>7, AskedPromises

LEMMA RepairPromises ==
  ASSUME NEW c \in Clients, ~c.sock.closed, Asks(c)
  PROVE  Promising(Repair(c))
<1> DEFINE b == [c EXCEPT !.sock.awaiting = TRUE, !.sock.pending = FALSE]
<1>1. /\ b \in Clients /\ b.sock.closed = c.sock.closed
      /\ b.up = c.up /\ b.serving = c.serving /\ b.link = c.link
  BY DEF Clients, Sockets
<1>2. Repair(c) = ScheduleSnapshotRetry(RequestSnapshot(b))
  BY DEF Repair
<1> HIDE DEF b
<1>3. Promising(RequestSnapshot(b)) /\ RequestSnapshot(b) \in Clients
  BY <1>1, RequestPromises, RequestSnapshotFacts DEF Asks
<1> QED
  BY <1>2, <1>3, RetryPromises

\* An answer that ends a repair: a snapshot that is still to be painted ends it.
LEMMA WholePromises ==
  ASSUME NEW c \in Clients, ~c.sock.closed, Asks(c), c.link = "open",
         c.state = "disconnected" => c.sock.retryTimer
  PROVE  Promising(Whole(c))
<1>1. CASE c.sock.pending
  <2>1. Whole(c) = c
    BY <1>1 DEF Whole
  <2> QED
    BY <1>1, <2>1 DEF Promising
<1>2. CASE ~c.sock.pending
  <2> DEFINE s == ResetSnapshotRepair([c.sock EXCEPT !.awaiting = FALSE])
  <2>1. s.closed = c.sock.closed
    BY DEF ResetSnapshotRepair, Sockets, Clients
  <2>2. Whole(c) = [c EXCEPT !.sock = s, !.state = "connected"]
    BY <1>2 DEF Whole, Clients
  <2> HIDE DEF s
  <2>3. /\ Whole(c).sock = s /\ Whole(c).state = "connected" /\ Whole(c).link = c.link
        /\ Whole(c).up = c.up /\ Whole(c).serving = c.serving
    BY <2>2 DEF Clients
  <2> QED
    BY <2>1, <2>3 DEF Promising, Asks
<1> QED
  BY <1>1, <1>2

\* The same of a link that breaks.
LEMMA BrokenPromises ==
  ASSUME NEW c \in Clients, ~c.sock.closed
  PROVE  Promising(ScheduleReconnect([Unlinked(c) EXCEPT !.state = "disconnected"]))
BY RestartPromises DEF Restart

LEMMA ConnectingPromises ==
  ASSUME NEW c \in Clients, ~c.sock.closed
  PROVE  Promising(Connecting(c))
<1> DEFINE d == [Unlinked(c) EXCEPT !.link = "opening", !.state = "connecting"]
<1>1. /\ d.sock = c.sock /\ d.link = "opening" /\ d.state = "connecting"
  BY UnlinkedFacts DEF Clients
<1>2. Connecting(c) = d
  BY DEF Connecting
<1> HIDE DEF d
<1> QED
  BY <1>1, <1>2 DEF Promising, Asks

-----------------------------------------------------------------------------
\* More messages behind an answer, or one less before it.
LEMMA ExtendsAnswers ==
  ASSUME NEW t, NEW s, NEW k \in Nat, Extends(t, s, k), Answering(s)
  PROVE  Answering(t)
<1>1. PICK i \in 1 .. Len(s) : s[i].type = "attached" /\ (i > 1 => ~Chunk(s[i - 1]))
  BY DEF Answering
<1>2. /\ Len(s) \in Nat /\ Len(t) = Len(s) + k
      /\ \A j \in 1 .. Len(s) : t[j] = s[j]
  BY DEF Extends
<1>3. i \in 1 .. Len(t) /\ t[i] = s[i] /\ (i > 1 => i - 1 \in 1 .. Len(s))
  BY <1>2
<1> QED
  BY <1>1, <1>2, <1>3 DEF Answering

LEMMA TailAnswers ==
  ASSUME NEW s \in Seq(Messages), s # <<>>, Answering(s), Head(s).type # "attached"
  PROVE  Answering(Tail(s))
<1>1. PICK i \in 1 .. Len(s) : s[i].type = "attached" /\ (i > 1 => ~Chunk(s[i - 1]))
  BY DEF Answering
<1> DEFINE t == Tail(s)
           n == Len(s)
<1>2. /\ n \in Nat /\ Len(t) = n - 1 /\ Head(s) = s[1]
      /\ \A j \in 1 .. n - 1 : t[j] = s[j + 1]
  OBVIOUS
<1> HIDE DEF t
<1>3. i # 1
  BY <1>1, <1>2
<1>4. i - 1 \in 1 .. Len(t) /\ t[i - 1] = s[i]
  BY <1>2, <1>3
<1>5. ASSUME i - 1 > 1
      PROVE  ~Chunk(t[(i - 1) - 1])
  <2>1. (i - 1) - 1 \in 1 .. n - 1 /\ ((i - 1) - 1) + 1 = i - 1 /\ i > 1
    BY <1>2, <1>5
  <2> QED
    BY <1>1, <1>2, <2>1
<1>6. t[i - 1].type = "attached"
  BY <1>1, <1>4
<1>7. Answering(t)
  BY <1>4, <1>5, <1>6 DEF Answering
<1> QED
  BY <1>7 DEF t

\* What is shed takes no answer along: the chunk of a snapshot goes with the
\* snapshot, and nothing else but frames.
LEMMA ShedAnswers ==
  ASSUME TypeOK, Shed, Answering(down)
  PROVE  Answering(down')
<1>1. PICK i \in 1 .. Len(down), next \in Int :
         /\ next = IF Chunk(down[i]) THEN i + 2 ELSE i + 1
         /\ next \in {i + 1, i + 2}
         /\ Terminal(down[i]) /\ \A j \in 1 .. i - 1 : ~Terminal(down[j])
         /\ down' = Rest(i, next) \/ down' = Append(Rest(i, next), GapSent)
  BY ShedTyped
<1> DEFINE rest == Rest(i, next)
           n == Len(rest)
<1>2. next \in {i + 1, i + 2} /\ next \in Int
  BY <1>1
<1>3. down' = rest \/ down' = Append(rest, GapSent)
  BY <1>1
<1>4. (Chunk(down[i]) => next = i + 2) /\ (~Chunk(down[i]) => next = i + 1)
  BY <1>1
<1>5. /\ rest \in Seq(Messages) /\ Len(down) \in Nat
      /\ n = IF next <= Len(down) + 1 THEN Len(down) + i - next ELSE i - 1
      /\ \A p \in 1 .. n : rest[p] = IF p < i THEN down[p] ELSE down[p + (next - i)]
  <2>1. Len(down) \in Nat
    BY DEF TypeOK
  <2> QED
    BY <1>2, <2>1, RestFacts
<1> HIDE DEF rest
<1>6. PICK a \in 1 .. Len(down) : down[a].type = "attached" /\ (a > 1 => ~Chunk(down[a - 1]))
  BY DEF Answering
<1>7. a # i
  BY <1>1, <1>6 DEF Terminal
<1>8. Answering(rest)
  <2>1. CASE a < i
    <3>1. a \in 1 .. n /\ rest[a] = down[a]
      BY <1>2, <1>5, <2>1
    <3>2. a > 1 => a - 1 \in 1 .. n /\ rest[a - 1] = down[a - 1]
      BY <1>2, <1>5, <2>1
    <3> QED
      BY <1>6, <3>1, <3>2 DEF Answering
  <2>2. CASE a > i
    <3>1. a >= next
      <4>1. CASE Chunk(down[i])
        <5>1. a # i + 1
          <6>1. a = i + 1 => a > 1 /\ a - 1 = i
            BY <1>5
          <6> QED
            BY <1>6, <4>1, <6>1
        <5> QED
          BY <1>4, <1>5, <2>2, <4>1, <5>1
      <4> QED
        BY <1>4, <1>5, <2>2, <4>1
    <3> DEFINE b == a - (next - i)
    <3>2. b \in 1 .. n /\ b >= i /\ b + (next - i) = a /\ next - i \in {1, 2} /\ n \in Nat
      BY <1>2, <1>5, <3>1
    <3> HIDE DEF b
    <3>a. rest[b] = down[a]
      BY <1>5, <3>2
    <3>3. ASSUME b > 1
          PROVE  ~Chunk(rest[b - 1])
      <4>1. CASE b = i
        <5>1. b - 1 \in 1 .. n /\ b - 1 < i /\ b - 1 \in 1 .. i - 1
          BY <3>2, <3>3, <4>1
        <5>2. rest[b - 1] = down[b - 1] /\ ~Terminal(down[b - 1])
          BY <1>1, <1>5, <5>1
        <5> QED
          BY <5>2 DEF Chunk, Terminal
      <4>2. CASE b # i
        <5>1. b - 1 \in 1 .. n /\ ~(b - 1 < i) /\ (b - 1) + (next - i) = a - 1 /\ a > 1
          <6>1. i \in Nat /\ a \in Nat /\ next \in Int
            BY <1>2, <1>5
          <6> HIDE DEF n
          <6> QED
            BY ONLY <6>1, <3>2, <3>3, <4>2
        <5> QED
          BY <1>5, <1>6, <5>1
      <4> QED
        BY <4>1, <4>2
    <3> QED
      BY <1>6, <3>2, <3>a, <3>3 DEF Answering
  <2> QED
    BY <1>5, <1>7, <2>1, <2>2
<1>9. GapSent \in Messages
  BY GapTyped
<1>10. Extends(Append(rest, GapSent), rest, 1)
  BY <1>5, <1>9, AppendFacts DEF Extends
<1> QED
  BY <1>3, <1>8, <1>10, ExtendsAnswers

\* What the server does for an attached viewer.
LEMMA ServedPromises ==
  ASSUME InHand, UNCHANGED <<sock, state, link>>,
         serving' = TRUE, serving \/ Answering(down'), Answering(down) => Answering(down')
  PROVE  InHand'
BY DEF InHand, Promising, Asks, Client

\* Nor does a torn snapshot: what stands in front of its chunk is no frame but
\* the one that goes with it.
LEMMA TearAnswers ==
  ASSUME TypeOK, Tear, Answering(down)
  PROVE  Answering(down')
<1>1. PICK i \in 1 .. Len(down), k \in 1 .. Len(down) :
         /\ i < k /\ Terminal(down[i]) /\ Chunk(down[k])
         /\ \A j \in 1 .. k - 1 : Terminal(down[j]) => j = i
         /\ TornRest(i, k) \in Seq(Messages)
         /\ down' = TornRest(i, k) \/ down' = Append(TornRest(i, k), GapSent)
  BY TearTyped
<1> DEFINE most == RemoveAt(down, k)
           rest == TornRest(i, k)
           n == Len(down)
<1>2. down \in Seq(Messages) /\ n \in Nat
  BY DEF TypeOK
<1>3. /\ most \in Seq(Messages) /\ Len(most) = n - 1
      /\ \A p \in 1 .. n - 1 : most[p] = IF p < k THEN down[p] ELSE down[p + 1]
  BY <1>2, RemoveFacts
<1>4. rest = RemoveAt(most, i)
  BY DEF TornRest
<1> HIDE DEF most, rest, n
<1>5. /\ i \in 1 .. n - 1 /\ k \in 1 .. n /\ i < k /\ n \in Nat
  BY <1>1, <1>2 DEF n
<1>6. /\ Len(rest) = n - 2
      /\ \A p \in 1 .. n - 2 : rest[p] = IF p < i THEN most[p] ELSE most[p + 1]
  <2>1. i \in 1 .. Len(most) /\ Len(most) - 1 = n - 2
    BY <1>3, <1>5
  <2> QED
    BY <1>3, <1>4, <2>1, RemoveFacts
<1>7. PICK a \in 1 .. n : down[a].type = "attached" /\ (a > 1 => ~Chunk(down[a - 1]))
  BY DEF Answering, n
<1>8. a # i /\ a # k /\ a # k + 1
  <2>1. a = k + 1 => a > 1 /\ a - 1 = k
    BY <1>5
  <2> QED
    BY <1>1, <1>7, <2>1 DEF Terminal, Chunk
<1>9. \A p \in 1 .. n - 2 : rest[p] = IF p < i THEN down[p]
                                      ELSE IF p + 1 < k THEN down[p + 1] ELSE down[p + 2]
  <2> SUFFICES ASSUME NEW p \in 1 .. n - 2
               PROVE  rest[p] = IF p < i THEN down[p]
                                ELSE IF p + 1 < k THEN down[p + 1] ELSE down[p + 2]
    OBVIOUS
  <2>1. CASE p < i
    <3>1. p \in 1 .. n - 1 /\ p < k
      BY <1>5, <2>1
    <3> QED
      BY <1>3, <1>6, <2>1, <3>1
  <2>2. CASE ~(p < i)
    <3>1. p + 1 \in 1 .. n - 1 /\ (p + 1) + 1 = p + 2
      BY <1>5
    <3> QED
      BY <1>3, <1>6, <2>2, <3>1
  <2> QED
    BY <2>1, <2>2
<1>10. \A p \in 1 .. n - 2 : p + 1 < k => ~Chunk(rest[p])
  <2> SUFFICES ASSUME NEW p \in 1 .. n - 2, p + 1 < k
               PROVE  ~Chunk(rest[p])
    OBVIOUS
  <2>1. CASE p < i
    <3>1. p \in 1 .. k - 1 /\ p # i /\ rest[p] = down[p]
      BY <1>5, <1>9, <2>1
    <3> QED
      BY <1>1, <3>1 DEF Chunk, Terminal
  <2>2. CASE ~(p < i)
    <3>1. p + 1 \in 1 .. k - 1 /\ p + 1 # i /\ rest[p] = down[p + 1]
      BY <1>5, <1>9, <2>2
    <3> QED
      BY <1>1, <3>1 DEF Chunk, Terminal
  <2> QED
    BY <2>1, <2>2
<1>11. Answering(rest)
  <2>1. CASE a < i
    <3>1. a \in 1 .. n - 2 /\ a - 1 < i /\ (a > 1 => a - 1 \in 1 .. n - 2)
      BY <1>5, <2>1
    <3> QED
      BY <1>6, <1>7, <1>9, <2>1, <3>1 DEF Answering
  <2>2. CASE a > i /\ a < k
    <3>1. a - 1 \in 1 .. n - 2 /\ ~(a - 1 < i) /\ (a - 1) + 1 = a /\ (a - 1) + 1 < k
          /\ (a - 1 > 1 => (a - 1) - 1 \in 1 .. n - 2 /\ ((a - 1) - 1) + 1 < k)
      BY <1>5, <2>2
    <3> QED
      BY <1>6, <1>7, <1>9, <1>10, <3>1 DEF Answering
  <2>3. CASE a > k
    <3>1. /\ a - 2 \in 1 .. n - 2 /\ ~(a - 2 < i) /\ (a - 2) + 2 = a /\ ~((a - 2) + 1 < k)
          /\ (a - 2) - 1 \in 1 .. n - 2 /\ a > 1
          /\ ~((a - 2) - 1 < i) /\ ((a - 2) - 1) + 2 = a - 1 /\ ~(((a - 2) - 1) + 1 < k)
      BY <1>5, <1>8, <2>3
    <3>2. rest[a - 2] = down[a] /\ rest[(a - 2) - 1] = down[a - 1]
      BY <1>9, <3>1
    <3> QED
      BY <1>6, <1>7, <3>1, <3>2 DEF Answering
  <2> QED
    BY <1>5, <1>8, <2>1, <2>2, <2>3
<1>12. rest \in Seq(Messages) /\ (down' = rest \/ down' = Append(rest, GapSent))
  BY <1>1 DEF rest
<1>13. Extends(Append(rest, GapSent), rest, 1)
  BY <1>12, GapTyped, AppendFacts DEF Extends
<1> QED
  BY <1>11, <1>12, <1>13, ExtendsAnswers

\* What is left of a replay has no chunk at its end.
LEMMA ReplyAnswers ==
  ASSUME TypeOK, LinkOK, up # <<>>, Happens, skipped' \in BOOLEAN,
         NEW kept, Own(kept), NEW incomplete \in BOOLEAN, Reply(kept, incomplete),
         Head(up).type = "attach" => Chunkless(kept)
  PROVE  /\ serving' = TRUE /\ UNCHANGED <<sock, state, link>>
         /\ serving \/ Answering(down')
         /\ Answering(down) => Answering(down')
<1>1. serving' = TRUE /\ UNCHANGED <<sock, state, link>>
  BY ReplyLink
<1> DEFINE attached == Message("attached", 0, 0, incomplete)
           resynced == Message("resynced", 0, 0, incomplete)
           begin == Message("begin", 0, 0, FALSE)
<1>2. /\ attached \in Messages /\ resynced \in Messages /\ begin \in Messages
      /\ attached.type = "attached"
  <2>1. 0 \in 0 .. MaxEnd /\ "attached" \in Kinds /\ "resynced" \in Kinds /\ "begin" \in Kinds
    BY ResumeBounds DEF Kinds
  <2>2. begin \in Messages
    BY <2>1, MessageTyped
  <2>3. attached \in Messages
    BY <2>1, MessageTyped
  <2>4. resynced \in Messages
    BY <2>1, MessageTyped
  <2>5. attached.type = "attached"
    BY DEF Message
  <2> QED
    BY <2>2, <2>3, <2>4, <2>5
<1>3. up \in Seq(Calls) /\ down \in Seq(Messages) /\ kept \in Seq(Messages)
  BY DEF TypeOK, Own
<1>4. CASE Head(up).type = "attach"
  <2>1. 1 \in 1 .. Len(up) /\ Head(up) = up[1]
    BY <1>3
  <2>2. down = <<>>
    BY <1>4, <2>1 DEF LinkOK
  <2>3. down' = kept \o One(attached)
    <3>1. down' = (down \o kept) \o One(attached)
      BY <1>4 DEF Reply, One
    <3> QED
      BY <1>3, <2>2, <3>1, ConcatEmptySeq
  <2> HIDE DEF attached
  <2>4. Pushed(down', kept, attached)
    BY <1>2, <1>3, <2>3, SumOne
  <2> DEFINE n == Len(kept) + 1
  <2>5. /\ n \in 1 .. Len(down') /\ down'[n].type = "attached"
        /\ n > 1 => n - 1 \in 1 .. Len(kept) /\ down'[n - 1] = kept[n - 1]
    BY <1>2, <2>4 DEF Pushed
  <2>6. Answering(down')
    BY <1>4, <2>5 DEF Answering, Chunkless
  <2> QED
    BY <1>1, <2>6
<1>5. CASE Head(up).type # "attach"
  <2>1. down' = ((down \o One(begin)) \o kept) \o One(resynced) /\ serving
    BY <1>5 DEF Reply, One
  <2> HIDE DEF begin, resynced
  <2> DEFINE s == down \o One(begin)
             t == s \o kept
  <2>2. Pushed(s, down, begin)
    BY <1>2, <1>3, SumOne
  <2>3. Extends(s, down, 1) /\ s \in Seq(Messages)
    BY <2>2, PushedExtends DEF Pushed
  <2> HIDE DEF s
  <2>4. Extends(t, s, Len(kept)) /\ t \in Seq(Messages) /\ Len(kept) \in Nat
    <3>1. Len(s) \in Nat /\ Len(kept) \in Nat
      BY <1>3, <2>3
    <3>2. /\ t \in Seq(Messages) /\ Len(t) = Len(s) + Len(kept)
          /\ \A i \in 1 .. Len(s) + Len(kept) :
               t[i] = IF i <= Len(s) THEN s[i] ELSE kept[i - Len(s)]
      BY <1>3, <2>3, ConcatProperties
    <3> HIDE DEF t
    <3>3. \A i \in 1 .. Len(s) : t[i] = s[i]
      BY <3>1, <3>2
    <3> QED
      BY <3>1, <3>2, <3>3 DEF Extends
  <2> HIDE DEF t
  <2>5. Pushed(down', t, resynced)
    BY <1>2, <2>1, <2>4, SumOne DEF s, t
  <2>6. Extends(down', t, 1)
    BY <2>5, PushedExtends
  <2>7. Answering(down) => Answering(down')
    BY <2>3, <2>4, <2>6, ExtendsAnswers
  <2> QED
    BY <1>1, <2>1, <2>7
<1> QED
  BY <1>4, <1>5

LEMMA ServeAttachAnswers ==
  ASSUME TypeOK, NEW answer \in Answers, ServeAttach(answer), down = <<>>
  PROVE  Answering(down')
<1>1. AttachAnswered(answer, Head(up).last)
  BY ServeAttachTyped
<1>2. /\ ControlSent("attached").type = "attached" /\ LossSent("attached").type = "attached"
      /\ \A from : ~Chunk(DataSent(from))
      /\ ~Chunk(LastSent) /\ ~Chunk(ClearSent)
  BY DEF ControlSent, LossSent, DataSent, LastSent, ClearSent, Chunk
<1>3. CASE Len(down') = 1 /\ down'[1] = ControlSent("attached")
  BY <1>2, <1>3 DEF Answering
<1>4. CASE /\ Len(down') = 2 /\ ~Chunk(down'[1])
           /\ down'[2] \in {ControlSent("attached"), LossSent("attached")}
  <2>1. 2 \in 1 .. Len(down') /\ 2 - 1 = 1 /\ down'[2].type = "attached"
    BY <1>2, <1>4
  <2> QED
    BY <1>4, <2>1 DEF Answering
<1>5. CASE Len(down') = 3 /\ ~Chunk(down'[2]) /\ down'[3] = ControlSent("attached")
  <2>1. 3 \in 1 .. Len(down') /\ 3 - 1 = 2 /\ down'[3].type = "attached"
    BY <1>2, <1>5
  <2> QED
    BY <1>5, <2>1 DEF Answering
<1> QED
  BY <1>1, <1>2, <1>3, <1>4, <1>5 DEF AttachAnswered

LEMMA ServerPromises ==
  ASSUME TypeOK, LinkOK, InHand,
         \/ Produce \/ Shed \/ Tear \/ ServeRequest \/ ServeCut \/ ServeTorn \/ Exit
         \/ \E answer \in Answers : ServeAttach(answer)
  PROVE  InHand'
<1>1. CASE Produce
  <2>1. /\ UNCHANGED <<up, serving, link, sock, state>>
        /\ serving /\ Answering(down) => Answering(down')
        /\ ~serving => down' = down
    <3>1. stream.base <= stream.end
      BY DEF LinkOK
    <3> DEFINE frame == [type |-> "data", gen |-> stream.gen, from |-> stream.end,
                         to |-> stream.end + 1, flag |-> FALSE]
    <3>2. /\ TypeOK' /\ UNCHANGED <<up, serving, link, sock>>
          /\ IF serving THEN down' = Append(down, frame) ELSE down' = down
      BY <1>1, <3>1, ProduceTyped
    <3>3. frame \in Messages /\ down \in Seq(Messages)
      BY <1>1, StreamFields, ResumeBounds DEF Messages, Kinds, Produce, TypeOK
    <3> HIDE DEF frame
    <3>4. Extends(Append(down, frame), down, 1)
      BY <3>3, AppendFacts DEF Extends
    <3>5. state' = state
      BY <1>1 DEF Produce
    <3> QED
      BY <3>2, <3>4, <3>5, ExtendsAnswers
  <2> QED
    BY <2>1 DEF InHand, Promising, Asks, Client
<1>2. CASE Shed
  <2>1. UNCHANGED <<up, serving, link, sock, state>>
    BY <1>2 DEF Shed
  <2>2. Answering(down) => Answering(down')
    BY <1>2, ShedAnswers
  <2> QED
    BY <2>1, <2>2 DEF InHand, Promising, Asks, Client
<1>3. CASE ServeRequest
  <2>1. /\ RequestAnswered(Len(down)) /\ serving
        /\ UNCHANGED <<serving, link, sock>>
    BY <1>3, ServeRequestTyped
  <2>2. state' = state
    BY <1>3 DEF ServeRequest
  <2>3. \E k \in Nat : Extends(down', down, k)
    BY <2>1 DEF RequestAnswered
  <2> QED
    BY <2>1, <2>2, <2>3, ExtendsAnswers, ServedPromises
<1>4. CASE Exit
  <2>1. /\ serving /\ down' = Append(down, ControlSent("exit"))
        /\ UNCHANGED <<serving, link, sock>>
    BY <1>4, ExitTyped
  <2>2. state' = state
    BY <1>4 DEF Exit
  <2>3. Extends(down', down, 1)
    <3>1. ControlSent("exit") \in Messages /\ down \in Seq(Messages)
      BY SentTyped DEF TypeOK
    <3> QED
      BY <2>1, <3>1, AppendFacts DEF Extends
  <2> QED
    BY <2>1, <2>2, <2>3, ExtendsAnswers, ServedPromises
<1>5. ASSUME NEW answer \in Answers, ServeAttach(answer)
      PROVE  InHand'
  <2>1. up # <<>> /\ Head(up).type = "attach" /\ up \in Seq(Calls)
    BY <1>5 DEF ServeAttach, TypeOK
  <2>2. 1 \in 1 .. Len(up) /\ Head(up) = up[1]
    BY <2>1
  <2>3. down = <<>>
    BY <2>1, <2>2 DEF LinkOK
  <2>4. serving' = TRUE /\ UNCHANGED <<sock, state, link>>
    BY <1>5 DEF ServeAttach
  <2>5. Answering(down')
    BY <1>5, <2>3, ServeAttachAnswers
  <2> QED
    BY <2>4, <2>5, ServedPromises
<1>6. CASE Tear
  <2>1. UNCHANGED <<up, serving, link, sock, state>>
    BY <1>6 DEF Tear
  <2>2. Answering(down) => Answering(down')
    BY <1>6, TearAnswers
  <2> QED
    BY <2>1, <2>2 DEF InHand, Promising, Asks, Client
<1>7. CASE ServeCut
  <2>1. up # <<>> /\ Happens /\ skipped' \in BOOLEAN
    BY <1>7 DEF ServeCut, TypeOK
  <2>2. PICK first \in ReplayFrom + 1 .. stream.end : Reply(Gap \o Frame(first, stream.end), TRUE)
    BY <1>7 DEF ServeCut
  <2>3. first \in 0 .. MaxEnd /\ stream.end \in 0 .. MaxEnd
    BY <2>1, ReplayFromTyped, ResumeBounds
  <2>4. Own(Gap) /\ Chunkless(Gap)
        /\ Own(Frame(first, stream.end)) /\ Chunkless(Frame(first, stream.end))
    BY <2>3, PartsOwn, PartsChunkless
  <2> DEFINE kept == Gap \o Frame(first, stream.end)
  <2>5. Own(kept) /\ Chunkless(kept)
    BY <2>4, OwnConcat, ConcatChunkless
  <2> HIDE DEF kept
  <2>6. Reply(kept, TRUE)
    BY <2>2 DEF kept
  <2> QED
    BY <2>1, <2>5, <2>6, ReplyAnswers, ServedPromises
<1>8. CASE ServeTorn
  <2>1. up # <<>> /\ Happens /\ skipped' \in BOOLEAN
    BY <1>8 DEF ServeTorn
  <2>2. PICK incomplete \in BOOLEAN :
          \/ \E kept \in Torn : Reply(kept, incomplete)
          \/ Head(up).type = "request" /\ Reply(Screen \o RawReplay, incomplete)
    BY <1>8 DEF ServeTorn
  <2>3. CASE \E kept \in Torn : Reply(kept, incomplete)
    BY <2>1, <2>3, TornTyped, ReplyAnswers, ServedPromises
  <2>4. CASE Head(up).type = "request" /\ Reply(Screen \o RawReplay, incomplete)
    <3>1. Own(Screen \o RawReplay)
      BY PartsOwn, OwnConcat
    <3> QED
      BY <2>1, <2>4, <3>1, ReplyAnswers, ServedPromises
  <2> QED
    BY <2>2, <2>3, <2>4
<1> QED
  BY <1>1, <1>2, <1>3, <1>4, <1>5, <1>6, <1>7, <1>8

-----------------------------------------------------------------------------
\* The timers, the breaks and the repairs that are asked for.
LEMMA IdlePromises ==
  ASSUME TypeOK, LinkOK, InHand,
         \/ \E fatal \in BOOLEAN : LinkBreaks(fatal)
         \/ Reconnect \/ SnapshotTimer \/ LivenessCheck \/ Unresponsive \/ AskForSnapshot
         \/ Regenerate
  PROVE  InHand'
<1>1. /\ Client \in Clients /\ Promising(Client) /\ Asks(Client)
      /\ Client.sock = sock /\ Client.link = link /\ Client.state = state
      /\ Client.up = up /\ Client.down = down /\ Client.serving = serving
  BY ClientTyped DEF Client, InHand, Promising
<1>2. link # "none" => ~sock.closed
  BY <1>1 DEF Promising, TypeOK, Sockets
<1> SUFFICES \E d \in Clients : Promising(d) /\ Becomes(d)
  BY BecomesPromising
<1>3. ASSUME NEW fatal \in BOOLEAN, LinkBreaks(fatal)
      PROVE  \E d \in Clients : Promising(d) /\ Becomes(d)
  <2> DEFINE f == [Unlinked(Client) EXCEPT !.state = "failed"]
             g == [Unlinked(Client) EXCEPT !.state = "disconnected"]
  <2>1. link # "none" /\ Becomes(IF fatal THEN f ELSE ScheduleReconnect(g))
    BY <1>3 DEF LinkBreaks
  <2>2. /\ f \in Clients /\ f.sock = sock /\ f.link = "none" /\ f.state = "failed"
        /\ g \in Clients
    BY <1>1, UnlinkedFacts DEF Clients, States
  <2>3. Promising(ScheduleReconnect(g))
    BY <1>1, <1>2, <2>1, BrokenPromises
  <2> HIDE DEF f, g
  <2>4. Promising(f)
    BY <1>2, <2>1, <2>2 DEF Promising, Asks
  <2> QED
    BY <2>1, <2>2, <2>3, <2>4, ScheduleReconnectFacts
<1>4. CASE Reconnect
  <2> DEFINE c == [Client EXCEPT !.sock.retryTimer = FALSE]
  <2>1. Becomes(Connecting(c))
    BY <1>4 DEF Reconnect
  <2>2. /\ c \in Clients /\ c.sock.closed = sock.closed /\ c.state = state /\ c.link = link
        /\ c.up = up /\ c.serving = serving
    BY <1>1 DEF Clients, Sockets
  <2> HIDE DEF c
  <2>3. CASE sock.closed
    <3>1. Connecting(c) = c
      BY <2>2, <2>3 DEF Connecting
    <3>2. Promising(c)
      BY <1>1, <2>2, <2>3 DEF Promising, Asks
    <3> QED
      BY <2>1, <2>2, <3>1, <3>2
  <2>4. CASE ~sock.closed
    BY <2>1, <2>2, <2>4, ConnectingPromises, ConnectingFacts
  <2> QED
    BY <2>3, <2>4
<1>5. CASE SnapshotTimer
  <2> DEFINE c == [Client EXCEPT !.sock.repairTimer = FALSE]
  <2>1. Becomes(IF sock.closed \/ ~sock.awaiting THEN c
                ELSE ScheduleSnapshotRetry(RequestSnapshot(c)))
    BY <1>5 DEF SnapshotTimer
  <2>2. /\ c \in Clients /\ c.sock.closed = sock.closed /\ c.sock.awaiting = sock.awaiting
        /\ c.sock.pending = sock.pending /\ c.sock.retryTimer = sock.retryTimer
        /\ c.state = state /\ c.link = link
        /\ c.up = up /\ c.down = down /\ c.serving = serving
    BY <1>1 DEF Clients, Sockets
  <2> HIDE DEF c
  <2>3. CASE sock.closed \/ ~sock.awaiting
    <3>1. Promising(c)
      BY <1>1, <2>2, <2>3 DEF Promising, Asks
    <3> QED
      BY <2>1, <2>2, <2>3, <3>1
  <2>4. CASE ~(sock.closed \/ ~sock.awaiting)
    <3>1. Asks(c) /\ ~c.sock.closed
      BY <1>1, <2>2, <2>4 DEF Asks
    <3>2. RequestSnapshot(c) \in Clients /\ Promising(RequestSnapshot(c))
      BY <2>2, <3>1, RequestPromises, RequestSnapshotFacts
    <3>3. /\ ScheduleSnapshotRetry(RequestSnapshot(c)) \in Clients
          /\ Promising(ScheduleSnapshotRetry(RequestSnapshot(c)))
      BY <3>2, RetryPromises, ScheduleSnapshotRetryFacts
    <3> QED
      BY <2>1, <2>4, <3>3
  <2> QED
    BY <2>3, <2>4
<1>6. CASE LivenessCheck \/ AskForSnapshot
  <2>1. Becomes(RequestSnapshot(Client)) /\ ~sock.closed
    BY <1>6 DEF LivenessCheck, AskForSnapshot
  <2> QED
    BY <1>1, <2>1, RequestPromises, RequestSnapshotFacts
<1>7. CASE Unresponsive
  <2>1. Becomes(Restart(Client)) /\ ~sock.closed
    BY <1>7 DEF Unresponsive
  <2> QED
    BY <1>1, <2>1, RestartPromises, RestartFacts
<1>8. CASE Regenerate
  <2> DEFINE g == [Unlinked(Client) EXCEPT !.state = "disconnected"]
  <2>1. Becomes(IF link = "none" THEN Client ELSE ScheduleReconnect(g))
    BY <1>8 DEF Regenerate
  <2>2. g \in Clients
    BY <1>1, UnlinkedFacts DEF Clients, States
  <2>3. CASE link = "none"
    BY <1>1, <2>1, <2>3
  <2>4. CASE link # "none"
    <3>1. Promising(ScheduleReconnect(g))
      BY <1>1, <1>2, <2>4, BrokenPromises
    <3> QED
      BY <2>1, <2>2, <2>4, <3>1, ScheduleReconnectFacts
  <2> QED
    BY <2>3, <2>4
<1> QED
  BY <1>3, <1>4, <1>5, <1>6, <1>7, <1>8

\* What is received.
LEMMA ReceivePromises ==
  ASSUME TypeOK, LinkOK, InHand, Receive
  PROVE  InHand'
<1>0. down # <<>> /\ link = "open"
  BY DEF Receive, Incoming, ReceiveFrame, ReceiveGap, ReceiveAttached, ReceiveBegin,
         ReceiveResynced, ReceiveRejected, ReceiveExit
<1> DEFINE c == Received
<1>1. /\ c \in Clients /\ c.sock = sock /\ c.down = Tail(down)
      /\ c.up = up /\ c.serving = serving /\ c.link = link
      /\ c.state = state /\ Head(down) \in Messages /\ Head(down).flag \in BOOLEAN
  BY <1>0, ReceivedTyped DEF Messages
<1>2. /\ Promising(Client) /\ Client \in Clients
      /\ Client.sock = sock /\ Client.link = link /\ Client.state = state
      /\ Client.up = up /\ Client.down = down /\ Client.serving = serving
  BY ClientTyped DEF Client, InHand
<1>3. ~sock.closed /\ (~serving => up # <<>>) /\ (state = "disconnected" => sock.retryTimer)
  BY <1>0, <1>2 DEF Promising, Asks
<1>4. Asks(c) /\ ~c.sock.closed
  BY <1>1, <1>3 DEF Asks
<1> SUFFICES \E d \in Clients : Promising(d) /\ Becomes(d)
  BY BecomesPromising
<1> HIDE DEF c
<1>5. CASE ReceiveFrame
  <2> DEFINE d == [c EXCEPT !.sock.pending = TRUE, !.state = "resyncing"]
  <2>1. /\ Terminal(Head(down))
        /\ Becomes(IF Head(down).type = "snapshot" THEN d ELSE c)
    BY <1>5 DEF ReceiveFrame, c
  <2>2. /\ d \in Clients /\ d.sock.closed = sock.closed /\ d.sock.pending
        /\ d.state = "resyncing" /\ d.link = link /\ d.up = up /\ d.serving = serving
    BY <1>1 DEF Clients, Sockets, States
  <2> HIDE DEF d
  <2>3. Promising(d)
    BY <1>0, <1>3, <2>2 DEF Promising, Asks
  <2>4. Promising(c)
    <3>1. Answering(down) => Answering(Tail(down))
      BY <1>0, <2>1, TailAnswers DEF TypeOK, Terminal
    <3> QED
      BY <1>0, <1>1, <1>2, <1>4, <3>1 DEF Promising
  <2> QED
    BY <1>1, <2>1, <2>2, <2>3, <2>4
<1>6. ASSUME NEW b \in Clients, ~b.sock.closed, Asks(b), b.link = "open",
             b.state = "disconnected" => b.sock.retryTimer,
             Becomes(Repair(b)) \/ Becomes(Whole(b))
      PROVE  \E d \in Clients : Promising(d) /\ Becomes(d)
  BY <1>6, RepairPromises, WholePromises, RepairFacts, WholeFacts
<1>7. CASE ReceiveGap
  <2>1. Becomes(Repair(c))
    BY <1>7 DEF ReceiveGap, c
  <2> QED
    BY <1>0, <1>1, <1>3, <1>4, <1>6, <2>1
<1>8. CASE ReceiveAttached
  <2> DEFINE b == [c EXCEPT !.sock.gen = Head(down).gen]
  <2>1. Becomes(IF Head(down).flag THEN Repair(b) ELSE Whole(b))
    BY <1>8 DEF ReceiveAttached, c
  <2>2. Head(down).gen \in 0 .. MaxGen
    BY <1>1 DEF Messages
  <2>3. /\ b \in Clients /\ b.sock.closed = sock.closed /\ b.sock.retryTimer = sock.retryTimer
        /\ b.state = state /\ b.link = link /\ b.up = up /\ b.serving = serving
    BY <1>1, <2>2 DEF Clients, Sockets
  <2> HIDE DEF b
  <2>4. Asks(b)
    BY <1>3, <2>3 DEF Asks
  <2>5. Becomes(Repair(b)) \/ Becomes(Whole(b))
    BY <2>1
  <2> QED
    BY <1>0, <1>3, <1>6, <2>3, <2>4, <2>5
<1>9. CASE ReceiveResynced
  <2>1. Becomes(Repair(c)) \/ Becomes(Whole(c))
    BY <1>9 DEF ReceiveResynced, c
  <2> QED
    BY <1>0, <1>1, <1>3, <1>4, <1>6, <2>1
<1>10. CASE ReceiveBegin
  <2> DEFINE d == [c EXCEPT !.sock.awaiting = TRUE, !.sock.pending = FALSE,
                            !.state = "resyncing"]
  <2>1. Becomes(d)
    BY <1>10 DEF ReceiveBegin, c
  <2>2. /\ d \in Clients /\ d.sock.closed = sock.closed /\ d.sock.awaiting
        /\ d.state = "resyncing" /\ d.link = link /\ d.up = up /\ d.serving = serving
    BY <1>1 DEF Clients, Sockets, States
  <2> HIDE DEF d
  <2>3. Promising(d)
    BY <1>0, <1>3, <2>2 DEF Promising, Asks
  <2> QED
    BY <2>1, <2>2, <2>3
<1>11. CASE ReceiveRejected
  <2> DEFINE b == [c EXCEPT !.state = IF sock.awaiting THEN "resyncing" ELSE "connected"]
  <2>1. Becomes(ScheduleSnapshotRetry(b))
    BY <1>11 DEF ReceiveRejected, c
  <2>2. /\ b \in Clients /\ b.sock = sock /\ b.link = link /\ b.up = up /\ b.serving = serving
        /\ b.state = IF sock.awaiting THEN "resyncing" ELSE "connected"
    BY <1>1 DEF Clients, States
  <2> HIDE DEF b
  <2>3. Promising(b)
    BY <1>0, <1>3, <2>2 DEF Promising, Asks
  <2> QED
    BY <2>1, <2>2, <2>3, RetryPromises, ScheduleSnapshotRetryFacts
<1>12. CASE ReceiveExit
  <2> DEFINE d == [Unlinked(Client) EXCEPT !.sock.closed = TRUE, !.state = "exited"]
  <2>1. Becomes(d)
    BY <1>12 DEF ReceiveExit
  <2>2. d \in Clients /\ d.link = "none" /\ d.state = "exited"
    BY <1>2, UnlinkedFacts DEF Clients, Sockets, States
  <2> HIDE DEF d
  <2>3. Promising(d)
    BY <2>2 DEF Promising, Asks
  <2> QED
    BY <2>1, <2>2, <2>3
<1> QED
  BY <1>5, <1>7, <1>8, <1>9, <1>10, <1>11, <1>12 DEF Receive

\* The rest of the pane: opening, painting, caching, mounting.
LEMMA PanePromises ==
  ASSUME TypeOK, LinkOK, InHand, Opened \/ Paint \/ CacheScreen \/ Remount \/ Retry
  PROVE  InHand'
<1>1. /\ Promising(Client) /\ Client \in Clients
      /\ Client.sock = sock /\ Client.link = link /\ Client.state = state
      /\ Client.up = up /\ Client.down = down /\ Client.serving = serving
  BY ClientTyped DEF Client, InHand
<1>2. /\ Client'.sock = sock' /\ Client'.link = link' /\ Client'.state = state'
      /\ Client'.up = up' /\ Client'.down = down' /\ Client'.serving = serving'
  BY DEF Client
<1>3. CASE Opened
  <2>1. /\ link = "opening" /\ link' = "open" /\ Len(up') = 1 /\ up' # <<>>
        /\ UNCHANGED <<serving, sock>>
    BY <1>3, OpenedTyped
  <2>2. state' = state
    BY <1>3 DEF Opened
  <2>3. ~serving /\ ~sock.closed
    BY <1>1, <2>1 DEF LinkOK, Promising, TypeOK
  <2>4. Promising(Client)'
    BY <1>1, <1>2, <2>1, <2>2, <2>3 DEF Promising, Asks
  <2> QED
    BY <2>4 DEF InHand
<1>4. CASE Paint
  <2> DEFINE m == Head(writes)
  <2>1. /\ sock' = Acknowledged(sock, m)
        /\ state' = IF Last_(m) THEN "connected" ELSE state
        /\ UNCHANGED <<down, up, serving, link>>
    BY <1>4 DEF Paint, Last_
  <2> HIDE DEF m
  <2>2. /\ sock'.closed = sock.closed
        /\ ~Last_(m) => /\ sock'.awaiting = sock.awaiting /\ sock'.pending = sock.pending
                        /\ sock'.retryTimer = sock.retryTimer
                        /\ sock'.repairTimer = sock.repairTimer
    <3>1. sock \in Sockets
      BY DEF TypeOK
    <3> QED
      BY <2>1, <3>1 DEF Acknowledged, ResetSnapshotRepair, Sockets, Last_
  <2>3. Promising(Client)'
    BY <1>1, <1>2, <2>1, <2>2 DEF Promising, Asks
  <2> QED
    BY <2>3 DEF InHand
<1>5. CASE CacheScreen
  <2>1. UNCHANGED <<down, up, serving, link, sock, state>>
    BY <1>5 DEF CacheScreen
  <2> QED
    BY <2>1 DEF InHand, Promising, Asks, Client
<1>6. CASE Remount \/ Retry
  <2>1. PICK screen \in {cache, NoScreen} : Joined(screen)
    BY <1>6 DEF Remount, Retry, ReadScreens
  <2> DEFINE s == NewSocket(screen.last, screen.gen)
             c == [Client EXCEPT !.sock = s]
  <2>2. Becomes(Connecting(c))
    BY <2>1 DEF Joined
  <2>3. s \in Sockets /\ ~s.closed
    <3>1. screen.last \in Cursors /\ screen.gen \in 0 .. MaxGen \cup {None}
      BY NoScreenTyped DEF TypeOK, Screens
    <3> QED
      BY <3>1, ResumeBounds DEF NewSocket, Sockets
  <2> HIDE DEF s
  <2>4. c \in Clients /\ c.sock = s
    BY <1>1, <2>3 DEF Clients
  <2> HIDE DEF c
  <2> QED
    BY <2>2, <2>3, <2>4, ConnectingPromises, ConnectingFacts, BecomesPromising
<1> QED
  BY <1>3, <1>4, <1>5, <1>6

(***************************************************************************)
(* A pane that connects, repairs its screen or has lost its connection is  *)
(* never left with nothing to come: when nothing is under way, the         *)
(* reconnect timer or the repair timer of client.ts is set, or its         *)
(* liveness interval watches the repair.  A snapshot cut short, a request  *)
(* that is refused or lost with its link, an exhausted retry and a new     *)
(* socket all leave one of them.                                           *)
(***************************************************************************)
THEOREM PaneNeverForgotten == Spec => []NothingForgotten
<1>1. Init => InHand
  BY DEF Init, InHand, Promising, Asks, Client, NewSocket
<1>2. ASSUME IInv, InHand, [Next]_resumeVars
      PROVE  InHand'
  <2>1. TypeOK /\ LinkOK
    BY <1>2 DEF IInv
  <2>2. CASE UNCHANGED resumeVars
    BY <1>2, <2>2 DEF resumeVars, InHand, Promising, Asks, Client
  <2> QED
    BY <1>2, <2>1, <2>2, ServerPromises, IdlePromises, ReceivePromises, PanePromises
       DEF Next, Server, Browser
<1>3. IInv /\ InHand => NothingForgotten
  <2> SUFFICES ASSUME IInv, InHand, Quiet, state \in {"connecting", "resyncing", "disconnected"}
               PROVE  \/ sock.retryTimer \/ sock.repairTimer
                      \/ link = "open" /\ ~sock.closed /\ (sock.pending \/ sock.awaiting)
    BY DEF NothingForgotten
  <2>1. /\ Promising(Client)
        /\ Client.sock = sock /\ Client.link = link /\ Client.state = state
        /\ Client.up = up /\ Client.down = down /\ Client.serving = serving
    BY DEF Client, InHand
  <2>2. up = <<>> /\ down = <<>> /\ link \in {"none", "open"} /\ ~Answering(down)
    BY DEF IInv, TypeOK, Quiet, Answering
  <2> QED
    BY <2>1, <2>2 DEF Promising, Asks
<1> QED
  BY <1>1, <1>2, <1>3, ResumeInvariant, PTL DEF Spec
=============================================================================
