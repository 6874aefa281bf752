---------------------------- MODULE ResumeProtocol ----------------------------
(***************************************************************************)
(* How a browser pane follows one session: TerminalSocket in               *)
(* web/src/protocol/client.ts, the write queue and the screen cache of     *)
(* TerminalPane.vue, protocol/cache.ts, and what the server answers        *)
(* (attach_v2 and resync).                                                 *)
(*                                                                         *)
(* The server's outbound queue and the network are one ordered link that   *)
(* may shed its oldest terminal frame or break.  A frame received is       *)
(* queued for the terminal and acknowledged when painted; control messages *)
(* act when received.  A browser callback is one action.                   *)
(***************************************************************************)
EXTENDS Integers, Sequences, SequencesExt

CONSTANTS
  Ring,       \* bytes of output the server keeps
  MaxRetries, \* MAX_SNAPSHOT_RETRIES
  MaxEnd,     \* bound: bytes the session writes in one generation
  MaxGen,     \* bound: generations (server restarts) of the session
  MaxEvents   \* bound: frames shed, breaks, early timeouts, rejections, repairs
              \* asked for, exits, server restarts and new sockets, together

ASSUME ResumeBounds ==
  /\ Ring \in Nat \ {0} /\ MaxRetries \in Nat \ {0} /\ MaxEnd \in Nat
  /\ MaxGen \in Nat /\ MaxEvents \in Nat

VARIABLES
  stream,   \* the session on the server: generation, first byte kept, end
  down,     \* messages on their way to the browser
  up,       \* messages on their way to the server
  serving,  \* the server has attached this connection
  link,     \* the WebSocket: "none", "opening" or "open"
  sock,     \* the fields of TerminalSocket
  state,    \* the connection state the pane shows
  writes,   \* the pane's write queue
  shown,    \* bytes the terminal's screen accounts for
  desync,   \* the pane's desync bar is up
  cache,    \* the persisted screen
  events,   \* events so far
  \* History, read by the properties only:
  origin,   \* the generation of the frame that set the cursor
  skipped   \* a loss was not reported, or only behind a frame that survived it;
            \* a snapshot or a replay was torn while queued; the cursor of one
            \* generation was kept for the next; a snapshot was painted after
            \* a newer loss was known; a replay clears a screen that the
            \* cursor still vouches for; or a retry took the cursor of a
            \* cached screen that the terminal no longer shows

resumeVars == <<stream, down, up, serving, link, sock, state, writes, shown,
                desync, cache, events, origin, skipped>>

None == -1

\* A wire message: a terminal frame covers the bytes from .. to - 1, a snapshot
\* is anchored at to; flag is FLAG_LAST or incomplete; gen is the generation.
Kinds == {"data", "snapshot", "clear", "attached", "gap", "begin", "resynced",
          "rejected", "exit"}
Messages == [type : Kinds, gen : 0 .. MaxGen, from : 0 .. MaxEnd, to : 0 .. MaxEnd,
             flag : BOOLEAN]
Message(type, from, to, flag) ==
  [type |-> type, gen |-> stream.gen, from |-> from, to |-> to, flag |-> flag]
Terminal(m) == m.type \in {"data", "snapshot", "clear"}

Cursors == 0 .. MaxEnd \cup {None}
Calls == [type : {"attach", "request"}, last : Cursors, gen : 0 .. MaxGen \cup {None}]
Sockets == [last : Cursors, gen : 0 .. MaxGen \cup {None},
            awaiting : BOOLEAN, pending : BOOLEAN,
            attempts : 0 .. MaxRetries, repairTimer : BOOLEAN,
            retryTimer : BOOLEAN, closed : BOOLEAN]
Screens == [gen : 0 .. MaxGen \cup {None}, last : Cursors,
            shown : SUBSET ((0 .. MaxGen) \X (0 .. MaxEnd - 1))]

NewSocket(last, gen) ==
  [last |-> last, gen |-> gen, awaiting |-> FALSE, pending |-> FALSE,
   attempts |-> 0, repairTimer |-> FALSE, retryTimer |-> FALSE, closed |-> FALSE]
\* What is read once clearScreen or clearAllScreens has run.
NoScreen == [gen |-> None, last |-> None, shown |-> {}]

Init ==
  /\ stream = [gen |-> 0, base |-> 0, end |-> 0]
  /\ down = <<>> /\ up = <<>> /\ serving = FALSE
  /\ link = "opening" /\ sock = NewSocket(None, None) /\ state = "connecting"
  /\ writes = <<>> /\ shown = {} /\ desync = FALSE
  /\ cache = NoScreen
  /\ events = 0
  /\ origin = None /\ skipped = FALSE

Happens == events < MaxEvents /\ events' = events + 1

-----------------------------------------------------------------------------
(***************************************************************************)
(* The server.                                                             *)
(***************************************************************************)
Frame(from, to) ==
  IF from = to THEN <<>> ELSE <<Message("data", from, to, FALSE)>>
Screen == <<Message("snapshot", 0, stream.end, FALSE),
            Message("snapshot", 0, stream.end, TRUE)>>
RawReplay == <<Message("clear", 0, 0, FALSE)>> \o Frame(stream.base, stream.end)

\* Output reaches the ring, and an attached viewer.  (A later generation is
\* bounded to fewer bytes.)
Produce ==
  /\ stream.end + stream.gen < MaxEnd
  /\ LET end == stream.end + 1
     IN stream' = [stream EXCEPT !.end = end,
                     !.base = IF end - @ > Ring THEN end - Ring ELSE @]
  /\ down' = IF serving THEN down \o Frame(stream.end, stream.end + 1) ELSE down
  /\ UNCHANGED <<up, serving, link, sock, state, writes, shown, desync, cache,
                 events, origin, skipped>>

Gap == <<Message("gap", 0, 0, FALSE)>>
ReportedIn(ms) == \E j \in DOMAIN ms : ms[j].type = "gap"
\* What a loss leaves of the link, reported behind everything that is queued.
Announced(rest, reported) ==
  IF reported /\ ~ReportedIn(rest) THEN rest \o Gap ELSE rest

\* The outbound queue gives up its oldest frame, a snapshot as a whole.  The
\* gap is not reported when the queue was emptied inside an escape sequence, or
\* again in a burst whose gap was already sent.
Shed ==
  /\ Happens
  /\ \E i \in DOMAIN down, reported \in BOOLEAN :
       /\ Terminal(down[i]) /\ \A j \in 1 .. i - 1 : ~Terminal(down[j])
       /\ LET next == IF down[i].type = "snapshot" /\ ~down[i].flag THEN i + 2 ELSE i + 1
              rest == SubSeq(down, 1, i - 1) \o SubSeq(down, next, Len(down))
              survives == \E j \in next .. Len(down) :
                            down[j].type \in {"data", "attached", "resynced"}
          IN /\ down' = Announced(rest, reported)
             /\ skipped' = (skipped \/ survives \/ ~(reported \/ ReportedIn(rest)))
  /\ UNCHANGED <<stream, up, serving, link, sock, state, writes, shown, desync,
                 cache, origin>>

\* A run of frames that began inside an escape sequence ends with the first
\* chunk of the snapshot behind it, not with the whole snapshot.
Tear ==
  /\ Happens
  /\ \E i, k \in DOMAIN down, reported \in BOOLEAN :
       /\ i < k /\ down[i].type = "data"
       /\ down[k].type = "snapshot" /\ ~down[k].flag
       /\ \A j \in 1 .. k - 1 : Terminal(down[j]) => j = i
       /\ down' = Announced(RemoveAt(RemoveAt(down, k), i), reported)
  /\ skipped' = TRUE
  /\ UNCHANGED <<stream, up, serving, link, sock, state, writes, shown, desync,
                 cache, origin>>

ResumeOK(call) ==
  /\ call.last # None /\ call.gen = stream.gen
  /\ stream.base <= call.last /\ call.last <= stream.end

\* attach_v2: the delta behind the cursor, a screen, or - none could be
\* captured or queued - a cleared replay.
ServeAttach(answer) ==
  /\ up # <<>> /\ Head(up).type = "attach"
  /\ (answer = "delta") = ResumeOK(Head(up))
  /\ down' = down \o
       (CASE answer = "delta" -> Frame(Head(up).last, stream.end)
          [] answer = "screen" -> Screen
          [] answer = "raw" -> RawReplay) \o
       <<Message("attached", 0, 0, FALSE)>>
  /\ serving' = TRUE
  /\ up' = Tail(up)
  /\ UNCHANGED <<stream, link, sock, state, writes, shown, desync, cache, events,
                 origin, skipped>>

\* resync, or the rate limit of send_snapshot.
ServeRequest ==
  /\ serving /\ up # <<>> /\ Head(up).type = "request"
  /\ LET missing == Head(up).last # None /\ Head(up).last < stream.base
     IN \/ /\ \/ down' = down \o <<Message("begin", 0, 0, FALSE)>> \o Screen
                           \o <<Message("resynced", 0, 0, FALSE)>>
              \/ down' = down \o <<Message("begin", 0, 0, FALSE)>> \o RawReplay
                           \o <<Message("resynced", 0, 0, missing)>>
           /\ UNCHANGED events
        \/ /\ Happens
           /\ down' = Append(down, Message("rejected", 0, 0, FALSE))
  /\ up' = Tail(up)
  /\ UNCHANGED <<stream, serving, link, sock, state, writes, shown, desync, cache,
                 origin, skipped>>

\* Where the replay for the oldest call begins.
ReplayFrom ==
  IF Head(up).type = "attach" /\ ResumeOK(Head(up)) THEN Head(up).last ELSE stream.base

\* The oldest call is answered with what is left of its replay.
Reply(kept, incomplete) ==
  /\ serving \/ Head(up).type = "attach"
  /\ up' = Tail(up)
  /\ serving' = TRUE
  /\ down' = IF Head(up).type = "attach"
             THEN (down \o kept) \o <<Message("attached", 0, 0, incomplete)>>
             ELSE ((down \o <<Message("begin", 0, 0, FALSE)>>) \o kept)
                    \o <<Message("resynced", 0, 0, incomplete)>>
  /\ UNCHANGED <<stream, link, sock, state, writes, shown, desync, cache, origin>>

\* The queue sheds the front of a replay, its clear included, to make room for
\* the rest, and reports the gap in front of all that is left.
ServeCut ==
  /\ Happens
  /\ up # <<>>
  /\ \E first \in ReplayFrom + 1 .. stream.end :
       Reply(Gap \o Frame(first, stream.end), TRUE)
  /\ UNCHANGED skipped

\* Or it reports the gap only behind frames that outlive it, or never (a clear
\* alone is no part of the stream).
Torn ==
  {Frame(first, last) \o Gap \o Frame(last, stream.end) :
     first \in ReplayFrom + 1 .. stream.end, last \in ReplayFrom + 1 .. stream.end} \cup
  {Frame(first, stream.end) : first \in ReplayFrom .. stream.end}

\* Or a resync gives up older frames for its screen, which is then queued in
\* front of the replay that replaces it.
ServeTorn ==
  /\ Happens
  /\ up # <<>>
  /\ \E incomplete \in BOOLEAN :
       \/ \E kept \in Torn : Reply(kept, incomplete)
       \/ Head(up).type = "request" /\ Reply(Screen \o RawReplay, incomplete)
  /\ skipped' = TRUE

\* The shell exits: the viewer is told.
Exit ==
  /\ serving
  /\ down # <<>> => Last(down).type # "exit"
  /\ Happens
  /\ down' = Append(down, Message("exit", 0, 0, FALSE))
  /\ UNCHANGED <<stream, up, serving, link, sock, state, writes, shown, desync,
                 cache, origin, skipped>>

-----------------------------------------------------------------------------
(***************************************************************************)
(* TerminalSocket: connecting, repairing, giving up.  An operator on a     *)
(* client value returns the fields a method changes.                       *)
(***************************************************************************)
Client == [sock |-> sock, state |-> state, link |-> link, up |-> up,
           down |-> down, serving |-> serving]

Becomes(c) ==
  /\ sock' = c.sock /\ state' = c.state /\ link' = c.link
  /\ up' = c.up /\ down' = c.down /\ serving' = c.serving

\* The socket is gone, with whatever was under way in either direction.
Unlinked(c) ==
  [c EXCEPT !.link = "none", !.up = <<>>, !.down = <<>>, !.serving = FALSE]

Connecting(c) ==
  IF c.sock.closed THEN c
  ELSE [Unlinked(c) EXCEPT !.link = "opening", !.state = "connecting"]

ScheduleReconnect(c) ==
  IF c.sock.closed THEN c ELSE [c EXCEPT !.sock.retryTimer = TRUE]

Restart(c) ==
  IF c.sock.closed THEN c
  ELSE ScheduleReconnect([Unlinked(c) EXCEPT !.state = "disconnected"])

ResetSnapshotRepair(s) == [s EXCEPT !.repairTimer = FALSE, !.attempts = 0]

\* The retries are not counted against their cap.
RetriesUncapped(c) ==
  IF c.sock.closed \/ c.sock.repairTimer \/ ~c.sock.awaiting THEN c
  ELSE [c EXCEPT !.sock.attempts = @ + 1, !.sock.repairTimer = TRUE]

ScheduleSnapshotRetry(c) ==
  IF c.sock.closed \/ c.sock.repairTimer \/ ~c.sock.awaiting THEN c
  ELSE IF c.sock.attempts >= MaxRetries THEN Restart(c)
  ELSE [c EXCEPT !.sock.attempts = @ + 1, !.sock.repairTimer = TRUE]

RequestSnapshot(c) ==
  IF c.sock.closed THEN c
  ELSE LET call == [type |-> "request", last |-> c.sock.last, gen |-> None]
       IN ScheduleSnapshotRetry(
            [c EXCEPT !.sock.awaiting = TRUE, !.state = "resyncing",
                      !.up = IF c.link = "open" THEN Append(@, call) ELSE @])

\* onopen: attach from the cursor, unless the screen has a gap.
Opened ==
  /\ link = "opening"
  /\ link' = "open"
  /\ up' = <<[type |-> "attach", gen |-> sock.gen,
              last |-> IF sock.awaiting THEN None ELSE sock.last]>>
  /\ UNCHANGED <<stream, down, serving, sock, state, writes, shown, desync, cache,
                 events, origin, skipped>>

\* onclose: retried with backoff, or given up for a fatal code.
LinkBreaks(fatal) ==
  /\ link # "none"
  /\ Happens
  /\ Becomes(IF fatal THEN [Unlinked(Client) EXCEPT !.state = "failed"]
             ELSE ScheduleReconnect([Unlinked(Client) EXCEPT !.state = "disconnected"]))
  /\ UNCHANGED <<stream, writes, shown, desync, cache, origin, skipped>>

\* The reconnect timer fires, or the browser comes online first.
Reconnect ==
  /\ sock.retryTimer
  /\ Becomes(Connecting([Client EXCEPT !.sock.retryTimer = FALSE]))
  /\ UNCHANGED <<stream, writes, shown, desync, cache, events, origin, skipped>>

\* Nothing is under way that would still answer.
Quiet == up = <<>> /\ down = <<>> /\ writes = <<>> /\ link # "opening"

\* A timer: after the answer has had its time, or early (a fault).
Due == IF Quiet THEN UNCHANGED events ELSE Happens

SnapshotTimer ==
  /\ sock.repairTimer
  /\ Due
  /\ LET fired == [Client EXCEPT !.sock.repairTimer = FALSE]
     IN Becomes(IF sock.closed \/ ~sock.awaiting THEN fired
                ELSE ScheduleSnapshotRetry(RequestSnapshot(fired)))
  /\ UNCHANGED <<stream, writes, shown, desync, cache, origin, skipped>>

\* Only a known loss is watched, not a snapshot that never ends.
LossWatched ==
  /\ link = "open" /\ ~sock.closed
  /\ sock.awaiting
  /\ Due
  /\ Becomes(RequestSnapshot(Client))
  /\ UNCHANGED <<stream, writes, shown, desync, cache, origin, skipped>>

\* The liveness interval: no repair chunk has moved for ten seconds.
LivenessCheck ==
  /\ link = "open" /\ ~sock.closed
  /\ sock.pending \/ sock.awaiting
  /\ Due
  /\ Becomes(RequestSnapshot(Client))
  /\ UNCHANGED <<stream, writes, shown, desync, cache, origin, skipped>>

\* The liveness interval: ninety seconds without a message.
Unresponsive ==
  /\ link # "none" /\ ~sock.closed
  /\ Happens
  /\ Becomes(Restart(Client))
  /\ UNCHANGED <<stream, writes, shown, desync, cache, origin, skipped>>

\* A repaint from the menu, the desync bar, or a lost GPU context.
AskForSnapshot ==
  /\ ~sock.closed /\ Len(up) < 2
  /\ Happens
  /\ Becomes(RequestSnapshot(Client))
  /\ UNCHANGED <<stream, writes, shown, desync, cache, origin, skipped>>

-----------------------------------------------------------------------------
(***************************************************************************)
(* Receiving.                                                              *)
(***************************************************************************)
\* A resume from this cursor would be answered with the delta behind it.
Resumable(last, gen) == last # None /\ gen = stream.gen /\ last >= stream.base

Received == [Client EXCEPT !.down = Tail(@)]
Incoming(type) == link = "open" /\ down # <<>> /\ Head(down).type = type

\* handleData: queued for the terminal.
ReceiveFrame ==
  /\ link = "open" /\ down # <<>> /\ Terminal(Head(down))
  /\ writes' = Append(writes, Head(down))
  /\ Becomes(IF Head(down).type = "snapshot"
             THEN [Received EXCEPT !.sock.pending = TRUE, !.state = "resyncing"]
             ELSE Received)
  /\ skipped' = (skipped \/ (/\ Head(down).type = "clear" /\ ~sock.awaiting
                             /\ Resumable(sock.last, sock.gen)))
  /\ UNCHANGED <<stream, shown, desync, cache, events, origin>>

\* A loss is known: wait for a snapshot and ask for one.
Repair(c) ==
  ScheduleSnapshotRetry(RequestSnapshot([c EXCEPT !.sock.awaiting = TRUE,
                                                  !.sock.pending = FALSE]))
Whole(c) ==
  IF c.sock.pending THEN c
  ELSE [c EXCEPT !.sock = ResetSnapshotRepair([@ EXCEPT !.awaiting = FALSE]),
                 !.state = "connected"]

ReceiveAttached ==
  /\ Incoming("attached")
  /\ LET gen == Head(down).gen
         named == [Received EXCEPT !.sock.gen = gen]
     IN /\ Becomes(IF Head(down).flag THEN Repair(named) ELSE Whole(named))
        /\ skipped' = (skipped \/ (sock.last # None /\ origin # gen))
  /\ UNCHANGED <<stream, writes, shown, desync, cache, events, origin>>

ReceiveGap ==
  /\ Incoming("gap")
  /\ Becomes(Repair(Received))
  /\ desync' = TRUE
  /\ UNCHANGED <<stream, writes, shown, cache, events, origin, skipped>>

ReceiveBegin ==
  /\ Incoming("begin")
  /\ Becomes([Received EXCEPT !.sock.awaiting = TRUE, !.sock.pending = FALSE,
                              !.state = "resyncing"])
  /\ UNCHANGED <<stream, writes, shown, desync, cache, events, origin, skipped>>

ReceiveResynced ==
  /\ Incoming("resynced")
  /\ Becomes(IF Head(down).flag THEN Repair(Received) ELSE Whole(Received))
  /\ desync' = (desync /\ Head(down).flag)
  /\ UNCHANGED <<stream, writes, shown, cache, events, origin, skipped>>

ReceiveRejected ==
  /\ Incoming("rejected")
  /\ Becomes(ScheduleSnapshotRetry(
       [Received EXCEPT !.state = IF sock.awaiting THEN "resyncing" ELSE "connected"]))
  /\ UNCHANGED <<stream, writes, shown, desync, cache, events, origin, skipped>>

\* exit: the server closes right after.
ReceiveExit ==
  /\ Incoming("exit")
  /\ Becomes([Unlinked(Client) EXCEPT !.sock.closed = TRUE, !.state = "exited"])
  /\ UNCHANGED <<stream, writes, shown, desync, cache, events, origin, skipped>>

-----------------------------------------------------------------------------
(***************************************************************************)
(* The pane: painting, caching, mounting.                                  *)
(***************************************************************************)
Bytes(gen, from, to) == {gen} \X (from .. to - 1)

\* A replay and a whole snapshot clear the terminal before they write.
Resets(m) == m.type = "clear" \/ (m.type = "snapshot" /\ m.flag)
Carries(m) ==
  CASE m.type = "data" -> Bytes(m.gen, m.from, m.to)
    [] m.type = "snapshot" /\ m.flag -> Bytes(m.gen, 0, m.to)
    [] OTHER -> {}

\* What the terminal shows once a frame is painted.
Painted(screen, m) == (IF Resets(m) THEN {} ELSE screen) \cup Carries(m)

\* advanceSeq for a frame of the stream itself.
AdvanceSeq(last, to) == IF last = None \/ last < to THEN to ELSE last

\* A live frame moves the cursor while a repair is under way.
AcknowledgedAnyway(s, m) ==
  IF m.type = "data" THEN [s EXCEPT !.last = AdvanceSeq(@, m.to)] ELSE s

\* The ack callback of one frame, on the socket it came through.
Acknowledged(s, m) ==
  CASE m.type = "snapshot" /\ m.flag ->
         ResetSnapshotRepair([s EXCEPT !.last = m.to, !.awaiting = FALSE, !.pending = FALSE])
    [] m.type = "data" /\ ~s.awaiting -> [s EXCEPT !.last = AdvanceSeq(@, m.to)]
    [] OTHER -> s

\* flushWrites: xterm has parsed the oldest frame and calls back.
Paint ==
  /\ writes # <<>>
  /\ LET m == Head(writes)
         whole == m.type = "snapshot" /\ m.flag
         sets == whole \/ sock'.last # sock.last
         newer == \E n \in Range(Tail(writes)) : n.type = "snapshot"
         cleared == \E n \in Range(Tail(writes) \o down) : n.type = "clear"
     IN /\ shown' = Painted(shown, m)
        /\ sock' = Acknowledged(sock, m)
        /\ state' = IF whole THEN "connected" ELSE state
        /\ skipped' = (\/ skipped
                       \/ whole /\ sock.awaiting /\ (newer \/ ~sock.pending)
                       \/ sets /\ sock.gen \notin {None, m.gen}
                       \/ cleared /\ ~sock'.awaiting /\ Resumable(sock'.last, sock'.gen))
        /\ origin' = IF sets THEN m.gen ELSE origin
  /\ writes' = Tail(writes)
  /\ UNCHANGED <<stream, down, up, serving, link, desync, cache, events>>

\* The screen is cached while a gap is being repaired.
CacheGapped ==
  /\ writes = <<>>
  /\ sock.gen # None
  /\ LET screen == [gen |-> sock.gen, shown |-> shown,
                    last |-> IF sock.last = None THEN 0 ELSE sock.last]
     IN cache # screen /\ cache' = screen
  /\ UNCHANGED <<stream, down, up, serving, link, sock, state, writes, shown,
                 desync, events, origin, skipped>>

\* The cache timer, once nothing was painted for a while.
CacheScreen ==
  /\ writes = <<>>
  /\ sock.gen # None /\ ~desync /\ ~sock.awaiting
  /\ LET screen == [gen |-> sock.gen, shown |-> shown,
                    last |-> IF sock.last = None THEN 0 ELSE sock.last]
     IN cache # screen /\ cache' = screen
  /\ UNCHANGED <<stream, down, up, serving, link, sock, state, writes, shown,
                 desync, events, origin, skipped>>

\* readScreen finds the entry, or finds it too old or no longer there.
ReadScreens == {cache, NoScreen}

\* connect of the pane: a new socket, from the cached cursor.
Joined(screen) ==
  /\ Becomes(Connecting([Client EXCEPT !.sock = NewSocket(screen.last, screen.gen)]))
  /\ writes' = <<>>
  /\ desync' = FALSE
  /\ cache' = screen /\ origin' = screen.gen
  /\ UNCHANGED stream

\* The pane is unmounted with its tab and mounted again: a new terminal shows
\* the cached screen.
Remount ==
  /\ Happens
  /\ \E screen \in ReadScreens : Joined(screen) /\ shown' = screen.shown
  /\ UNCHANGED skipped

\* The retry button of a failed pane: the terminal keeps what it shows.
Retry ==
  /\ state = "failed"
  /\ Happens
  /\ \E screen \in ReadScreens :
       /\ Joined(screen)
       /\ skipped' = (skipped \/ ~ screen.shown \subseteq shown)
  /\ UNCHANGED shown

\* The server restarts and adopts the session: a new stream from nothing.
Regenerate ==
  /\ stream.gen < MaxGen
  /\ Happens
  /\ stream' = [gen |-> stream.gen + 1, base |-> 0, end |-> 0]
  /\ Becomes(IF link = "none" THEN Client
             ELSE ScheduleReconnect([Unlinked(Client) EXCEPT !.state = "disconnected"]))
  /\ UNCHANGED <<writes, shown, desync, cache, origin, skipped>>

-----------------------------------------------------------------------------
Answers == {"delta", "screen", "raw"}

Server == \/ Produce \/ Shed \/ Tear \/ (\E answer \in Answers : ServeAttach(answer))
          \/ ServeRequest \/ ServeCut \/ ServeTorn \/ Exit \/ Regenerate

Receive == \/ ReceiveFrame \/ ReceiveAttached \/ ReceiveGap \/ ReceiveBegin
           \/ ReceiveResynced \/ ReceiveRejected \/ ReceiveExit

Browser == \/ Opened \/ Reconnect \/ SnapshotTimer \/ LivenessCheck \/ Unresponsive
           \/ AskForSnapshot \/ Receive \/ Paint \/ CacheScreen \/ Remount \/ Retry

Next == Server \/ Browser \/ \E fatal \in BOOLEAN : LinkBreaks(fatal)

\* The server answers, the link delivers, timers fire and the browser paints;
\* nothing obliges the link to break or anybody to ask for anything.
Spec ==
  /\ Init /\ [][Next]_resumeVars
  /\ WF_resumeVars(ServeRequest \/ \E answer \in Answers : ServeAttach(answer))
  /\ WF_resumeVars(Opened) /\ WF_resumeVars(Reconnect)
  /\ WF_resumeVars(SnapshotTimer /\ Quiet) /\ WF_resumeVars(LivenessCheck /\ Quiet)
  /\ WF_resumeVars(Receive) /\ WF_resumeVars(Paint)

\* A session whose screen can be captured: not every attach is answered by a
\* raw replay.
CapturedSpec == Spec /\ SF_resumeVars(ServeAttach("screen"))

-----------------------------------------------------------------------------
\* Every variable holds a value of its type.
TypeOK ==
  /\ stream \in [gen : 0 .. MaxGen, base : 0 .. MaxEnd, end : 0 .. MaxEnd]
  /\ down \in Seq(Messages) /\ up \in Seq(Calls) /\ writes \in Seq(Messages)
  /\ serving \in BOOLEAN /\ desync \in BOOLEAN /\ skipped \in BOOLEAN
  /\ link \in {"none", "opening", "open"}
  /\ sock \in Sockets
  /\ state \in {"connecting", "connected", "resyncing", "disconnected", "failed", "exited"}
  /\ shown \in SUBSET ((0 .. MaxGen) \X (0 .. MaxEnd - 1))
  /\ cache \in Screens
  /\ events \in 0 .. MaxEvents

\* What a screen shows once the first n of the messages ms are painted: what no
\* message behind it clears away.
ScreenAfter(screen, ms, n) ==
  {byte \in screen : \A i \in 1 .. n : ~Resets(ms[i])} \cup
  UNION {{byte \in Carries(ms[j]) : \A i \in j + 1 .. n : ~Resets(ms[i])} : j \in 1 .. n}

\* The screen once everything in the write queue is painted.
Eventual == ScreenAfter(shown, writes, Len(writes))

Honest == Resumable(sock.last, sock.gen) /\ ~sock.awaiting =>
            Bytes(stream.gen, stream.base, sock.last) \subseteq Eventual

(***************************************************************************)
(* The resume cursor claims only what the terminal shows or has queued:    *)
(* losses reported in time, replays cut to fit, breaks, early timeouts,    *)
(* repairs, remounts and a stale cache never make the server skip a byte - *)
(* as long as nothing of what skipped lists has happened: above all, no    *)
(* loss went unreported or was outlived by a frame in front of its report. *)
(***************************************************************************)
CursorIsPainted == ~skipped => Honest

(***************************************************************************)
(* The same of the persisted screen: a reload never resumes behind bytes   *)
(* the serialized screen lacks.                                            *)
(***************************************************************************)
CacheIsPainted ==
  ~skipped /\ Resumable(cache.last, cache.gen) =>
    Bytes(stream.gen, stream.base, cache.last) \subseteq cache.shown

(***************************************************************************)
(* CHANGELOG.md: only offsets rendered contiguously enter the resume       *)
(* cursor, and after a gap it waits for a snapshot.  Asked of losses that  *)
(* are reported only: the gap is on its way.                               *)
(***************************************************************************)
CursorContiguous == ReportedIn(down) => Honest

(***************************************************************************)
(* Once nothing goes wrong any more, a pane that is connecting, repairing  *)
(* or disconnected gets a whole screen, or is told why it cannot have one: *)
(* snapshots cut short, requests refused or lost with their link and       *)
(* chunks left over from an older link never leave it waiting for ever.    *)
(***************************************************************************)
PaneSettles ==
  state \in {"connecting", "resyncing", "disconnected"} ~>
    state \in {"connected", "failed", "exited"}
=============================================================================
