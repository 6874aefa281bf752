------------------------------ MODULE TerminalPane ------------------------------
(***************************************************************************)
(* One mounted pane of the page, TerminalPane.vue: it mounts, connects and *)
(* reconnects its socket, paints what arrives, keeps the command blocks,   *)
(* lends the stream to ZMODEM, is bound to another session and unmounts.   *)
(* Every await splits a handler: the rest of it runs later, whatever       *)
(* happened meanwhile.  `screen` is about bytes of the session the pane is *)
(* bound to.                                                               *)
(*                                                                         *)
(* ResumeProtocol models what the socket and the server say to each other; *)
(* here the socket reports any state it can be in.  A socket is named by   *)
(* the connectEpoch that opened it.  Search, copying, themes and layout    *)
(* are left out.                                                           *)
(***************************************************************************)
EXTENDS Naturals, Sequences, FiniteSets

CONSTANTS
  MaxConnects,  \* bound: calls of connect()
  MaxFrames,    \* bound: frames waiting or being parsed
  MaxTransfers, \* bound: ZMODEM sessions
  Commands,     \* commands of the shell, as the numbers 1 .. n
  MaxListed,    \* command blocks the gutter keeps (500)
  MaxIncidents  \* bound: hidings, gaps and losses of the GPU, or sentries, or commands

ASSUME PaneBounds ==
  /\ MaxConnects \in Nat \ {0} /\ MaxFrames \in Nat \ {0}
  /\ MaxTransfers \in Nat /\ MaxListed \in Nat \ {0} /\ MaxIncidents \in Nat
  /\ Commands = 1 .. Cardinality(Commands) /\ IsFiniteSet(Commands)

VARIABLES
  mounting,        \* how far onMounted has got
  gone,            \* onBeforeUnmount has run
  bound,           \* sessionId is set
  connectEpoch,
  reads,           \* connects that await readScreen
  cached,          \* there is a persisted screen of the session
  screen,          \* what the terminal shows
  screenHydrated,
  socket,          \* NoSocket or the socket's name
  openSockets,     \* sockets opened and not closed
  connectionState,
  errorText,
  desync,          \* desyncFrom is set
  writeQueue,      \* frames waiting
  parsing,         \* calls of term.write whose callback is due
  flushBy,         \* what will call flushWrites
  hidden,          \* document.visibilityState
  renderer,
  sentry,          \* NoSentry, or the socket the sentry was made for
  importing,       \* calls of toggleZmodem that await zmodem.js
  zmodemActive,
  zmodemTimer,     \* the watchdog: off, armed, or with its 20 s over
  transfers,       \* the ZMODEM sessions so far
  shell,           \* the command that runs or ran last, and whether it runs
  pendingMarker,   \* 0 or the command whose start it marks
  markerByBlock,   \* blocks with a marker
  commands,        \* terminalStore.commands of the session, oldest first
  agenda,          \* bound: a behaviour has incidents of one kind
  incidents        \* how many incidents there were

paneVars == <<mounting, gone, bound, connectEpoch, reads, cached, screen, screenHydrated, socket,
              openSockets, connectionState, errorText, desync, writeQueue, parsing, flushBy,
              hidden, renderer, sentry, importing, zmodemActive, zmodemTimer, transfers,
              shell, pendingMarker, markerByBlock, commands, agenda, incidents>>
mountVars   == <<mounting, gone, bound, agenda>>
connectVars == <<connectEpoch, reads, screenHydrated, socket, openSockets>>
socketVars  == <<connectionState, errorText, desync>>
writeVars   == <<writeQueue, parsing, flushBy>>
zmodemVars  == <<sentry, importing, zmodemActive, zmodemTimer, transfers>>
blockVars   == <<shell, pendingMarker, markerByBlock, commands>>

NoSocket == 0
NoSentry == MaxConnects + 1
Epochs == 1 .. MaxConnects
ConnectionStates ==
  {"idle", "connecting", "connected", "resyncing", "disconnected", "failed", "exited"}

Incident(kind) ==
  /\ kind = agenda /\ incidents < MaxIncidents
  /\ incidents' = incidents + 1
HasTerm == mounting # "new" /\ ~gone

-----------------------------------------------------------------------------
(* Painting.                                                               *)

\* The flush that is due after one that fired (or none) left f, with q frames.
scheduleFlush(f, q) ==
  IF f # "none" \/ q = 0 THEN f ELSE IF hidden THEN "timer" ELSE "frame"

\* Live bytes on the terminal; a persisted screen written on top of them.
Painted == IF screen = "doubled" THEN "doubled" ELSE "live"
Restored == IF screen \in {"live", "doubled"} THEN "doubled" ELSE "restored"

\* enqueueWrite, for a frame the socket hands over.
EnqueueWrite ==
  /\ HasTerm /\ socket # NoSocket /\ connectionState \in {"connected", "resyncing"}
  /\ sentry = NoSentry
  /\ agenda = "paint" /\ writeQueue + parsing < MaxFrames
  /\ writeQueue' = writeQueue + 1
  /\ flushBy' = scheduleFlush(flushBy, writeQueue')
  /\ UNCHANGED <<mountVars, connectVars, socketVars, zmodemVars, blockVars, cached,
                 screen, parsing, hidden, renderer, incidents>>

\* flushWrites: one batch, of one frame or more.  The browser runs animation
\* frames for a visible page only.
flushWrites ==
  /\ HasTerm
  /\ flushBy = "timer" \/ (flushBy = "frame" /\ ~hidden)
  /\ flushBy' = "none"
  /\ \E n \in 1 .. writeQueue : writeQueue' = writeQueue - n
  /\ parsing' = parsing + 1
  /\ screen' = Painted
  /\ UNCHANGED <<mountVars, connectVars, socketVars, zmodemVars, blockVars, cached,
                 hidden, renderer, incidents>>

\* The callback looks for nothing more.
WrittenOnce ==
  /\ HasTerm /\ parsing > 0
  /\ parsing' = parsing - 1
  /\ UNCHANGED <<mountVars, connectVars, socketVars, zmodemVars, blockVars, cached,
                 screen, writeQueue, flushBy, hidden, renderer, incidents>>

\* The callback of term.write acknowledges the batch and looks for more.
Written ==
  /\ HasTerm /\ parsing > 0
  /\ parsing' = parsing - 1
  /\ flushBy' = scheduleFlush(flushBy, writeQueue)
  /\ UNCHANGED <<mountVars, connectVars, socketVars, zmodemVars, blockVars, cached,
                 screen, writeQueue, hidden, renderer, incidents>>

\* The user turns to another browser tab, or comes back.
Hide ==
  /\ ~hidden /\ Incident("paint")
  /\ hidden' = TRUE
  /\ UNCHANGED <<mountVars, connectVars, socketVars, writeVars, zmodemVars, blockVars,
                 cached, screen, renderer>>
Show ==
  /\ hidden
  /\ hidden' = FALSE
  /\ UNCHANGED <<mountVars, connectVars, socketVars, writeVars, zmodemVars, blockVars,
                 cached, screen, renderer, incidents>>

\* The timer of scheduleCache.  Its guards are ResumeProtocol's subject.
scheduleCache ==
  /\ HasTerm /\ socket # NoSocket /\ screen = "live"
  /\ connectionState = "connected" /\ ~desync
  /\ ~cached /\ cached' = TRUE
  /\ UNCHANGED <<mountVars, connectVars, socketVars, writeVars, zmodemVars, blockVars,
                 screen, hidden, renderer, incidents>>

-----------------------------------------------------------------------------
(* The renderer.                                                           *)

\* attachRenderer and attachCanvasRenderer: WebGL may be refused.
attachRenderer == renderer' \in {"webgl", "canvas", "builtin"}

\* socket.requestSnapshot: the socket repairs the screen.
requestSnapshot ==
  IF socket = NoSocket \/ connectionState \in {"failed", "exited"}
  THEN UNCHANGED connectionState
  ELSE connectionState' = "resyncing"

\* onContextLoss.
ContextLoss ==
  /\ HasTerm /\ renderer = "webgl" /\ Incident("paint")
  /\ renderer' \in {"canvas", "builtin"}
  /\ requestSnapshot
  /\ UNCHANGED <<mountVars, connectVars, errorText, desync, writeVars,
                 zmodemVars, blockVars, cached, screen, hidden>>

\* The button of the desync bar, and "repaint" of the context menu.
Resynchronise ==
  /\ HasTerm /\ desync /\ connectionState # "resyncing"
  /\ requestSnapshot
  /\ UNCHANGED <<mountVars, connectVars, errorText, desync, writeVars,
                 zmodemVars, blockVars, cached, screen, hidden, renderer, incidents>>

-----------------------------------------------------------------------------
(* ZMODEM.  A session is picking a file, sending or receiving, or over; it *)
(* is stray once the sentry that fed it is dropped.                        *)

InStage(t, stages) == t \in DOMAIN transfers /\ transfers[t].stage \in stages
MayDetect == \A t \in DOMAIN transfers : transfers[t].stray \/ transfers[t].stage = "over"
Strays == [t \in DOMAIN transfers |-> [transfers[t] EXCEPT !.stray = TRUE]]

releaseZmodem == zmodemActive' = FALSE /\ zmodemTimer' = "off"

-----------------------------------------------------------------------------
(* Connecting.                                                             *)

\* connect() up to its await, if there is a session.  disconnect() closes the
\* socket, which reports "idle" while it is still the pane's own.
startConnect ==
  /\ connectEpoch < MaxConnects
  /\ connectEpoch' = connectEpoch + 1
  /\ reads' = IF bound' THEN reads \cup {connectEpoch'} ELSE reads
  /\ openSockets' = openSockets \ {socket}
  /\ socket' = NoSocket
  /\ connectionState' = IF bound' /\ socket = NoSocket THEN connectionState ELSE "idle"
  /\ desync' = FALSE
  /\ writeQueue' = 0 /\ flushBy' = "none"

\* onMounted after setup(): a pane without a session has no history to fetch.
AfterSetup == IF bound THEN "history" ELSE "ready"

\* An unmount meanwhile is not noticed.
FinishConnectAnyway(epoch) ==
  /\ epoch \in reads
  /\ reads' = reads \ {epoch}
  /\ IF epoch # connectEpoch
     THEN UNCHANGED <<screen, screenHydrated, socket, openSockets, connectionState>>
     ELSE /\ screen' = IF cached /\ ~screenHydrated THEN Restored ELSE screen
          /\ screenHydrated' = TRUE
          /\ socket' = epoch
          /\ openSockets' = openSockets \cup {epoch}
          /\ connectionState' = "connecting"
  /\ mounting' = IF mounting = "connecting" /\ epoch = 1 THEN AfterSetup ELSE mounting
  /\ UNCHANGED <<gone, bound, agenda, connectEpoch, cached, errorText, desync,
                 writeVars, hidden, renderer, zmodemVars, blockVars, incidents>>
\* Only a restored screen counts as hydrated.
HydratedByCacheOnly(epoch) ==
  /\ epoch \in reads
  /\ reads' = reads \ {epoch}
  /\ IF epoch # connectEpoch \/ gone
     THEN UNCHANGED <<screen, screenHydrated, socket, openSockets, connectionState>>
     ELSE /\ screen' = IF cached /\ ~screenHydrated THEN Restored ELSE screen
          /\ screenHydrated' = (screenHydrated \/ cached)
          /\ socket' = epoch
          /\ openSockets' = openSockets \cup {epoch}
          /\ connectionState' = "connecting"
  /\ mounting' = IF mounting = "connecting" /\ epoch = 1 THEN AfterSetup ELSE mounting
  /\ UNCHANGED <<gone, bound, agenda, connectEpoch, cached, errorText, desync,
                 writeVars, hidden, renderer, zmodemVars, blockVars, incidents>>
\* The rest of connect() once readScreen has answered.  A newer connect or an
\* unmount meanwhile ends it.
FinishConnect(epoch) ==
  /\ epoch \in reads
  /\ reads' = reads \ {epoch}
  /\ IF epoch # connectEpoch \/ gone
     THEN UNCHANGED <<screen, screenHydrated, socket, openSockets, connectionState>>
     ELSE /\ screen' = IF cached /\ ~screenHydrated THEN Restored ELSE screen
          /\ screenHydrated' = TRUE
          /\ socket' = epoch
          /\ openSockets' = openSockets \cup {epoch}
          /\ connectionState' = "connecting"
  /\ mounting' = IF mounting = "connecting" /\ epoch = 1 THEN AfterSetup ELSE mounting
  /\ UNCHANGED <<gone, bound, agenda, connectEpoch, cached, errorText, desync,
                 writeVars, hidden, renderer, zmodemVars, blockVars, incidents>>

\* reconnect: the retry button of the error.
reconnect ==
  /\ HasTerm /\ errorText
  /\ errorText' = FALSE
  /\ UNCHANGED mountVars /\ startConnect
  /\ UNCHANGED <<screenHydrated, cached, screen, parsing, hidden, renderer, zmodemVars,
                 blockVars, incidents>>

\* The watch on props.pane.sessionId: the pane gets another session, or none,
\* whose persisted screen and commands are other ones.  What runs up to the
\* await of connect() are microtasks, so nothing comes between.  History that
\* is on its way is dropped.
Rebind ==
  /\ HasTerm
  /\ bound' \in BOOLEAN /\ (bound \/ bound')
  /\ mounting' = IF mounting = "history" THEN "overtaken" ELSE mounting
  /\ markerByBlock' = {} /\ pendingMarker' = 0
  /\ shell' = [last |-> 0, runs |-> FALSE] /\ commands' = <<>>
  /\ sentry' = NoSentry /\ releaseZmodem /\ transfers' = Strays
  /\ screen' = "blank" /\ screenHydrated' = FALSE /\ cached' \in BOOLEAN
  /\ startConnect
  /\ UNCHANGED <<gone, agenda, errorText, parsing, hidden, renderer, importing,
                 incidents>>

\* onState, for the pane's own socket; another one is ignored.
onState ==
  /\ socket # NoSocket /\ connectionState \notin {"failed", "exited"}
  /\ connectionState' \in ConnectionStates \ {"idle", connectionState}
  /\ errorText' = CASE connectionState' = "connected" -> FALSE
                    [] connectionState' = "failed"    -> TRUE
                    [] OTHER                          -> errorText
  /\ UNCHANGED <<mountVars, connectVars, cached, screen, desync, writeVars,
                 hidden, renderer, zmodemVars, blockVars, incidents>>

\* onControl: gap and resynced.
Gap ==
  /\ socket # NoSocket /\ connectionState \in {"connected", "resyncing"} /\ Incident("paint")
  /\ ~desync /\ desync' = TRUE
  /\ connectionState' = "resyncing"
  /\ UNCHANGED <<mountVars, connectVars, cached, screen, errorText, writeVars,
                 hidden, renderer, zmodemVars, blockVars>>
\* An incomplete resync changes nothing here.
Resynced ==
  /\ socket # NoSocket /\ connectionState = "resyncing"
  /\ desync /\ desync' = FALSE
  /\ UNCHANGED <<mountVars, connectVars, cached, screen, connectionState, errorText,
                 writeVars, hidden, renderer, zmodemVars, blockVars, incidents>>

-----------------------------------------------------------------------------
(* Command blocks.  The shell runs its commands one after the other; the   *)
(* events reach a socket that is attached, and are lost on any other.      *)

Hears == HasTerm /\ socket # NoSocket /\ connectionState \in {"connected", "resyncing"}

\* The list is not trimmed.
addUntrimmed(list, block) ==
  IF \E i \in DOMAIN list : list[i] = block THEN list ELSE Append(list, block)

\* addCommand of the store: a block that is listed already stays where it is.
addCommand(list, block) ==
  IF \E i \in DOMAIN list : list[i] = block THEN list
  ELSE IF Len(list) < MaxListed THEN Append(list, block)
  ELSE Append(Tail(list), block)

\* phase "running": registerMarker.
CommandRunning ==
  /\ ~shell.runs /\ shell.last + 1 \in Commands /\ Incident("command")
  /\ shell' = [last |-> shell.last + 1, runs |-> TRUE]
  /\ pendingMarker' = IF Hears THEN shell'.last ELSE pendingMarker
  /\ UNCHANGED <<mountVars, connectVars, socketVars, writeVars, zmodemVars, cached, screen,
                 hidden, renderer, markerByBlock, commands>>
\* phase "finished": the pending marker becomes the block's.
CommandFinished ==
  /\ shell.runs
  /\ shell' = [shell EXCEPT !.runs = FALSE]
  /\ IF Hears
     THEN /\ markerByBlock' = IF pendingMarker = 0 THEN markerByBlock
                              ELSE markerByBlock \cup {shell.last}
          /\ pendingMarker' = 0
          /\ commands' = addCommand(commands, shell.last)
     ELSE UNCHANGED <<markerByBlock, pendingMarker, commands>>
  /\ UNCHANGED <<mountVars, connectVars, socketVars, writeVars, zmodemVars, cached, screen,
                 hidden, renderer, incidents>>

\* sessionsApi.commands: the blocks that have ended by then, oldest first, go
\* behind the live ones, and listeners follow, whether or not the pane is gone.
Ended == {c \in Commands : c < shell.last \/ (c = shell.last /\ ~shell.runs)}
addHistory(list, n) ==
  LET f[k \in 0 .. n] == IF k = 0 THEN list ELSE addCommand(f[k - 1], k) IN f[n]
HistoryArrives ==
  /\ mounting \in {"history", "overtaken"}
  /\ mounting' = "ready"
  /\ commands' \in {commands} \cup
       IF mounting = "history" THEN {addHistory(commands, Cardinality(Ended))} ELSE {}
  /\ UNCHANGED <<gone, bound, agenda, connectVars, socketVars, writeVars, zmodemVars, cached,
                 screen,
                 hidden, renderer, shell, pendingMarker, markerByBlock, incidents>>

-----------------------------------------------------------------------------
(* ZMODEM: what the pane does.                                             *)

\* toggleZmodem up to its await: the button is disabled while a session is
\* active.
toggleZmodem ==
  /\ HasTerm /\ ~zmodemActive
  /\ IF sentry # NoSentry
     THEN /\ sentry' = NoSentry /\ transfers' = Strays
          /\ releaseZmodem /\ UNCHANGED <<importing, incidents>>
     ELSE /\ importing' = importing + 1 /\ Incident("transfer")
          /\ UNCHANGED <<sentry, zmodemActive, zmodemTimer, transfers>>
  /\ UNCHANGED <<mountVars, connectVars, socketVars, writeVars, blockVars, cached, screen,
                 hidden, renderer>>

\* zmodem.js is there, or fails to load.  The sentry keeps the socket of this
\* moment, if there is one; it takes the place of the sentry of another click,
\* and does not look whether the pane is still mounted.
Imported ==
  /\ importing > 0 /\ importing' = importing - 1
  /\ \/ sentry' = socket /\ transfers' = Strays
     \/ UNCHANGED <<sentry, transfers>>
  /\ UNCHANGED <<mountVars, connectVars, socketVars, writeVars, blockVars, cached, screen,
                 hidden, renderer, zmodemActive, zmodemTimer, incidents>>

\* Bytes that reach the sentry are painted and acknowledged at once.
SentryConsumes ==
  /\ Hears /\ sentry # NoSentry /\ screen # Painted
  /\ screen' = Painted
  /\ UNCHANGED <<mountVars, connectVars, socketVars, writeVars, zmodemVars, blockVars,
                 cached,
                 hidden, renderer, incidents>>

\* Only a receiving session is watched.
UnwatchedZmodem ==
  /\ Hears /\ sentry # NoSentry /\ Len(transfers) < MaxTransfers
  /\ MayDetect
  /\ \E stage \in {"picking", "receiving"} :
       transfers' = Append(transfers, [stage |-> stage, stray |-> FALSE])
  /\ zmodemActive' = TRUE
  /\ zmodemTimer' = IF transfers'[Len(transfers')].stage = "receiving" THEN "armed"
                    ELSE zmodemTimer
  /\ UNCHANGED <<mountVars, connectVars, socketVars, writeVars, blockVars, cached, screen,
                 hidden, renderer, sentry, importing, incidents>>
\* handleZmodem, for a session of the kind the remote side began.
handleZmodem ==
  /\ Hears /\ sentry # NoSentry /\ Len(transfers) < MaxTransfers
  /\ MayDetect
  /\ \E stage \in {"picking", "receiving"} :
       transfers' = Append(transfers, [stage |-> stage, stray |-> FALSE])
  /\ zmodemActive' = TRUE /\ zmodemTimer' = "armed"
  /\ UNCHANGED <<mountVars, connectVars, socketVars, writeVars, blockVars, cached, screen,
                 hidden, renderer, sentry, importing, incidents>>

\* The file picker answers, maybe with no file; it may also never answer.
Picked(t) ==
  /\ HasTerm /\ InStage(t, {"picking"})
  /\ \/ /\ transfers' = [transfers EXCEPT ![t].stage = "sending"]
        /\ UNCHANGED <<zmodemActive, zmodemTimer>>
     \/ transfers' = [transfers EXCEPT ![t].stage = "over"] /\ releaseZmodem
  /\ UNCHANGED <<mountVars, connectVars, socketVars, writeVars, blockVars, cached, screen,
                 hidden, renderer, sentry, importing, incidents>>

\* Each chunk of a received file starts the 20 s of the watchdog again.
ChunkArrives(t) ==
  /\ Hears /\ InStage(t, {"receiving"}) /\ ~transfers[t].stray
  /\ zmodemTimer' = "armed"
  /\ UNCHANGED <<mountVars, connectVars, socketVars, writeVars, blockVars, cached, screen,
                 hidden, renderer, sentry, importing, zmodemActive, transfers, incidents>>

\* done, or a transfer that fails.
TransferEnds(t) ==
  /\ HasTerm /\ InStage(t, {"sending", "receiving"}) /\ ~transfers[t].stray
  /\ transfers' = [transfers EXCEPT ![t].stage = "over"]
  /\ releaseZmodem
  /\ UNCHANGED <<mountVars, connectVars, socketVars, writeVars, blockVars, cached, screen,
                 hidden, renderer, sentry, importing, incidents>>

\* on_retract: what looked like a session was none.
Retracted ==
  /\ HasTerm /\ sentry # NoSentry /\ zmodemActive
  /\ zmodemActive' = FALSE
  /\ UNCHANGED <<mountVars, connectVars, socketVars, writeVars, blockVars, cached, screen,
                 hidden, renderer, sentry, importing, zmodemTimer, transfers, incidents>>

\* The timer of armZmodemWatchdog: its time passes, and then it fires, unless a
\* chunk starts it again before.
TimePasses ==
  /\ zmodemTimer = "armed" /\ zmodemTimer' = "due"
  /\ UNCHANGED <<mountVars, connectVars, socketVars, writeVars, blockVars, cached, screen,
                 hidden, renderer, sentry, importing, zmodemActive, transfers, incidents>>
ZmodemTimeout ==
  /\ zmodemTimer = "due" /\ zmodemTimer' = "off"
  /\ zmodemActive' = FALSE
  /\ UNCHANGED <<mountVars, connectVars, socketVars, writeVars, blockVars, cached, screen,
                 hidden, renderer, sentry, importing, transfers, incidents>>

-----------------------------------------------------------------------------
(* Mounting.                                                               *)

\* setup() up to the await of its connect(), if that awaits.
setup ==
  /\ mounting = "new" /\ ~gone
  /\ mounting' = IF bound THEN "connecting" ELSE "ready"
  /\ attachRenderer
  /\ UNCHANGED bound /\ startConnect
  /\ UNCHANGED <<gone, agenda, screenHydrated, cached, screen, errorText,
                 parsing, hidden, zmodemVars, blockVars, incidents>>

\* onBeforeUnmount.  A pane unmounted before its setup has no host element, so
\* setup() returns and the rest of onMounted follows.
Unmount ==
  /\ ~gone
  /\ gone' = TRUE
  /\ mounting' = IF mounting = "new" THEN AfterSetup ELSE mounting
  /\ writeQueue' = 0 /\ flushBy' = "none" /\ parsing' = 0
  /\ zmodemTimer' = "off" /\ sentry' = NoSentry
  /\ openSockets' = openSockets \ {socket} /\ socket' = NoSocket
  /\ connectionState' = IF socket = NoSocket THEN connectionState ELSE "idle"
  /\ renderer' = "none"
  /\ UNCHANGED <<bound, agenda, connectEpoch, reads, cached, screen, screenHydrated,
                 errorText, desync, hidden, importing, zmodemActive, transfers, blockVars,
                 incidents>>

PaneInit ==
  /\ mounting = "new" /\ gone = FALSE /\ bound \in BOOLEAN
  /\ connectEpoch = 0 /\ reads = {} /\ screenHydrated = FALSE
  /\ socket = NoSocket /\ openSockets = {}
  /\ connectionState = "idle" /\ errorText = FALSE /\ desync = FALSE
  /\ cached \in BOOLEAN /\ screen = "blank"
  /\ writeQueue = 0 /\ parsing = 0 /\ flushBy = "none" /\ hidden = FALSE
  /\ renderer = "none"
  /\ sentry = NoSentry /\ importing = 0 /\ zmodemActive = FALSE /\ zmodemTimer = "off"
  /\ transfers = <<>>
  /\ shell = [last |-> 0, runs |-> FALSE]
  /\ pendingMarker = 0 /\ markerByBlock = {} /\ commands = <<>>
  /\ agenda \in {"paint", "transfer", "command"} /\ incidents = 0

PaneNext ==
  \/ setup \/ HistoryArrives \/ Unmount
  \/ \E epoch \in Epochs : FinishConnect(epoch)
  \/ reconnect \/ Rebind \/ onState \/ Gap \/ Resynced \/ Resynchronise
  \/ EnqueueWrite \/ flushWrites \/ Written \/ Hide \/ Show \/ scheduleCache
  \/ ContextLoss
  \/ CommandRunning \/ CommandFinished
  \/ toggleZmodem \/ Imported \/ SentryConsumes \/ handleZmodem \/ Retracted
  \/ TimePasses \/ ZmodemTimeout
  \/ \E t \in 1 .. MaxTransfers :
       Picked(t) \/ ChunkArrives(t) \/ TransferEnds(t)

\* The browser runs frames of a visible page, timers and callbacks of xterm.
PaneFairness ==
  /\ WF_paneVars(flushWrites) /\ WF_paneVars(Written)
  /\ WF_paneVars(TimePasses) /\ WF_paneVars(ZmodemTimeout)
PaneSpec == PaneInit /\ [][PaneNext]_paneVars /\ PaneFairness

-----------------------------------------------------------------------------
(* Properties.                                                             *)

\* The variables have their types.
PaneTypeOK ==
  /\ mounting \in {"new", "connecting", "history", "overtaken", "ready"}
  /\ gone \in BOOLEAN /\ bound \in BOOLEAN /\ agenda \in {"paint", "transfer", "command"}
  /\ connectEpoch \in 0 .. MaxConnects /\ reads \subseteq Epochs
  /\ cached \in BOOLEAN /\ screen \in {"blank", "restored", "live", "doubled"}
  /\ screenHydrated \in BOOLEAN
  /\ socket \in Epochs \cup {NoSocket} /\ openSockets \subseteq Epochs
  /\ connectionState \in ConnectionStates
  /\ errorText \in BOOLEAN /\ desync \in BOOLEAN
  /\ writeQueue \in 0 .. MaxFrames /\ parsing \in Nat
  /\ flushBy \in {"none", "frame", "timer"} /\ hidden \in BOOLEAN
  /\ renderer \in {"none", "webgl", "canvas", "builtin"}
  /\ sentry \in Epochs \cup {NoSocket, NoSentry}
  /\ importing \in 0 .. MaxIncidents
  /\ zmodemActive \in BOOLEAN /\ zmodemTimer \in {"off", "armed", "due"}
  /\ transfers \in Seq([stage : {"picking", "sending", "receiving", "over"}, stray : BOOLEAN])
  /\ Len(transfers) <= MaxTransfers
  /\ shell \in [last : Commands \cup {0}, runs : BOOLEAN]
  /\ pendingMarker \in Commands \cup {0} /\ markerByBlock \subseteq Commands
  /\ commands \in Seq(Commands) /\ Len(commands) <= MaxListed
  /\ incidents \in 0 .. MaxIncidents

\* A pane has one socket at most, the one it hands input to, and none once it
\* is unmounted, whatever connects were waiting for their cached screen.
OneSocket ==
  /\ openSockets = IF socket = NoSocket THEN {} ELSE {socket}
  /\ gone => socket = NoSocket

\* A persisted screen is never painted on a terminal that holds live output,
\* however often the user reconnects.
NotPaintedTwice == screen # "doubled"

\* The keyboard comes back: a session that owns the stream ends, or the
\* watchdog ends it, unless the remote side sends chunks for ever, each within
\* the time the one before allowed.
InputReturns ==
  \/ []<><<\E t \in 1 .. MaxTransfers : ChunkArrives(t)>>_paneVars
  \/ zmodemActive ~> (~zmodemActive \/ gone)

\* While the page stays visible, frames never wait with nothing under way that
\* would paint and acknowledge them.
FramesPainted == <>[]~hidden => []<>(writeQueue = 0 \/ parsing > 0 \/ gone)

================================================================================
