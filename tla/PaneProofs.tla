------------------------------- MODULE PaneProofs -------------------------------
(***************************************************************************)
(* A pane keeps its socket, its screen, its frames and its transfers in    *)
(* hand, for any number of connects, frames, transfers and commands.       *)
(***************************************************************************)
EXTENDS TerminalPane, TLAPS

(***************************************************************************)
(* The pane.  A connect that waits for its cached screen is the newest one *)
(* only while there is no socket, and a terminal that got live bytes is    *)
(* hydrated: so there is one socket at most, and no cached screen over     *)
(* live output.                                                            *)
(***************************************************************************)
\* Connects that wait were begun, and the newest of them has no socket yet.
ConnectsOK ==
  /\ connectEpoch \in Nat /\ reads \subseteq 1 .. connectEpoch /\ socket \in Nat
  /\ connectEpoch \in reads => socket = NoSocket
  /\ OneSocket

\* Bytes come through a socket, and a socket comes after the cached screen.
HydratedFirst ==
  /\ writeQueue \in Nat
  /\ socket # NoSocket \/ writeQueue > 0 \/ screen = "live" => screenHydrated
  /\ screen \in {"blank", "restored", "live"}

PaneIInv == ConnectsOK /\ HydratedFirst

LEMMA PaneInitInv == PaneInit => PaneIInv
  BY DEF PaneInit, PaneIInv, ConnectsOK, HydratedFirst, OneSocket, NoSocket

\* A new connect closes the socket and waits.
LEMMA ConnectStarted ==
  ASSUME PaneIInv, startConnect, ~gone, gone' = gone, screen' = screen,
         screenHydrated' = screenHydrated
  PROVE  PaneIInv'
<1>1. /\ connectEpoch' = connectEpoch + 1 /\ reads' \subseteq reads \cup {connectEpoch + 1}
      /\ openSockets' = openSockets \ {socket} /\ socket' = NoSocket /\ writeQueue' = 0
  BY DEF startConnect
<1>2. connectEpoch' \in Nat /\ reads' \subseteq 1 .. connectEpoch'
  BY <1>1 DEF PaneIInv, ConnectsOK
<1>3. OneSocket'
  BY <1>1 DEF PaneIInv, ConnectsOK, OneSocket
<1> QED
  BY <1>1, <1>2, <1>3 DEF PaneIInv, ConnectsOK, HydratedFirst, NoSocket

\* The screen after the cache was read: nothing live is there to be painted over.
LEMMA ConnectFinished ==
  ASSUME PaneIInv, NEW epoch \in Epochs, FinishConnect(epoch)
  PROVE  PaneIInv'
<1>1. CASE epoch # connectEpoch \/ gone
  BY <1>1 DEF FinishConnect, PaneIInv, ConnectsOK, HydratedFirst, OneSocket, writeVars
<1>2. CASE epoch = connectEpoch /\ ~gone
  <2>1. /\ epoch \in reads /\ reads' = reads \ {epoch} /\ screenHydrated' = TRUE
        /\ socket' = epoch /\ openSockets' = openSockets \cup {epoch}
        /\ screen' = IF cached /\ ~screenHydrated THEN Restored ELSE screen
        /\ UNCHANGED <<gone, connectEpoch, writeQueue>>
    BY <1>2 DEF FinishConnect, writeVars
  <2>2. socket = NoSocket /\ openSockets = {} /\ epoch \in Nat /\ epoch # NoSocket
    BY <1>2, <2>1 DEF PaneIInv, ConnectsOK, OneSocket, NoSocket
  <2>3. screen' \in {"blank", "restored", "live"}
    BY <2>1 DEF PaneIInv, HydratedFirst, Restored
  <2>4. ConnectsOK'
    BY <1>2, <2>1, <2>2 DEF PaneIInv, ConnectsOK, OneSocket
  <2> QED
    BY <2>1, <2>3, <2>4 DEF PaneIInv, HydratedFirst
<1> QED
  BY <1>1, <1>2

LEMMA PaneNextInv == PaneIInv /\ [PaneNext]_paneVars => PaneIInv'
<1> SUFFICES ASSUME PaneIInv, [PaneNext]_paneVars
             PROVE  PaneIInv'
  OBVIOUS
<1> USE DEF PaneIInv, ConnectsOK, HydratedFirst, OneSocket
<1>1. CASE setup
  BY <1>1, ConnectStarted DEF setup
<1>2. CASE reconnect
  BY <1>2, ConnectStarted DEF reconnect, HasTerm, mountVars
<1>15. CASE Rebind
  <2>1. /\ ~gone /\ gone' = gone /\ connectEpoch' = connectEpoch + 1
        /\ reads' = IF bound' THEN reads \cup {connectEpoch + 1} ELSE reads
        /\ openSockets' = openSockets \ {socket} /\ socket' = NoSocket /\ writeQueue' = 0
        /\ screen' = "blank"
    BY <1>15 DEF Rebind, startConnect, HasTerm
  <2>2. ConnectsOK'
    BY <2>1, Zenon, SMT DEF NoSocket
  <2> QED
    BY <2>1, <2>2 DEF NoSocket
<1>3. ASSUME NEW epoch \in Epochs, FinishConnect(epoch)
      PROVE  PaneIInv'
  BY <1>3, ConnectFinished
<1>4. CASE Unmount
  BY <1>4 DEF Unmount, NoSocket
<1>5. CASE EnqueueWrite
  BY <1>5 DEF EnqueueWrite, mountVars, connectVars
<1>6. CASE flushWrites
  <2>1. PICK n \in 1 .. writeQueue : writeQueue' = writeQueue - n
    BY <1>6 DEF flushWrites
  <2>2. writeQueue > 0 /\ writeQueue' \in Nat /\ screen' = "live"
    BY <1>6, <2>1 DEF flushWrites, Painted
  <2> QED
    BY <1>6, <2>2 DEF flushWrites, mountVars, connectVars
<1>7. CASE SentryConsumes
  BY <1>7 DEF SentryConsumes, Hears, Painted, mountVars, connectVars, writeVars
<1>0. UNCHANGED <<gone, connectVars, writeQueue, screen>> => PaneIInv'
  BY DEF connectVars
<1> HIDE DEF PaneIInv, ConnectsOK, HydratedFirst, OneSocket
<1>8. SUFFICES ASSUME ~\E epoch \in Epochs : FinishConnect(epoch),
                      ~(setup \/ reconnect \/ Rebind \/ Unmount \/ EnqueueWrite \/ flushWrites),
                      ~SentryConsumes
               PROVE  UNCHANGED <<gone, connectVars, writeQueue, screen>>
  BY <1>0, <1>1, <1>2, <1>3, <1>4, <1>5, <1>6, <1>7, <1>15, Zenon
<1> USE DEF mountVars, connectVars, writeVars
<1>9. CASE Written \/ Hide \/ Show \/ scheduleCache
  BY <1>9 DEF Written, Hide, Show, scheduleCache
<1>10. CASE ContextLoss \/ Resynchronise \/ onState \/ Gap \/ Resynced
  BY <1>10, Zenon DEF ContextLoss, Resynchronise, onState, Gap, Resynced
<1>11. CASE CommandRunning \/ CommandFinished \/ HistoryArrives
  BY <1>11, Zenon DEF CommandRunning, CommandFinished, HistoryArrives
<1>12. CASE toggleZmodem \/ Imported \/ handleZmodem \/ Retracted \/ TimePasses
            \/ ZmodemTimeout
  BY <1>12, Zenon DEF toggleZmodem, Imported, handleZmodem, Retracted, TimePasses,
     ZmodemTimeout
<1>13. ASSUME NEW t \in 1 .. MaxTransfers, Picked(t) \/ ChunkArrives(t) \/ TransferEnds(t)
       PROVE  UNCHANGED <<gone, connectVars, writeQueue, screen>>
  BY <1>13, Zenon DEF Picked, ChunkArrives, TransferEnds
<1>14. CASE UNCHANGED paneVars
  BY <1>14 DEF paneVars
<1> QED
  BY <1>8, <1>9, <1>10, <1>11, <1>12, <1>13, <1>14 DEF PaneNext

\* A pane has one socket at most, and none once it is unmounted, whatever
\* connects were waiting (connectEpoch in TerminalPane.vue).
THEOREM OneSocketAlways == PaneSpec => []OneSocket
<1>1. PaneIInv => OneSocket
  BY DEF PaneIInv, ConnectsOK
<1> QED
  BY <1>1, PaneInitInv, PaneNextInv, PTL DEF PaneSpec

\* No persisted screen is painted on live output, however often a pane
\* reconnects (screenHydrated in TerminalPane.vue).
THEOREM NeverPaintedTwice == PaneSpec => []NotPaintedTwice
<1>1. PaneIInv => NotPaintedTwice
  BY DEF PaneIInv, HydratedFirst, NotPaintedTwice
<1> QED
  BY <1>1, PaneInitInv, PaneNextInv, PTL DEF PaneSpec
-----------------------------------------------------------------------------
(***************************************************************************)
(* What FramesPainted and InputReturns rest on: frames always have a       *)
(* flush or a callback ahead of them, a transfer that owns the stream      *)
(* always has its watchdog, and an unmounted pane has nothing under way:   *)
(* a sentry whose zmodem.js came too late has no socket.                   *)
(***************************************************************************)
FramesInHand == writeQueue > 0 => flushBy # "none" \/ parsing > 0
TransferWatched == zmodemActive => zmodemTimer # "off" \/ gone
QuietAfterUnmount ==
  gone => /\ writeQueue = 0 /\ parsing = 0 /\ flushBy = "none"
          /\ zmodemTimer = "off" /\ socket = NoSocket /\ sentry \in {NoSentry, NoSocket}
WorkInHand ==
  /\ writeQueue \in Nat /\ parsing \in Nat
  /\ FramesInHand /\ TransferWatched /\ QuietAfterUnmount

LEMMA WorkInit == PaneInit => WorkInHand
  BY DEF PaneInit, WorkInHand, FramesInHand, TransferWatched, QuietAfterUnmount

LEMMA WorkNext == WorkInHand /\ [PaneNext]_paneVars => WorkInHand'
<1> SUFFICES ASSUME WorkInHand, [PaneNext]_paneVars
             PROVE  WorkInHand'
  OBVIOUS
<1> USE DEF WorkInHand, FramesInHand, TransferWatched, QuietAfterUnmount, HasTerm
<1> USE DEF mountVars, zmodemVars, writeVars
<1>1. CASE setup \/ reconnect
  BY <1>1 DEF setup, reconnect, startConnect
<1>14. CASE Rebind
  BY <1>14 DEF Rebind, startConnect, releaseZmodem
<1>2. CASE Unmount
  BY <1>2 DEF Unmount
<1>3. CASE EnqueueWrite
  <2>1. /\ ~gone /\ writeQueue' = writeQueue + 1
        /\ flushBy' = scheduleFlush(flushBy, writeQueue')
        /\ UNCHANGED <<parsing, gone, zmodemActive, zmodemTimer>>
    BY <1>3 DEF EnqueueWrite
  <2>2. flushBy' # "none"
    BY <2>1 DEF scheduleFlush
  <2> QED
    BY <2>1, <2>2
<1>4. CASE flushWrites
  <2>1. PICK n \in 1 .. writeQueue : writeQueue' = writeQueue - n
    BY <1>4 DEF flushWrites
  <2> QED
    BY <1>4, <2>1 DEF flushWrites
<1>5. CASE Written
  <2>1. /\ ~gone /\ parsing > 0 /\ parsing' = parsing - 1
        /\ flushBy' = scheduleFlush(flushBy, writeQueue)
        /\ UNCHANGED <<writeQueue, gone, zmodemActive, zmodemTimer>>
    BY <1>5 DEF Written
  <2>2. writeQueue > 0 => flushBy' # "none"
    BY <2>1 DEF scheduleFlush
  <2> QED
    BY <2>1, <2>2
<1>6. CASE toggleZmodem \/ Imported \/ handleZmodem \/ Retracted \/ TimePasses
           \/ ZmodemTimeout
  BY <1>6 DEF toggleZmodem, Imported, handleZmodem, Retracted, TimePasses, ZmodemTimeout,
     releaseZmodem, Hears, connectVars
<1>7. ASSUME NEW t \in 1 .. MaxTransfers, Picked(t) \/ ChunkArrives(t) \/ TransferEnds(t)
      PROVE  WorkInHand'
  BY <1>7 DEF Picked, ChunkArrives, TransferEnds, releaseZmodem, Hears, connectVars
<1>8. UNCHANGED <<gone, socket, writeVars, sentry, zmodemActive, zmodemTimer>>
        => WorkInHand'
  OBVIOUS
<1> HIDE DEF WorkInHand, FramesInHand, TransferWatched, QuietAfterUnmount, HasTerm
<1> USE DEF connectVars
<1>9. CASE Hide \/ Show \/ scheduleCache \/ SentryConsumes
  BY <1>8, <1>9, Zenon DEF Hide, Show, scheduleCache, SentryConsumes
<1>10. CASE ContextLoss \/ Resynchronise \/ onState \/ Gap \/ Resynced
  BY <1>8, <1>10, Zenon DEF ContextLoss, Resynchronise, onState, Gap, Resynced
<1>11. CASE CommandRunning \/ CommandFinished \/ HistoryArrives
  BY <1>8, <1>11, Zenon DEF CommandRunning, CommandFinished, HistoryArrives
<1>12. ASSUME NEW epoch \in Epochs, FinishConnect(epoch)
       PROVE  WorkInHand'
  <2>1. UNCHANGED <<gone, writeVars, sentry, zmodemActive, zmodemTimer>>
        /\ (gone => socket' = socket)
    BY <1>12, Zenon DEF FinishConnect
  <2> QED
    BY <2>1 DEF WorkInHand, FramesInHand, TransferWatched, QuietAfterUnmount
<1>13. CASE UNCHANGED paneVars
  BY <1>8, <1>13, Zenon DEF paneVars
<1> QED
  BY <1>1, <1>2, <1>3, <1>4, <1>5, <1>6, <1>7, <1>9, <1>10, <1>11, <1>12, <1>13, <1>14 DEF PaneNext

\* Frames never wait with neither a flush due nor a batch being parsed, whose
\* callback looks for more (scheduleFlush and flushWrites in
\* TerminalPane.vue): what FramesPainted needs besides fairness.
THEOREM FramesAlwaysInHand == PaneSpec => []FramesInHand
<1>1. WorkInHand => FramesInHand
  BY DEF WorkInHand
<1> QED
  BY <1>1, WorkInit, WorkNext, PTL DEF PaneSpec

\* While a ZMODEM session owns the stream its watchdog runs, until the pane is
\* unmounted (armZmodemWatchdog): what InputReturns needs besides fairness.
THEOREM TransferAlwaysWatched == PaneSpec => []TransferWatched
<1>1. WorkInHand => TransferWatched
  BY DEF WorkInHand
<1> QED
  BY <1>1, WorkInit, WorkNext, PTL DEF PaneSpec

\* Whatever was under way when the pane was unmounted: no frame, flush,
\* callback or watchdog is left, and no socket, not even one that a sentry has
\* that zmodem.js gave after the unmount (onBeforeUnmount, toggleZmodem).
THEOREM UnmountLeavesNothing == PaneSpec => []QuietAfterUnmount
<1>1. WorkInHand => QuietAfterUnmount
  BY DEF WorkInHand
<1> QED
  BY <1>1, WorkInit, WorkNext, PTL DEF PaneSpec
================================================================================
