----------------------------- MODULE CommandBlocks -----------------------------
(***************************************************************************)
(* Where the command blocks of a terminal lie on its screen: the markers   *)
(* of TerminalPane.vue, the jump to a block, and jumpPrompt, which scrolls *)
(* from prompt to prompt.                                                  *)
(*                                                                         *)
(* A program may show the alternate screen, a buffer of its own that does  *)
(* not scroll; it is left before the program ends.  Markers, baseY,        *)
(* cursorY and viewportY are those of the normal buffer, while the pane    *)
(* reads the active one.                                                   *)
(*                                                                         *)
(* Lines are counted from the oldest one kept.  xterm moves a marker when  *)
(* older lines are dropped and disposes of it with its own line; a marker  *)
(* that is disposed of has line -1.                                        *)
(***************************************************************************)
EXTENDS Integers, FiniteSets, FiniteSetsExt

CONSTANTS
  Blocks,      \* bound: the commands that end, as the numbers 1 .. n
  MaxMarkers,  \* markers kept
  ScreenRows,  \* height of the terminal
  Scrollback   \* lines kept, those on the screen included

ASSUME CommandBlocksConstants ==
  /\ ScreenRows \in Nat \ {0} /\ Scrollback \in Nat /\ Scrollback >= ScreenRows
  /\ MaxMarkers \in Nat \ {0} /\ Blocks \subseteq Nat \ {0}

VARIABLES
  markerByBlock,  \* the line of each block's marker, for blocks that have one
  pendingMarker,  \* the line of the marker of the command that runs
  runs,           \* a command runs
  lastBlock,      \* the last block that ended here
  baseY,          \* the first line of the screen
  cursorY,        \* the cursor, counted from there
  viewportY,      \* the first line shown
  alternateY      \* the cursor on the alternate screen, if that is shown

bufferVars == <<baseY, cursorY, viewportY, alternateY>>
rangeVars == <<markerByBlock, pendingMarker, runs, lastBlock, bufferVars>>

Disposed == -1
NoMarker == -2
Hidden == -1
alternate == alternateY # Hidden
Lines == 0 .. Scrollback - 1
cursorLine == baseY + cursorY
MarkerLines == {markerByBlock[b] : b \in DOMAIN markerByBlock}

-----------------------------------------------------------------------------
(* Output.                                                                 *)

\* A new line scrolls the screen when the cursor is on its last row, and drops
\* the oldest line when the buffer is full.  With followOutput the view follows.
NewLine(markers, pending) ==
  LET scrolls == cursorY = ScreenRows - 1
      drop == IF scrolls /\ baseY + ScreenRows = Scrollback THEN 1 ELSE 0
      Shifted(line) ==
        IF line < 0 THEN line ELSE IF line < drop THEN Disposed ELSE line - drop IN
  /\ cursorY' = IF scrolls THEN cursorY ELSE cursorY + 1
  /\ baseY' = IF scrolls /\ drop = 0 THEN baseY + 1 ELSE baseY
  /\ markerByBlock' = [b \in DOMAIN markers |-> Shifted(markers[b])]
  /\ pendingMarker' = Shifted(pending)
  /\ viewportY' \in {baseY', IF viewportY < drop THEN 0 ELSE viewportY - drop}

Output ==
  /\ runs /\ ~alternate /\ NewLine(markerByBlock, pendingMarker)
  /\ UNCHANGED <<runs, lastBlock, alternateY>>

\* The program moves the cursor up, as one does that redraws its screen.
MovesUp ==
  /\ runs /\ ~alternate /\ cursorY' \in 0 .. cursorY - 1
  /\ UNCHANGED <<markerByBlock, pendingMarker, runs, lastBlock, baseY, viewportY, alternateY>>

\* It shows the alternate screen, draws there, and goes back.
Alternates ==
  /\ runs
  /\ alternateY' \in IF alternate THEN (0 .. ScreenRows - 1 \cup {Hidden}) \ {alternateY}
                     ELSE {cursorY}
  /\ UNCHANGED <<markerByBlock, pendingMarker, runs, lastBlock, baseY, cursorY, viewportY>>

\* phase "running": the marker is where the cursor is.
CommandStarts ==
  /\ ~runs /\ lastBlock + 1 \in Blocks
  /\ runs' = TRUE /\ pendingMarker' = cursorLine
  /\ UNCHANGED <<markerByBlock, lastBlock, bufferVars>>

\* Of more than MaxMarkers markers the oldest goes.
Kept(markers) ==
  IF Cardinality(DOMAIN markers) <= MaxMarkers THEN markers
  ELSE [b \in DOMAIN markers \ {Min(DOMAIN markers)} |-> markers[b]]

\* phase "finished": the block gets the marker, if this pane saw the command
\* start, and the shell prints its next prompt.
CommandEnds ==
  /\ runs /\ ~alternate /\ runs' = FALSE /\ UNCHANGED alternateY
  /\ lastBlock + 1 \in Blocks /\ lastBlock' = lastBlock + 1
  /\ NewLine(IF pendingMarker = NoMarker THEN markerByBlock
             ELSE Kept([b \in DOMAIN markerByBlock \cup {lastBlock'} |->
                          IF b = lastBlock' THEN pendingMarker ELSE markerByBlock[b]]),
             NoMarker)

\* The user scrolls.
Scrolls ==
  /\ ~alternate /\ viewportY' \in 0 .. baseY /\ viewportY' # viewportY
  /\ UNCHANGED <<markerByBlock, pendingMarker, runs, lastBlock, baseY, cursorY, alternateY>>

\* term.clear() clears the active buffer: the line of the cursor stays, at the
\* top, and none of its markers.
clearTerminal ==
  \/ /\ alternate /\ alternateY > 0 /\ alternateY' = 0
     /\ UNCHANGED <<markerByBlock, pendingMarker, runs, lastBlock, baseY, cursorY, viewportY>>
  \/ /\ ~alternate /\ cursorLine > 0
     /\ baseY' = 0 /\ cursorY' = 0 /\ viewportY' = 0
     /\ pendingMarker' = IF pendingMarker = NoMarker THEN NoMarker ELSE Disposed
     /\ markerByBlock' = [b \in DOMAIN markerByBlock |-> Disposed]
     /\ UNCHANGED <<runs, lastBlock, alternateY>>

-----------------------------------------------------------------------------
(* The jumps.                                                              *)

\* A block without a line on the screen has no range.
hasMarker(b) == b \in DOMAIN markerByBlock
Placed == {b \in Blocks : hasMarker(b) /\ markerByBlock[b] >= 0}

\* scrollToLine stops at either end of the buffer; the alternate one has one
\* screen.
scrollToLine(line) ==
  /\ viewportY' = IF alternate THEN viewportY ELSE Max({0, Min({line, baseY})})
  /\ UNCHANGED <<markerByBlock, pendingMarker, runs, lastBlock, baseY, cursorY, alternateY>>

jumpToBlock(b) == b \in Placed /\ scrollToLine(markerByBlock[b] - 2)

\* The nearest prompt that way; with none ahead the user is told so.
Ahead(dir) ==
  LET prompts == {markerByBlock[b] : b \in Placed}
      current == IF alternate THEN 0 ELSE viewportY IN
  IF dir > 0 THEN {line \in prompts : line > current + 1}
             ELSE {line \in prompts : line < current - 1}
jumpPrompt(dir) ==
  /\ Ahead(dir) # {}
  /\ scrollToLine((IF dir > 0 THEN Min(Ahead(dir)) ELSE Max(Ahead(dir))) - 2)

-----------------------------------------------------------------------------

\* The pane may attach while a command runs.
BlocksInit ==
  /\ markerByBlock = [b \in {} |-> 0] /\ pendingMarker = NoMarker /\ runs \in BOOLEAN
  /\ lastBlock = 0 /\ baseY = 0 /\ cursorY = 0 /\ viewportY = 0
  /\ alternateY = Hidden

BlocksNext ==
  \/ Output \/ MovesUp \/ Alternates \/ CommandStarts \/ CommandEnds \/ Scrolls \/ clearTerminal
  \/ \E b \in Blocks : jumpToBlock(b)
  \/ \E dir \in {-1, 1} : jumpPrompt(dir)

BlocksSpec == BlocksInit /\ [][BlocksNext]_rangeVars

-----------------------------------------------------------------------------

\* The variables have their types.
BlocksTypeOK ==
  /\ DOMAIN markerByBlock \subseteq Blocks /\ Cardinality(DOMAIN markerByBlock) <= MaxMarkers
  /\ MarkerLines \subseteq Lines \cup {Disposed}
  /\ pendingMarker \in Lines \cup {Disposed, NoMarker} /\ runs \in BOOLEAN
  /\ lastBlock \in Blocks \cup {0}
  /\ baseY \in 0 .. Scrollback - ScreenRows /\ cursorY \in 0 .. ScreenRows - 1
  /\ viewportY \in 0 .. baseY
  /\ alternateY \in 0 .. ScreenRows - 1 \cup {Hidden} /\ (alternate => runs)
=============================================================================
