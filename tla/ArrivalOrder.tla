----------------------------- MODULE ArrivalOrder -----------------------------
(***************************************************************************)
(* What a viewer may assume of its connection: items arrive in the order   *)
(* in which they were queued, each at most once.  Items may be given up on *)
(* the way; nothing is invented, repeated or overtaken.                    *)
(*                                                                         *)
(* An item is named by its arrival number.  This is the single queue that  *)
(* the two deques of WsClient replaced.                                    *)
(***************************************************************************)
EXTENDS Integers

VARIABLES
  clock,    \* arrival number of the newest item
  waiting,  \* the items not yet sent
  lastOut   \* the item sent last, 0 before the first

vars == <<clock, waiting, lastOut>>

Init == clock = 0 /\ waiting = {} /\ lastOut = 0

\* New items arrive, and any of those waiting may be given up.
Accept ==
  /\ clock' \in Nat /\ clock' >= clock
  /\ waiting' \subseteq waiting \cup (clock + 1 .. clock')
  /\ UNCHANGED lastOut

\* The oldest waiting item is sent.
Send ==
  /\ \E item \in waiting :
       /\ \A other \in waiting : item <= other
       /\ item > lastOut
       /\ lastOut' = item
       /\ waiting' = waiting \ {item}
  /\ UNCHANGED clock

Next == Accept \/ Send

Spec == Init /\ [][Next]_vars
=============================================================================
