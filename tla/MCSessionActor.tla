---------------------------- MODULE MCSessionActor ----------------------------
(* Two viewers and two requests to stop.  A mailbox of four takes every    *)
(* call that can be in flight, as the server's mailbox of 4096 does.  With *)
(* a mailbox of one, a viewer, the read loop and a stop compete for the    *)
(* one place.                                                              *)
EXTENDS SessionActor, TLC

CONSTANTS c1, c2

MCClients == {c1, c2}
MCOneClient == {c1}
MCStoppers == {"admin", "shutdown"}
MCOneStopper == {"admin"}
MCRoomy == 4
MCFull == 1
MCMaxChunks == 2

Alike == Permutations(MCClients)
=============================================================================
