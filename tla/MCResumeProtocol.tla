---------------------------- MODULE MCResumeProtocol ----------------------------
(* One pane, two bytes of output in each of two generations.               *)
EXTENDS ResumeProtocol

MCRing == 2
MCMaxRetries == 1
MCMaxEnd == 2
MCMaxGen == 1
MCMaxEvents == 2
=============================================================================
