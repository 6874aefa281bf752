------------------------------ MODULE MCWsClient ------------------------------
(* A small connection: budgets that a handful of frames exhaust.           *)
EXTENDS WsClient

MCMaxPending == 3
MCMaxControl == 2
MCMaxBytes == 3
MCMaxChunk == 2
MCMaxEnd == 2
MCMaxFrame == 1
MCMaxSnapshot == 4
MCMaxRepairs == 2
MCMaxNotices == 1
=============================================================================
