---------------------------- MODULE MCChatWorkers ----------------------------
(* ChatWorkers for TLC: three calls of Run on one or two chats. *)
EXTENDS ChatWorkers, TLC

CONSTANTS j1, j2, j3, c1, c2

\* All compete for one chat: with a buffer of one, a job can be in execution,
\* another in the channel and a third blocked in the send.
OneChat == (j1 :> c1) @@ (j2 :> c1) @@ (j3 :> c1)

TwoChats == (j1 :> c1) @@ (j2 :> c1) @@ (j3 :> c2)
=============================================================================
