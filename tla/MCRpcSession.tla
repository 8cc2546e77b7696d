---------------------------- MODULE MCRpcSession ----------------------------
(* Small instance of RpcSession for TLC. *)
EXTENDS RpcSession

CONSTANTS d1, d2

MCDocs == {d1, d2}

\* Documents are alike to the agent: their order in the queue makes no difference.
MCQueues == {<<>>, <<d1>>, <<d1, d2>>}
==============================================================================
