-------------------------- MODULE MCRpcConnection --------------------------
(* RpcConnection with frames of a few bytes: the response to the first call *)
(* can be drained later, the second fits the client's buffer but not        *)
(* Health's, the third fits neither.                                        *)
EXTENDS RpcConnection

MCQLen == [c \in Calls |-> <<1, 2, 1>>[c]]
MCRLen == [c \in Calls |-> <<2, 3, 4>>[c]]
============================================================================
