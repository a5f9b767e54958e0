----------------------------- MODULE MCMcpServer -----------------------------
(* Small instances of McpServer for TLC: one initialize and three calls,     *)
(* of which one has a large answer. *)
EXTENDS McpServer

CONSTANTS i1, a1, a2, a3

OneLarge == [id \in Ids |-> IF id = a1 THEN 2 ELSE 1]
=============================================================================
