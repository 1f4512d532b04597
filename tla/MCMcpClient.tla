----------------------------- MODULE MCMcpClient -----------------------------
(* The instance of the MCP connection that TLC checks. *)
EXTENDS McpClient
=============================================================================
