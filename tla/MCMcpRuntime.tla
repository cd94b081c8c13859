---------------------------- MODULE MCMcpRuntime ----------------------------
(* A small instance of McpRuntime for TLC.                                  *)
EXTENDS McpRuntime

Taken == {0, 1}
=============================================================================
