---------------------------- MODULE MCMcpToolkit ----------------------------
(* Small instances of McpToolkit for TLC.                                  *)
EXTENDS McpToolkit, TLC

\* The servers are interchangeable (used where no liveness property is checked).
Servers == Permutations(Server)
=============================================================================
