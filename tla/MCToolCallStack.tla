-------------------------- MODULE MCToolCallStack --------------------------
(* Small instances of ToolCallStack for TLC.                               *)
EXTENDS ToolCallStack, TLC

\* The slots are interchangeable (no liveness property is checked here).
Slots == Permutations(Run) \cup Permutations(Call)
=============================================================================
