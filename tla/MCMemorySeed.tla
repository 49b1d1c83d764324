--------------------------- MODULE MCMemorySeed ---------------------------
(* A small instance of MemorySeed for TLC.                                 *)
EXTENDS MemorySeed, TLC
=============================================================================
