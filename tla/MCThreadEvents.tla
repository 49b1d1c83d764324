-------------------------- MODULE MCThreadEvents --------------------------
(* Small instances of ThreadEvents for TLC.                                *)
EXTENDS ThreadEvents, TLC

\* The slots are interchangeable (no liveness property is checked here).
Slots == Permutations(Slot) \cup Permutations(Deleter)
=============================================================================
