----------------------------- MODULE MCThreads -----------------------------
(* A small instance of Threads for TLC: one caller's name occurs in an id   *)
(* that clients of either API make up.                                      *)
EXTENDS Threads, TLC

MCCaller == {"c1", "c2"}
MCLabel == {<<CallerPart("c2"), <<"word", "x">>>>}
MCProject == {<<<<"word", "p">>>>}
MCDefaultTopic == <<<<"word", "default">>>>
MCTopic == {DefaultTopic}
MCAguiId == MCLabel
MCMaxTold == [c \in MCCaller |-> 1]
=============================================================================
