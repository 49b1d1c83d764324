----------------------------- MODULE MCService -----------------------------
(* A small instance of Service for TLC: one source is a page, the other a   *)
(* manifest of two documents, one of them that page.                        *)
EXTENDS Service, TLC

CONSTANTS u1, u2, d1, d2
MCServes == (u1 :> {d1}) @@ (u2 :> {d1, d2})
Symmetric == Permutations(Process)
=============================================================================
