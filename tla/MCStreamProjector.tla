------------------------- MODULE MCStreamProjector -------------------------
(* A small instance of StreamProjector for TLC.                            *)
EXTENDS StreamProjector, TLC
=============================================================================
