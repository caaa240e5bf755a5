------------------------------ MODULE MCScreen ------------------------------
(* TLC instance of Screen. *)
EXTENDS Screen

\* Between two characters, and before setCursor computes the position.
SafeMoments == {"idle", "next", "cursor"}
=============================================================================
