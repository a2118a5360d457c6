------------------------------ MODULE MCWindow ------------------------------
(* Window with times small enough for a cut, its hold, a dark host and its *)
(* recovery to follow each other within MaxTime.                           *)
EXTENDS Window
=============================================================================
