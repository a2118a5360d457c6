---------------------------- MODULE MCRttLearning ----------------------------
(* RttLearning with a small microsecond, so that the reachable estimates   *)
(* are few: a floor of 5 ms, two of headroom, a ceiling of 25, and answers *)
(* from far below the floor to a third of the ceiling.                     *)
EXTENDS RttLearning
=============================================================================
