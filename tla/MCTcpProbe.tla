------------------------------ MODULE MCTcpProbe ------------------------------
(* TcpProbe with three targets, two of them in flight, and two handles: the *)
(* third connect gets a handle that was closed before.                      *)
EXTENDS TcpProbe, TLC
CONSTANTS j1, j2, j3
ThreeJobs == {j1, j2, j3}
JobSymmetry == Permutations(ThreeJobs)
=============================================================================
