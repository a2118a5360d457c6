------------------------------ MODULE MCFlight ------------------------------
(* Flight with two loops: a floor of 2, learned waits of 2 or 3, a full    *)
(* wait of 5. Two connects start in one loop, one in the other.            *)
EXTENDS Flight, TLC

CONSTANTS c1, c2, c3, l1, l2

TwoLoops == {l1, l2}
ThreeConns == {c1, c2, c3}
HomeOf == [c \in ThreeConns |-> IF c = c3 THEN l2 ELSE l1]

\* The two connects of one loop are alike.
Alike == Permutations({c1, c2})
=============================================================================
