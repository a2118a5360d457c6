----------------------------- MODULE MCConnects -----------------------------
(* Connects with two loops and two jobs, both to the machine itself: they  *)
(* may meet each other, run short of sockets or of addresses, and fail to  *)
(* be held back for want of memory.                                        *)
EXTENDS Connects

CONSTANTS main, other, j1, j2

TwoLoops == {main, other}
TwoJobs == {j1, j2}
Both == {"socket", "address"}
=============================================================================
