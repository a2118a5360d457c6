----------------------------- MODULE MCIcmpSweep -----------------------------
(* Both sweeps with three hosts, at most two echoes in flight and one sent  *)
(* a millisecond: the third waits for a slot, and any of them may be        *)
(* refused, held up by full sockets, answered or left to expire.            *)
EXTENDS IcmpSweepWindows
=============================================================================
