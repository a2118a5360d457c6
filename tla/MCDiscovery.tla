----------------------------- MODULE MCDiscovery -----------------------------
(* A scan of three hosts, with pools of two threads, and fewer whole       *)
(* percentages than hosts.                                                 *)
EXTENDS Discovery
=============================================================================
