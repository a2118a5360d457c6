--------------------------- MODULE MCNeighborTable ---------------------------
(* The neighbor table read twice, of two hosts and one multicast row. *)
EXTENDS NeighborTable, TLC

Symmetry == Permutations(Ips \ NotHosts)
=============================================================================
