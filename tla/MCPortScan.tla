----------------------------- MODULE MCPortScan -----------------------------
(* PortScan with the waits of scanner.zig, in milliseconds, over a handful *)
(* of ports. The round trips are one well under the floor, one that makes  *)
(* a host far, and one that pushes the learned wait past half the full one.*)
EXTENDS PortScan

RankedSecond == <<99, 2>>
Waits == {NoTimeout, 300}
=============================================================================
