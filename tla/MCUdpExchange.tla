---------------------------- MODULE MCUdpExchange ----------------------------
(* UdpExchange with a wait of three milliseconds: long enough for answers   *)
(* before, at and after the deadline, and for poll to be interrupted.       *)
EXTENDS UdpExchange
=============================================================================
