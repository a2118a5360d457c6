--------------------------------- MODULE Rtt ---------------------------------
(***************************************************************************)
(* rtt.zig's RttEstimator as operators on an estimator record: TCP's       *)
(* retransmission timer (RFC 6298) in whole microseconds, clamped between  *)
(* a floor and a ceiling in milliseconds. `known` is srtt_us # null. Every *)
(* division truncates, as u64's does.                                      *)
(***************************************************************************)
EXTENDS MaxMin

CONSTANTS
  FloorMs, HeadroomMs, CeilingMs,  \* RttEstimator.init's arguments
  UsPerMs                          \* std.time.us_per_ms

ASSUME RttAssumption ==
  /\ FloorMs \in Nat /\ HeadroomMs \in Nat /\ CeilingMs \in Nat
  /\ UsPerMs \in Nat \ {0}
  /\ FloorMs <= CeilingMs

Estimator == [known : BOOLEAN, srtt : Nat, rttvar : Nat]

\* RttEstimator.init
NoEstimate == [known |-> FALSE, srtt |-> 0, rttvar |-> 0]

Distance(a, b) == IF a > b THEN a - b ELSE b - a

\* Mutation: the old value keeps its full weight.
ObserveRttSums(e, rtt) ==
  IF e.known
    THEN [known |-> TRUE, srtt |-> e.srtt + rtt \div 8,
          rttvar |-> (3 * e.rttvar + Distance(e.srtt, rtt)) \div 4]
    ELSE [known |-> TRUE, srtt |-> rtt, rttvar |-> rtt \div 2]

\* Mutation: the variation never shrinks.
ObserveRttRemembers(e, rtt) ==
  IF e.known
    THEN [known |-> TRUE, srtt |-> (7 * e.srtt + rtt) \div 8,
          rttvar |-> Larger(e.rttvar, Distance(e.srtt, rtt))]
    ELSE [known |-> TRUE, srtt |-> rtt, rttvar |-> rtt \div 2]

\* The first sample seeds both values; later ones move the variation
\* first, against the old smoothed value.
ObserveRtt(e, rtt) ==
  IF e.known
    THEN [known |-> TRUE,
          srtt |-> (7 * e.srtt + rtt) \div 8,
          rttvar |-> (3 * e.rttvar + Distance(e.srtt, rtt)) \div 4]
    ELSE [known |-> TRUE, srtt |-> rtt, rttvar |-> rtt \div 2]

\* Mutation: rounded down.
WaitMsDown(e) ==
  (e.srtt + Larger(4 * e.rttvar, HeadroomMs * UsPerMs)) \div UsPerMs

\* srtt plus its headroom, rounded up to whole milliseconds.
WaitMs(e) ==
  (e.srtt + Larger(4 * e.rttvar, HeadroomMs * UsPerMs) + UsPerMs - 1) \div UsPerMs

TimeoutMs(e) ==
  IF e.known THEN Smaller(CeilingMs, Larger(FloorMs, WaitMs(e))) ELSE CeilingMs

=============================================================================
