----------------------------- MODULE RttLearning -----------------------------
(***************************************************************************)
(* A scan teaching its RttEstimator (Rtt.tla): answers of any round trip   *)
(* in Samples, in any order, and from some point on, perhaps, only ever    *)
(* one and the same (`steady`), to see the estimator forget what was       *)
(* before.                                                                 *)
(***************************************************************************)
EXTENDS Rtt

CONSTANTS Samples  \* the round trips answers may take, in microseconds

ASSUME SamplesAssumption == Samples \subseteq Nat

VARIABLES
  est,     \* the estimator
  lo, hi,  \* the fastest and the slowest answer so far
  steady   \* the one round trip still to come, or -1

learnVars == <<est, lo, hi, steady>>

LearnInit == est = NoEstimate /\ lo = 0 /\ hi = 0 /\ steady = -1

Observe(rtt) ==
  /\ steady \in {-1, rtt}
  /\ est' = ObserveRtt(est, rtt)
  /\ lo' = IF est.known THEN Smaller(lo, rtt) ELSE rtt
  /\ hi' = IF est.known THEN Larger(hi, rtt) ELSE rtt
  /\ UNCHANGED steady

Settle(rtt) ==
  /\ steady = -1
  /\ steady' = rtt
  /\ UNCHANGED <<est, lo, hi>>

LearnNext == \E rtt \in Samples : Observe(rtt) \/ Settle(rtt)

LearnSpec == LearnInit /\ [][LearnNext]_learnVars
FairSpec == LearnSpec /\ WF_learnVars(\E rtt \in Samples : Observe(rtt))

-----------------------------------------------------------------------------

LearnTypeOK ==
  /\ est \in Estimator /\ lo \in Nat /\ hi \in Nat
  /\ steady \in Samples \cup {-1}

(* However the truncating divisions fall, the smoothed round trip stays
   between the fastest and the slowest answer, and the variation below the
   slowest: nothing the estimator holds outgrows its samples. *)
EstimateInHull ==
  est.known => lo <= est.srtt /\ est.srtt <= hi /\ est.rttvar <= hi

(* A learned wait clears even the fastest answer seen by the whole headroom
   (or is the ceiling), never drops below the floor, and never exceeds what
   the slowest answer could justify: the rounding to milliseconds loses
   nothing. *)
WaitFitsAnswers ==
  /\ FloorMs <= TimeoutMs(est) /\ TimeoutMs(est) <= CeilingMs
  /\ est.known =>
       /\ \/ TimeoutMs(est) = CeilingMs
          \/ TimeoutMs(est) * UsPerMs >= lo + HeadroomMs * UsPerMs
       /\ \/ TimeoutMs(est) = FloorMs
          \/ (TimeoutMs(est) - 1) * UsPerMs < hi + Larger(4 * hi, HeadroomMs * UsPerMs)

\* The wait a link with one steady round trip settles on. The divisions
\* leave srtt and rttvar up to 7 us off for good.
SteadyWait(rtt) ==
  Smaller(CeilingMs,
    Larger(FloorMs, (rtt + Larger(28, HeadroomMs * UsPerMs) + UsPerMs - 1) \div UsPerMs))

(* A link that becomes steady is waited for as a steady link, however slow
   or uneven it was before: the estimator forgets. *)
ForgetsSlowAnswers ==
  \A rtt \in Samples : [](steady = rtt => <>[](TimeoutMs(est) <= SteadyWait(rtt)))

=============================================================================
