------------------------------- MODULE PortScan -------------------------------
(***************************************************************************)
(* scanner.zig's scanPorts and PortScan: the source that hands ports to    *)
(* the connect engine and takes their verdicts, over up to three passes.   *)
(* The engine is what ConnectRun.tla promises: it pulls probes (Next),     *)
(* reports each one once (Done), in any order, one call at a time, and     *)
(* returns when nothing is outstanding, or fails.                          *)
(***************************************************************************)
EXTENDS Rtt, Sequences, FiniteSets

CONSTANTS
  Start, End,       \* the range, inclusive
  ByRank,           \* ports.by_rank: ranked ports, most often open first
  FixedWaits,       \* the --timeout values tried, NoTimeout for none
  LossyMinAnswers,  \* LOSSY_MIN_ANSWERS
  Rtts              \* the round trips answers may take, in microseconds

NoTimeout == -1
NoAnswer == -1
NoWait == -1

Ports == Start..End
Total == End - Start + 1
Ranked == {ByRank[i] : i \in 1..Len(ByRank)}

ASSUME RangeAssumption == Start \in Nat /\ End \in Nat /\ Start <= End
ASSUME RankAssumption ==
  /\ ByRank \in Seq(Nat)
  /\ \A i, k \in 1..Len(ByRank) : ByRank[i] = ByRank[k] => i = k
ASSUME WaitsAssumption ==
  /\ FixedWaits \subseteq Nat \cup {NoTimeout} /\ Rtts \subseteq Nat
  /\ LossyMinAnswers \in Nat
  /\ 2 * FloorMs <= CeilingMs  \* the comptime assert beside PORT_TIMEOUT_MS

VARIABLES
  pass,            \* "first", "retry", "third", then "done" or "failed"
  nextRanked, nextPort,
  fixed,           \* fixed_ms, NoTimeout while null
  est,             \* estimator
  fastest,         \* fastest_answer_us, NoAnswer while maxInt
  openPorts,
  retries, nextRetry, silentTwice, answeredTwice, nextThird,
  halfUnits,
  advanced,        \* tracker.done: calls of Run.advance
  inFlight,        \* the probes handed out and not reported yet
  stop,            \* Run.cancel
  \* The host, and history.
  listening,       \* the ports something listens on
  tries, waited,   \* per port: tries made, and milliseconds waited in vain
  answer,          \* per port: what its answer was
  errored,         \* ports whose connect failed rather than waited
  blindly,         \* ports whose first try was blind
  deferred,        \* the ports of `retries` in the order they were deferred
  capped           \* waitCap has been set at some point

passVars == <<nextRanked, nextPort, nextRetry, nextThird>>
learnVars == <<est, fastest, capped>>
tallyVars == <<openPorts, retries, silentTwice, answeredTwice, halfUnits, advanced, deferred>>
historyVars == <<tries, waited, answer, errored, blindly>>
vars == <<pass, passVars, fixed, learnVars, tallyVars, inFlight, stop, listening, historyVars>>

Probe == [port : Ports, timeout : Nat, deferrable : BOOLEAN, blind : BOOLEAN]
Deferred == [port : Ports, waited : Nat, blind : BOOLEAN]

-----------------------------------------------------------------------------
(* Waits. *)

Far(fast) == fast = NoAnswer \/ fast > FloorMs * UsPerMs

\* The learned wait, when the host is near and two tries of it fit.
LearnedWait(e, fast) ==
  IF Far(fast) \/ 2 * TimeoutMs(e) > CeilingMs THEN NoWait ELSE TimeoutMs(e)

FirstTry(port) ==
  LET probe(ms, deferrable, blind) ==
        [port |-> port, timeout |-> ms, deferrable |-> deferrable, blind |-> blind]
      learned == LearnedWait(est, fastest)
  IN CASE fixed # NoTimeout -> probe(fixed, FALSE, FALSE)
       [] fixed = NoTimeout /\ fastest = NoAnswer -> probe(CeilingMs, FALSE, TRUE)
       [] fixed = NoTimeout /\ fastest # NoAnswer /\ learned # NoWait -> probe(learned, TRUE, FALSE)
       [] OTHER -> probe(CeilingMs, FALSE, FALSE)

\* Mutation: a second try may take the full wait again.
LeftMsFull(d) == CeilingMs

\* What the tries before left of the full wait.
LeftMs(d) == IF d.blind THEN CeilingMs ELSE CeilingMs - d.waited

RetryTry(d) ==
  [port |-> d.port, timeout |-> Smaller(TimeoutMs(est), LeftMs(d)),
   deferrable |-> FALSE, blind |-> FALSE]

ThirdTry(d) ==
  [port |-> d.port, timeout |-> TimeoutMs(est), deferrable |-> FALSE, blind |-> FALSE]

\* Whether the engine cut the probe short of its own wait.
CutShort(p, elapsed) == elapsed < p.timeout * UsPerMs

-----------------------------------------------------------------------------
(* next() *)

\* Mutation: the walk of the range takes ranked ports again.
PortsLeftRanked == nextPort..End

\* by_rank entries outside the range are stepped over, and so are ranked
\* ports once the rest of the range is walked.
RankedLeft == {i \in nextRanked..Len(ByRank) : ByRank[i] \in Ports}
PortsLeft == {q \in nextPort..End : q \notin Ranked}
First(S) == CHOOSE i \in S : \A k \in S : i <= k

FirstLeft == RankedLeft \cup PortsLeft # {}

HandOut(p) ==
  /\ inFlight' = inFlight \cup {p}
  /\ tries' = [tries EXCEPT ![p.port] = @ + 1]
  /\ blindly' = IF p.blind THEN blindly \cup {p.port} ELSE blindly
  /\ UNCHANGED <<pass, fixed, learnVars, tallyVars, stop, listening, waited, answer, errored>>

NextFirst ==
  /\ pass = "first" /\ ~stop /\ FirstLeft
  /\ IF RankedLeft # {}
       THEN /\ HandOut(FirstTry(ByRank[First(RankedLeft)]))
            /\ nextRanked' = First(RankedLeft) + 1
            /\ UNCHANGED nextPort
       ELSE /\ HandOut(FirstTry(First(PortsLeft)))
            /\ nextRanked' = Len(ByRank) + 1
            /\ nextPort' = First(PortsLeft) + 1
  /\ UNCHANGED <<nextRetry, nextThird>>

NextRetry ==
  /\ pass = "retry" /\ ~stop /\ nextRetry < Len(retries)
  /\ HandOut(RetryTry(retries[nextRetry + 1]))
  /\ nextRetry' = nextRetry + 1
  /\ UNCHANGED <<nextRanked, nextPort, nextThird>>

NextThird ==
  /\ pass = "third" /\ ~stop /\ nextThird < silentTwice
  /\ HandOut(ThirdTry(retries[nextThird + 1]))
  /\ nextThird' = nextThird + 1
  /\ UNCHANGED <<nextRanked, nextPort, nextRetry>>

-----------------------------------------------------------------------------
(* done() *)

\* An answer teaches its round trip.
Learn(outcome, elapsed) ==
  /\ IF outcome = "filtered"
       THEN UNCHANGED <<est, fastest>>
       ELSE /\ est' = ObserveRtt(est, elapsed)
            /\ fastest' = IF fastest = NoAnswer THEN elapsed ELSE Smaller(fastest, elapsed)
  /\ capped' = (capped \/ LearnedWait(est', fastest') # NoWait)

\* Mutation: a blind try is deferred only while the host looks near.
EarnsRetryNear(p, elapsed) ==
  p.deferrable \/ (p.blind /\ LearnedWait(est, fastest) # NoWait)

\* A try that earns the port another: a learned wait, or a blind one on a
\* host that has turned out near (or that was cut short because it had).
EarnsRetry(p, elapsed) ==
  \/ p.deferrable
  \/ p.blind /\ (LearnedWait(est, fastest) # NoWait \/ CutShort(p, elapsed))

\* Mutation: the slot about to be read.
SilentSlotAhead == nextRetry + 1

\* The slot of `retries` the next port silent on its second try moves to.
SilentSlot == silentTwice + 1

\* Mutation: a deferred port counts in full.
HalvesWhole(p, outcome, elapsed) == IF pass = "first" THEN 2 ELSE 1

\* How much of the port this verdict completes, in half ports.
Halves(p, outcome, elapsed) ==
  IF pass = "first" /\ ~(outcome = "filtered" /\ EarnsRetry(p, elapsed)) THEN 2 ELSE 1

AdvanceHalves(halves) ==
  /\ halfUnits' = halfUnits + halves
  /\ advanced' = advanced + ((halfUnits + halves) \div 2) - (halfUnits \div 2)

\* recordOpen, which every pass does before it counts the port.
RecordOpen(p, outcome) ==
  openPorts' = IF outcome = "open" THEN Append(openPorts, p.port) ELSE openPorts

DoneFirst(p, outcome, elapsed) ==
  /\ pass = "first"
  /\ IF outcome = "filtered" /\ EarnsRetry(p, elapsed)
       THEN /\ retries' = Append(retries, [port |-> p.port, waited |-> p.timeout, blind |-> p.blind])
            /\ deferred' = Append(deferred, p.port)
       ELSE UNCHANGED <<retries, deferred>>
  /\ AdvanceHalves(Halves(p, outcome, elapsed))
  /\ UNCHANGED <<silentTwice, answeredTwice>>

DoneRetry(p, outcome, elapsed) ==
  /\ pass = "retry"
  /\ IF outcome = "filtered"
       THEN /\ retries' = [retries EXCEPT ![SilentSlot] =
                             [port |-> p.port, waited |-> p.timeout, blind |-> FALSE]]
            /\ silentTwice' = silentTwice + 1
            /\ UNCHANGED answeredTwice
       ELSE /\ answeredTwice' = answeredTwice + 1
            /\ UNCHANGED <<retries, silentTwice>>
  /\ AdvanceHalves(Halves(p, outcome, elapsed))
  /\ UNCHANGED deferred

\* Progress was full after the second pass already.
DoneThird(p, outcome, elapsed) ==
  /\ pass = "third"
  /\ UNCHANGED <<retries, silentTwice, answeredTwice, halfUnits, advanced, deferred>>

Done(p, outcome, elapsed) ==
  /\ p \in inFlight
  /\ inFlight' = inFlight \ {p}
  /\ Learn(outcome, elapsed)
  /\ RecordOpen(p, outcome)
  /\ DoneFirst(p, outcome, elapsed) \/ DoneRetry(p, outcome, elapsed) \/ DoneThird(p, outcome, elapsed)
  /\ UNCHANGED <<pass, passVars, fixed, stop, listening, tries, blindly>>

\* What the engine can report: the port's answer, or none, because the
\* wait ran out, because a blind try was cut (never before its floor, and
\* only once the source has given a wait to cut it to), or because the
\* connect failed at once.
Answered(p) ==
  \E rtt \in Rtts :
    LET outcome == IF p.port \in listening THEN "open" ELSE "refused"
    IN /\ Done(p, outcome, rtt)
       /\ answer' = [answer EXCEPT ![p.port] = outcome]
       /\ UNCHANGED <<waited, errored>>

Unanswered(p, ms) ==
  /\ Done(p, "filtered", ms * UsPerMs)
  /\ waited' = [waited EXCEPT ![p.port] = @ + ms]
  /\ UNCHANGED <<answer, errored>>

Expired(p) == Unanswered(p, p.timeout)

Cut(p) == p.blind /\ capped /\ FloorMs < p.timeout /\ Unanswered(p, FloorMs)

Errored(p) ==
  /\ Done(p, "filtered", 0)
  /\ errored' = errored \cup {p.port}
  /\ UNCHANGED <<waited, answer>>

-----------------------------------------------------------------------------
(* scanPorts *)

NeedsThirdPass ==
  /\ ~stop /\ silentTwice # 0
  /\ answeredTwice >= LossyMinAnswers
  /\ 10 * answeredTwice >= Len(retries)

\* Mutation: a stopped run waits for the ports it was not to try.
RunOverDrained ==
  /\ inFlight = {}
  /\ \/ pass = "first" /\ ~FirstLeft
     \/ pass = "retry" /\ nextRetry >= Len(retries)
     \/ pass = "third" /\ nextThird >= silentTwice

\* A run returns once next() gave null and every probe is reported.
RunOver ==
  /\ inFlight = {}
  /\ \/ stop
     \/ pass = "first" /\ ~FirstLeft
     \/ pass = "retry" /\ nextRetry >= Len(retries)
     \/ pass = "third" /\ nextThird >= silentTwice

Sorted(s) ==
  CHOOSE t \in [1..Len(s) -> {s[i] : i \in 1..Len(s)}] :
    /\ \A i, k \in 1..Len(s) : i < k => t[i] <= t[k]
    /\ \A v \in {s[i] : i \in 1..Len(s)} :
         Cardinality({i \in 1..Len(s) : t[i] = v}) = Cardinality({i \in 1..Len(s) : s[i] = v})

NextPass ==
  /\ pass \in {"first", "retry", "third"} /\ RunOver
  /\ pass' = CASE pass = "first" -> "retry"
               [] pass = "retry" /\ NeedsThirdPass -> "third"
               [] OTHER -> "done"
  /\ openPorts' = IF pass' = "done" THEN Sorted(openPorts) ELSE openPorts
  /\ UNCHANGED <<passVars, fixed, learnVars, retries, silentTwice, answeredTwice, halfUnits,
                 advanced, deferred, inFlight, stop, listening, historyVars>>

\* connects.run fails, and scanPorts with it.
RunFails ==
  /\ pass \in {"first", "retry", "third"}
  /\ pass' = "failed" /\ inFlight' = {} /\ openPorts' = <<>>
  /\ UNCHANGED <<passVars, fixed, learnVars, retries, silentTwice, answeredTwice, halfUnits,
                 advanced, deferred, stop, listening, historyVars>>

Stop ==
  /\ pass \in {"first", "retry", "third"} /\ ~stop
  /\ stop' = TRUE
  /\ UNCHANGED <<pass, passVars, fixed, learnVars, tallyVars, inFlight, listening, historyVars>>

Over == pass \in {"done", "failed"} /\ UNCHANGED vars

Init ==
  /\ pass = "first"
  /\ nextRanked = 1 /\ nextPort = Start /\ nextRetry = 0 /\ nextThird = 0
  /\ fixed \in FixedWaits
  /\ est = NoEstimate /\ fastest = NoAnswer /\ capped = FALSE
  /\ openPorts = <<>> /\ retries = <<>> /\ silentTwice = 0 /\ answeredTwice = 0
  /\ halfUnits = 0 /\ advanced = 0 /\ deferred = <<>>
  /\ inFlight = {} /\ stop = FALSE /\ listening \in SUBSET Ports
  /\ tries = [q \in Ports |-> 0] /\ waited = [q \in Ports |-> 0]
  /\ answer = [q \in Ports |-> "none"] /\ errored = {} /\ blindly = {}

Pull == NextFirst \/ NextRetry \/ NextThird

Settle(p) == Answered(p) \/ Expired(p) \/ Cut(p) \/ Errored(p)

Next ==
  \/ Pull
  \/ \E p \in inFlight : Settle(p)
  \/ NextPass \/ RunFails \/ Stop \/ Over

Spec == Init /\ [][Next]_vars

(* The engine keeps pulling, and every probe settles within its wait. *)
Fairness ==
  /\ WF_vars(Pull) /\ WF_vars(NextPass)
  /\ \A q \in Ports : WF_vars(\E p \in inFlight : p.port = q /\ Settle(p))

FairSpec == Spec /\ Fairness

-----------------------------------------------------------------------------
(* Properties. *)

TypeOK ==
  /\ pass \in {"first", "retry", "third", "done", "failed"}
  /\ nextRanked \in 1..(Len(ByRank) + 1) /\ nextPort \in Start..(End + 1)
  /\ fixed \in Nat \cup {NoTimeout}
  /\ est \in Estimator /\ fastest \in Nat \cup {NoAnswer} /\ capped \in BOOLEAN
  /\ openPorts \in Seq(Ports) /\ retries \in Seq(Deferred) /\ deferred \in Seq(Ports)
  /\ nextRetry \in 0..Len(retries) /\ silentTwice \in Nat /\ answeredTwice \in Nat
  /\ nextThird \in Nat /\ halfUnits \in Nat /\ advanced \in Nat
  /\ inFlight \subseteq Probe /\ stop \in BOOLEAN /\ listening \subseteq Ports
  /\ tries \in [Ports -> Nat] /\ waited \in [Ports -> Nat]
  /\ answer \in [Ports -> {"none", "open", "refused"}]
  /\ errored \subseteq Ports /\ blindly \subseteq Ports

(* The second pass moves silent ports to the front of the very list it is
   still reading: "Each slot is handed out before any port can settle into
   it, so the list is never read where it was just written." Nor does the
   list outgrow its room, where appendAssumeCapacity checks nothing: every
   port's, and none at all with --timeout. *)
RetrySlotsIntact ==
  /\ pass = "retry" =>
       /\ silentTwice <= nextRetry
       /\ \A i \in (nextRetry + 1)..Len(retries) : retries[i].port = deferred[i]
  /\ Len(retries) <= IF fixed = NoTimeout THEN Total ELSE 0

(* One lost SYN hides no open port: a complete scan gives up on a port only
   after two tries, or one that waited as long as a fixed timeout would
   have, or because its connect failed outright. A try that was cut short
   counts for neither. *)
NoPortGivenUpEarly ==
  pass = "done" /\ ~stop =>
    \A q \in Ports :
      answer[q] = "none" =>
        \/ tries[q] >= 2 \/ q \in errored
        \/ waited[q] >= IF fixed = NoTimeout THEN CeilingMs ELSE fixed

(* Every port is tried and settled in the right number of tries: never more
   than one per pass, no answered port again, and none forgotten by a scan
   that was not stopped. The open ports returned are exactly those that
   answered as open, each once, in ascending order. *)
EveryPortSettled ==
  /\ \A q \in Ports : tries[q] <= CASE pass = "first" -> 1 [] pass = "retry" -> 2 [] OTHER -> 3
  /\ \A p \in inFlight : answer[p.port] = "none"
  /\ pass = "done" /\ ~stop => \A q \in Ports : tries[q] >= 1 /\ \A p \in inFlight : p.port # q
  /\ pass = "done" =>
       /\ {openPorts[i] : i \in DOMAIN openPorts} = {q \in Ports : answer[q] = "open"}
       /\ \A i \in 2..Len(openPorts) : openPorts[i - 1] < openPorts[i]

(* Progress reaches 100% when, and only when, every port has had its first
   and any second try: the half units of deferred ports add up exactly. *)
FullMeansSettled ==
  /\ halfUnits <= 2 * Total /\ advanced = halfUnits \div 2
  /\ advanced = Total => pass # "first" \/ (inFlight = {} /\ ~FirstLeft)
  /\ advanced = Total /\ pass = "retry" => inFlight = {} /\ nextRetry = Len(retries)
  /\ pass \in {"third", "done"} /\ ~stop => advanced = Total

(* The wait a silent port can cost. A learned first try and its second fit
   in one fixed timeout; a blind first try may add a second wait to a full
   one, and a third pass one more. With --timeout every port has that wait,
   "with no second try" (docs/README.md). *)
WaitBudget ==
  \A q \in Ports :
    /\ fixed = NoTimeout =>
         waited[q] <= CeilingMs * (1 + (IF q \in blindly THEN 1 ELSE 0)
                                     + (IF tries[q] = 3 THEN 1 ELSE 0))
    /\ fixed # NoTimeout => tries[q] <= 1 /\ waited[q] <= fixed

(* Every scan ends. *)
ScanEnds == <>(pass \in {"done", "failed"})

(* scanner.zig, PortScan.done: a port counts only after its event, "so a
   frontend never sees 100% before the last hit". *)
NoHitAfterFull ==
  [][advanced = Total => Len(openPorts') <= Len(openPorts)]_vars

(* docs/README.md: "No port waits longer than it did with the fixed
   timeout." Taken outside the third pass, which the code names as the one
   exception. *)
NoLongerThanFixed ==
  \A q \in Ports : fixed = NoTimeout /\ tries[q] <= 2 => waited[q] <= CeilingMs

=============================================================================
