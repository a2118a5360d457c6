---------------------------- MODULE PortScan_proofs ----------------------------
(***************************************************************************)
(* Proofs about a port scan, for any range, ranking, waits and answers: no *)
(* port is forgotten, given up early or made to wait too long, the list of *)
(* retries may be overwritten while it is read, progress is full exactly   *)
(* when every port is settled, and the open ports come out sorted.         *)
(***************************************************************************)
EXTENDS PortScan, FiniteSetTheorems, SequenceTheorems, WellFoundedInduction, TLAPS

(* The ports the first pass has come to, the second and the third. *)
Walked ==
  {q \in Ports : \/ \E i \in 1..(nextRanked - 1) : ByRank[i] = q
                 \/ q < nextPort /\ q \notin Ranked}
Second == {deferred[i] : i \in 1..nextRetry}
Third == {retries[i].port : i \in 1..nextThird}

One(yes) == IF yes THEN 1 ELSE 0

(* What the variables hold, the open ports apart. *)
PassTypeOK ==
  /\ pass \in {"first", "retry", "third", "done", "failed"}
  /\ nextRanked \in 1..(Len(ByRank) + 1) /\ nextPort \in Start..(End + 1)
  /\ nextRetry \in 0..Len(retries) /\ nextThird \in Nat
  /\ silentTwice \in Nat /\ answeredTwice \in Nat
  /\ retries \in Seq(Deferred) /\ deferred \in Seq(Ports)
  /\ inFlight \subseteq Probe /\ stop \in BOOLEAN

RestTypeOK ==
  /\ fixed \in Nat \cup {NoTimeout}
  /\ est \in Estimator /\ fastest \in Nat \cup {NoAnswer} /\ capped \in BOOLEAN
  /\ halfUnits \in Nat /\ advanced \in Nat /\ listening \subseteq Ports
  /\ tries \in [Ports -> Nat] /\ waited \in [Ports -> Nat]
  /\ answer \in [Ports -> {"none", "open", "refused"}]
  /\ errored \subseteq Ports /\ blindly \subseteq Ports

(* Only waits that leave room for another are ever retried. *)
RoomInv ==
  /\ \A p \in inFlight : p.deferrable \/ p.blind \/ pass # "first" => p.timeout <= CeilingMs
  /\ \A i \in 1..Len(retries) : retries[i].waited <= CeilingMs

Types == PassTypeOK /\ RestTypeOK /\ RoomInv

(* A pass hands out what is its own, once; slots of the list of retries are
   written behind the one that is read next; a port is in flight once. *)
SlotInv ==
  /\ Len(deferred) = Len(retries)
  /\ \A i, k \in 1..Len(deferred) : deferred[i] = deferred[k] => i = k
  /\ \A i \in 1..Len(deferred) : deferred[i] \in Walked
  /\ pass \in {"first", "retry"} =>
       \A i \in (nextRetry + 1)..Len(retries) : retries[i].port = deferred[i]
  /\ silentTwice <= nextRetry /\ nextThird <= silentTwice
  /\ \A i, k \in 1..silentTwice : retries[i].port = retries[k].port => i = k
  /\ \A i \in 1..silentTwice : retries[i].port \in Second
  /\ pass = "first" => nextRetry = 0 /\ answeredTwice = 0
  /\ pass = "retry" => nextThird = 0

FlightInv ==
  /\ IsFiniteSet(inFlight) /\ (pass \in {"done", "failed"} => inFlight = {})
  /\ \A p, r \in inFlight : p.port = r.port => p = r
  /\ \A p \in inFlight :
       /\ pass = "first" => p.port \in Walked /\ \A i \in 1..Len(deferred) : deferred[i] # p.port
       /\ pass = "retry" => p.port \in Second /\ \A i \in 1..silentTwice : retries[i].port # p.port
       /\ pass = "third" => p.port \in Third

CountInv ==
  /\ pass = "retry" => silentTwice + answeredTwice + Cardinality(inFlight) = nextRetry
  /\ pass \in {"third", "done"} => silentTwice + answeredTwice = nextRetry
  /\ ~stop /\ pass \in {"retry", "third", "done"} => ~FirstLeft
  /\ ~stop /\ pass \in {"third", "done"} => nextRetry = Len(retries)

PassInv == SlotInv /\ FlightInv /\ CountInv

(* Tries are those of the passes. *)
TriesInv == \A q \in Ports : tries[q] = One(q \in Walked) + One(q \in Second) + One(q \in Third)

(* A port not tried yet has no answer, and neither has one that is tried or
   has yet to be. *)
AnswerInv ==
  /\ \A q \in Ports \ Walked : answer[q] = "none"
  /\ \A p \in inFlight : answer[p.port] = "none"
  /\ pass \in {"first", "retry"} =>
       \A i \in (nextRetry + 1)..Len(deferred) : answer[deferred[i]] = "none"
  /\ pass \in {"retry", "third"} =>
       \A i \in (nextThird + 1)..silentTwice : answer[retries[i].port] = "none"

OpenInv ==
  /\ openPorts \in Seq(Ports)
  /\ \A i, k \in 1..Len(openPorts) : openPorts[i] = openPorts[k] => i = k
  /\ pass # "failed" => {openPorts[i] : i \in 1..Len(openPorts)} = {q \in Ports : answer[q] = "open"}
  /\ pass = "done" => \A i \in 2..Len(openPorts) : openPorts[i - 1] < openPorts[i]

(* What has been counted, in halves. *)
HalvesInv ==
  /\ advanced = halfUnits \div 2
  /\ pass = "first" => halfUnits = 2 * (Cardinality(Walked) - Cardinality(inFlight)) - Len(retries)
  /\ pass \in {"retry", "third", "done"} =>
       halfUnits = 2 * Cardinality(Walked) - Len(retries) + silentTwice + answeredTwice
  /\ halfUnits <= 2 * Total

(* What a port has waited, and what a try may add to it. *)
Full == IF fixed = NoTimeout THEN CeilingMs ELSE fixed
Extra(yes) == IF yes THEN CeilingMs ELSE 0
Twice(q) == CeilingMs + Extra(q \in blindly)
Budget(q) == Twice(q) + Extra(q \in Third)

WaitInv ==
  /\ \A q \in Ports \ Walked : waited[q] = 0
  /\ pass = "first" => \A p \in inFlight : waited[p.port] = 0 /\ (p.blind => p.port \in blindly)
  /\ fixed = NoTimeout =>
       /\ \A q \in Ports : waited[q] <= Budget(q)
       /\ \A p \in inFlight : waited[p.port] + p.timeout <= Budget(p.port)
       /\ pass \in {"first", "retry"} =>
            \A i \in (nextRetry + 1)..Len(retries) :
              LET d == retries[i]
              IN /\ d.blind => d.port \in blindly /\ waited[d.port] <= CeilingMs
                 /\ ~d.blind => waited[d.port] <= d.waited /\ d.waited <= CeilingMs
       /\ pass \in {"retry", "third"} =>
            \A i \in (nextThird + 1)..silentTwice :
              waited[retries[i].port] <= Twice(retries[i].port)

(* A port without an answer is tried again, unless its only try was a full one. *)
EarlyInv ==
  /\ pass = "first" => \A p \in inFlight : ~p.deferrable => p.timeout = Full
  /\ pass # "first" => \A p \in inFlight : ~p.blind
  /\ pass # "failed" =>
       \A q \in Walked : \/ answer[q] # "none" \/ q \in errored \/ waited[q] >= Full
                         \/ \E i \in 1..Len(deferred) : deferred[i] = q
                         \/ pass = "first" /\ \E p \in inFlight : p.port = q

(* With --timeout nothing is tried again, so nothing is deferred: the list of
   retries, which has no room then, stays empty. *)
FixedInv ==
  fixed # NoTimeout =>
    /\ retries = <<>>
    /\ \A p \in inFlight : ~p.deferrable /\ ~p.blind
    /\ \A q \in Ports : waited[q] <= fixed

-----------------------------------------------------------------------------
(* Operators. *)

(* The range. *)
LEMMA PortsFacts ==
  /\ Ports \subseteq Nat /\ IsFiniteSet(Ports) /\ Cardinality(Ports) = Total /\ Total \in Nat
  /\ Len(ByRank) \in Nat /\ DOMAIN ByRank = 1..Len(ByRank)
  /\ \A i \in 1..Len(ByRank) : ByRank[i] \in Nat
  <1>1. Start \in Int /\ End \in Int /\ ~(Start > End)
    BY RangeAssumption
  <1>2. IsFiniteSet(Ports) /\ Cardinality(Ports) = Total
    BY <1>1, FS_Interval DEF Ports, Total
  <1> QED
    BY <1>2, RangeAssumption, RankAssumption DEF Ports, Total

(* A set of numbers that is not empty has a least, and First finds it. *)
LEMMA FirstOf ==
  ASSUME NEW S \in SUBSET Nat, S # {}
  PROVE  First(S) \in S /\ \A k \in S : First(S) <= k
  <1> DEFINE R == {p \in Nat \X Nat : p[1] < p[2]}
  <1>1. IsWellFoundedOn(R, Nat)
    BY NatLessThanWellFounded DEF OpToRel
  <1>2. \A a, b \in Nat : a < b => <<a, b>> \in R
    OBVIOUS
  <1> HIDE DEF R
  <1>3. PICK m \in S : \A k \in S : ~(<<k, m>> \in R)
    BY <1>1, WFMin
  <1>4. m \in Nat /\ \A k \in S : k \in Nat /\ ~(k < m)
    BY <1>2, <1>3
  <1>5. \E i \in S : \A k \in S : i <= k
    BY <1>3, <1>4
  <1> QED
    BY <1>5 DEF First

(* A learned wait lies between floor and ceiling. *)
LEMMA TimeoutRange ==
  ASSUME NEW e \in Estimator
  PROVE  TimeoutMs(e) \in Nat /\ FloorMs <= TimeoutMs(e) /\ TimeoutMs(e) <= CeilingMs
  <1>1. e.srtt \in Nat /\ e.rttvar \in Nat
    BY DEF Estimator
  <1>2. PICK head \in Nat : head = HeadroomMs * UsPerMs
    BY RttAssumption
  <1>3. e.srtt + Larger(4 * e.rttvar, head) + UsPerMs - 1 \in Nat
    BY <1>1, RttAssumption DEF Larger
  <1>4. WaitMs(e) \in Nat
    BY <1>2, <1>3, RttAssumption DEF WaitMs
  <1> QED
    BY <1>4, RttAssumption DEF TimeoutMs, Smaller, Larger

(* What an answer teaches is an estimate. *)
LEMMA ObserveType ==
  ASSUME NEW e \in Estimator, NEW rtt \in Nat
  PROVE  ObserveRtt(e, rtt) \in Estimator
  <1>1. e.srtt \in Nat /\ e.rttvar \in Nat
    BY DEF Estimator
  <1>2. PICK yes : yes = TRUE
    OBVIOUS
  <1>3. /\ (7 * e.srtt + rtt) \div 8 \in Nat /\ (3 * e.rttvar + Distance(e.srtt, rtt)) \div 4 \in Nat
        /\ rtt \div 2 \in Nat
    BY <1>1 DEF Distance
  <1>4. \A a, b \in Nat : [known |-> yes, srtt |-> a, rttvar |-> b] \in Estimator
    BY <1>2 DEF Estimator
  <1> QED
    BY <1>2, <1>3, <1>4 DEF ObserveRtt

(* The wait the learned one is, if there is any. *)
LEMMA LearnedFacts ==
  ASSUME NEW e \in Estimator, NEW fast
  PROVE  LearnedWait(e, fast) # NoWait => LearnedWait(e, fast) = TimeoutMs(e)
  BY DEF LearnedWait

(* A probe of these parts. *)
LEMMA ProbeRecord ==
  ASSUME NEW q \in Ports, NEW ms \in Nat, NEW d \in BOOLEAN, NEW b \in BOOLEAN
  PROVE  LET p == [port |-> q, timeout |-> ms, deferrable |-> d, blind |-> b]
         IN p \in Probe /\ p.port = q /\ p.timeout = ms /\ p.deferrable = d /\ p.blind = b
  BY DEF Probe

(* A first try waits in full, or earns the port another. *)
LEMMA FirstTryFacts ==
  ASSUME RestTypeOK, NEW q \in Ports
  PROVE  /\ FirstTry(q) \in Probe /\ FirstTry(q).port = q
         /\ ~FirstTry(q).deferrable => FirstTry(q).timeout = Full
         /\ FirstTry(q).deferrable \/ FirstTry(q).blind => fixed = NoTimeout
         /\ fixed = NoTimeout => FirstTry(q).timeout <= CeilingMs
  <1>1. PICK yes, no : yes = TRUE /\ no = FALSE
    OBVIOUS
  <1>2. yes \in BOOLEAN /\ no \in BOOLEAN
    BY <1>1
  <1>3. est \in Estimator /\ fixed \in Nat \cup {NoTimeout} /\ CeilingMs \in Nat
    BY RttAssumption DEF RestTypeOK
  <1>4. TimeoutMs(est) \in Nat /\ TimeoutMs(est) <= CeilingMs
    BY <1>3, TimeoutRange
  <1>5. CASE fixed # NoTimeout
    <2>1. FirstTry(q) = [port |-> q, timeout |-> fixed, deferrable |-> no, blind |-> no]
      BY <1>1, <1>5 DEF FirstTry
    <2>3. /\ FirstTry(q) \in Probe /\ FirstTry(q).port = q /\ FirstTry(q).timeout = fixed
          /\ FirstTry(q).deferrable = no /\ FirstTry(q).blind = no
      BY <1>2, <1>3, <1>5, <2>1, ProbeRecord
    <2>4. ~FirstTry(q).deferrable /\ ~FirstTry(q).blind
      BY <1>1, <2>3
    <2> QED
      BY <1>3, <1>5, <2>3, <2>4 DEF Full
  <1>6. CASE fixed = NoTimeout /\ fastest = NoAnswer
    <2>1. FirstTry(q) = [port |-> q, timeout |-> CeilingMs, deferrable |-> no, blind |-> yes]
      BY <1>1, <1>6 DEF FirstTry
    <2>3. /\ FirstTry(q) \in Probe /\ FirstTry(q).port = q /\ FirstTry(q).timeout = CeilingMs
          /\ FirstTry(q).deferrable = no /\ FirstTry(q).blind = yes
      BY <1>2, <1>3, <1>6, <2>1, ProbeRecord
    <2>4. ~FirstTry(q).deferrable /\ FirstTry(q).blind
      BY <1>1, <2>3
    <2> QED
      BY <1>3, <1>6, <2>3, <2>4 DEF Full
  <1>7. CASE fixed = NoTimeout /\ fastest # NoAnswer /\ LearnedWait(est, fastest) # NoWait
    <2>1. FirstTry(q) = [port |-> q, timeout |-> LearnedWait(est, fastest), deferrable |-> yes, blind |-> no]
      BY <1>1, <1>7 DEF FirstTry
    <2>2. LearnedWait(est, fastest) = TimeoutMs(est)
      BY <1>3, <1>7, LearnedFacts
    <2>3. /\ FirstTry(q) \in Probe /\ FirstTry(q).port = q /\ FirstTry(q).timeout = LearnedWait(est, fastest)
          /\ FirstTry(q).deferrable = yes /\ FirstTry(q).blind = no
      BY <1>2, <1>3, <1>7, <2>1, <1>4, <2>2, ProbeRecord
    <2>4. FirstTry(q).deferrable /\ ~FirstTry(q).blind
      BY <1>1, <2>3
    <2> QED
      BY <1>3, <1>7, <2>3, <2>4, <1>4, <2>2 DEF Full
  <1>8. CASE fixed = NoTimeout /\ fastest # NoAnswer /\ LearnedWait(est, fastest) = NoWait
    <2>1. FirstTry(q) = [port |-> q, timeout |-> CeilingMs, deferrable |-> no, blind |-> no]
      BY <1>1, <1>8 DEF FirstTry
    <2>3. /\ FirstTry(q) \in Probe /\ FirstTry(q).port = q /\ FirstTry(q).timeout = CeilingMs
          /\ FirstTry(q).deferrable = no /\ FirstTry(q).blind = no
      BY <1>2, <1>3, <1>8, <2>1, ProbeRecord
    <2>4. ~FirstTry(q).deferrable /\ ~FirstTry(q).blind
      BY <1>1, <2>3
    <2> QED
      BY <1>3, <1>8, <2>3, <2>4 DEF Full
  <1> QED
    BY <1>5, <1>6, <1>7, <1>8

(* A second try takes what the first left; a third a wait of its own. *)
LEMMA LaterTryFacts ==
  ASSUME RestTypeOK, NEW d \in Deferred, d.waited <= CeilingMs
  PROVE  /\ RetryTry(d) \in Probe /\ RetryTry(d).port = d.port /\ ~RetryTry(d).blind
         /\ ThirdTry(d) \in Probe /\ ThirdTry(d).port = d.port /\ ~ThirdTry(d).blind
         /\ RetryTry(d).timeout <= LeftMs(d) /\ RetryTry(d).timeout <= CeilingMs
         /\ ThirdTry(d).timeout <= CeilingMs
  <1>1. est \in Estimator /\ CeilingMs \in Nat
    BY RttAssumption DEF RestTypeOK
  <1>2. TimeoutMs(est) \in Nat /\ TimeoutMs(est) <= CeilingMs
    BY <1>1, TimeoutRange
  <1>3. d.port \in Ports /\ d.waited \in Nat
    BY DEF Deferred
  <1>4. LeftMs(d) \in Nat
    BY <1>1, <1>3 DEF LeftMs
  <1>5. PICK ms \in Nat : ms = Smaller(TimeoutMs(est), LeftMs(d)) /\ ms <= LeftMs(d) /\ ms <= CeilingMs
    BY <1>1, <1>2, <1>4 DEF Smaller
  <1>6. PICK no : no = FALSE
    OBVIOUS
  <1>7. \A n \in Nat :
          LET p == [port |-> d.port, timeout |-> n, deferrable |-> no, blind |-> no]
          IN p \in Probe /\ p.port = d.port /\ p.timeout = n /\ p.blind = no
    BY <1>3, <1>6 DEF Probe
  <1>8. /\ RetryTry(d) = [port |-> d.port, timeout |-> ms, deferrable |-> no, blind |-> no]
        /\ ThirdTry(d) = [port |-> d.port, timeout |-> TimeoutMs(est), deferrable |-> no, blind |-> no]
    BY <1>5, <1>6 DEF RetryTry, ThirdTry
  <1> QED
    BY <1>2, <1>5, <1>6, <1>7, <1>8

-----------------------------------------------------------------------------
(* Sorting. *)

LEMMA UpTo == ASSUME NEW n \in Nat PROVE IsFiniteSet(1..n) /\ Cardinality(1..n) = n
  BY FS_Interval

(* The numbers of a finite set have ranks. *)
LEMMA Ranks ==
  ASSUME NEW S \in SUBSET Nat, IsFiniteSet(S), NEW n \in Nat, Cardinality(S) = n
  PROVE  \E rank \in [S -> 1..n] :
           /\ \A u, v \in S : u < v => rank[u] < rank[v]
           /\ \A i \in 1..n : \E v \in S : rank[v] = i
  <1> DEFINE upto(v) == {u \in S : u <= v}
             rank == [v \in S |-> Cardinality(upto(v))]
  <1>1. ASSUME NEW v \in S
        PROVE  IsFiniteSet(upto(v)) /\ Cardinality(upto(v)) \in 1..n
    <2>1. upto(v) \in SUBSET S /\ v \in upto(v)
      OBVIOUS
    <2>2. IsFiniteSet(upto(v)) /\ Cardinality(upto(v)) <= Cardinality(S)
      BY <2>1, FS_Subset
    <2>3. Cardinality(upto(v)) \in Nat /\ Cardinality(upto(v)) # 0
      BY <2>1, <2>2, FS_CardinalityType, FS_EmptySet
    <2> QED
      BY <2>2, <2>3
  <1>2. ASSUME NEW u \in S, NEW v \in S, u < v
        PROVE  Cardinality(upto(u)) < Cardinality(upto(v))
    <2>1. upto(u) \in SUBSET upto(v) /\ v \in upto(v) /\ v \notin upto(u)
      <3>1. u \in Nat /\ v \in Nat /\ (\A x \in S : x \in Nat)
        OBVIOUS
      <3>2. \A x \in S : x <= u => x <= v
        BY <1>2, <3>1
      <3>3. v <= v /\ ~(v <= u)
        BY <1>2, <3>1
      <3>4. upto(u) \in SUBSET upto(v)
        BY <3>2
      <3> QED
        BY <3>3, <3>4
    <2>2. /\ Cardinality(upto(u)) <= Cardinality(upto(v))
          /\ Cardinality(upto(v)) = Cardinality(upto(u)) => upto(v) = upto(u)
      BY <1>1, <2>1, FS_Subset
    <2> QED
      BY <1>1, <2>1, <2>2
  <1>3. rank \in [S -> 1..n] /\ \A v \in S : rank[v] = Cardinality(upto(v))
    BY <1>1
  <1> HIDE DEF upto, rank
  <1>4. \A u, v \in S : u < v => rank[u] < rank[v]
    BY <1>2, <1>3
  <1>5. rank \in Injection(S, 1..n)
    <2>1. \A u, v \in S : rank[u] = rank[v] => u = v
      <3> SUFFICES ASSUME NEW u \in S, NEW v \in S, rank[u] = rank[v], u # v PROVE FALSE
        OBVIOUS
      <3>1. u < v \/ v < u
        OBVIOUS
      <3> QED
        BY <1>3, <1>4, <3>1
    <2> QED
      BY <1>3, <2>1 DEF Injection, IsInjective
  <1>6. IsFiniteSet(1..n) /\ Cardinality(1..n) = n
    BY UpTo
  <1>7. rank \in Surjection(S, 1..n)
    BY <1>5, <1>6, FS_Injection
  <1>8. \A i \in 1..n : \E v \in S : rank[v] = i
    BY <1>7 DEF Surjection
  <1> QED
    BY <1>3, <1>4, <1>8

(* A sequence without repetition is sorted by exactly one order: Sorted has it. *)
LEMMA SortedFacts ==
  ASSUME NEW s \in Seq(Ports), \A i, k \in 1..Len(s) : s[i] = s[k] => i = k
  PROVE  /\ Sorted(s) \in Seq(Ports) /\ Len(Sorted(s)) = Len(s)
         /\ \A i, k \in 1..Len(s) : Sorted(s)[i] = Sorted(s)[k] => i = k
         /\ \A i \in 2..Len(s) : Sorted(s)[i - 1] < Sorted(s)[i]
         /\ {Sorted(s)[i] : i \in 1..Len(s)} = {s[i] : i \in 1..Len(s)}
  <1> DEFINE n == Len(s)
             S == {s[i] : i \in 1..n}
             Right(t) == /\ \A i, k \in 1..n : i < k => t[i] <= t[k]
                         /\ \A v \in S : Cardinality({i \in 1..n : t[i] = v})
                                           = Cardinality({i \in 1..n : s[i] = v})
  <1>1. n \in Nat /\ (\A i \in 1..n : s[i] \in Ports) /\ S \in SUBSET Nat /\ S \subseteq Ports
    <2>1. n \in Nat
      OBVIOUS
    <2>2. \A i \in 1..n : s[i] \in Ports
      OBVIOUS
    <2> QED
      BY <2>1, <2>2, PortsFacts
  <1>2. \A v \in S : Cardinality({i \in 1..n : s[i] = v}) = 1
    <2> SUFFICES ASSUME NEW v \in S PROVE Cardinality({i \in 1..n : s[i] = v}) = 1
      OBVIOUS
    <2>1. PICK k \in 1..n : s[k] = v
      OBVIOUS
    <2>2. {i \in 1..n : s[i] = v} = {k}
      BY <2>1
    <2> QED
      BY <2>2, FS_Singleton
  <1>3. IsFiniteSet(S) /\ Cardinality(S) = n
    <2>1. [i \in 1..n |-> s[i]] \in Bijection(1..n, S)
      BY DEF Bijection, Injection, Surjection, IsInjective
    <2>2. IsFiniteSet(1..n) /\ Cardinality(1..n) = n
      BY <1>1, UpTo
    <2> QED
      BY <2>1, <2>2, FS_Bijection DEF ExistsBijection
  <1> HIDE DEF n, S
  <1>4. PICK rank \in [S -> 1..n] :
          /\ \A u, v \in S : u < v => rank[u] < rank[v]
          /\ \A i \in 1..n : \E v \in S : rank[v] = i
    BY <1>1, <1>3, Ranks
  <1>5. \A u, v \in S : rank[u] = rank[v] => u = v
    <2> SUFFICES ASSUME NEW u \in S, NEW v \in S, rank[u] = rank[v], u # v PROVE FALSE
      OBVIOUS
    <2>1. (u < v \/ v < u) /\ rank[u] \in Nat /\ rank[v] \in Nat
      BY <1>1
    <2> QED
      BY <1>4, <2>1
  <1> DEFINE t == [i \in 1..n |-> CHOOSE v \in S : rank[v] = i]
  <1>6. \A i \in 1..n : t[i] \in S /\ rank[t[i]] = i
    BY <1>4
  <1>7. t \in [1..n -> S]
    BY <1>6
  <1> HIDE DEF t
  <1>8. Right(t)
    <2>1. ASSUME NEW i \in 1..n, NEW k \in 1..n, i < k PROVE t[i] <= t[k]
      <3>1. t[i] \in Nat /\ t[k] \in Nat /\ t[i] \in S /\ t[k] \in S
        BY <1>1, <1>6
      <3>2. ~(t[k] < t[i])
        BY <1>4, <1>6, <2>1, <3>1
      <3> QED
        BY <3>1, <3>2
    <2>2. ASSUME NEW v \in S PROVE Cardinality({i \in 1..n : t[i] = v}) = 1
      <3>1. {i \in 1..n : t[i] = v} = {rank[v]}
        BY <1>5, <1>6
      <3> QED
        BY <3>1, FS_Singleton
    <2> QED
      BY <1>2, <2>1, <2>2
  <1>9. Sorted(s) \in [1..n -> S] /\ Right(Sorted(s))
    <2>1. \E u \in [1..n -> S] : Right(u)
      BY <1>7, <1>8
    <2>2. Sorted(s) = CHOOSE u \in [1..n -> S] : Right(u)
      BY DEF Sorted, n, S
    <2> HIDE DEF Right
    <2> QED
      BY <2>1, <2>2
  <1>10. PICK r : r = Sorted(s)
    OBVIOUS
  <1>11. r \in [1..n -> S] /\ Right(r)
    BY <1>9, <1>10
  <1>12. \A v \in S : \E k \in 1..n : {i \in 1..n : r[i] = v} = {k}
    <2> SUFFICES ASSUME NEW v \in S PROVE \E k \in 1..n : {i \in 1..n : r[i] = v} = {k}
      OBVIOUS
    <2>1. {i \in 1..n : r[i] = v} \in SUBSET (1..n) /\ IsFiniteSet(1..n)
      BY <1>1, UpTo
    <2>2. IsFiniteSet({i \in 1..n : r[i] = v}) /\ Cardinality({i \in 1..n : r[i] = v}) = 1
      BY <1>2, <1>11, <2>1, FS_Subset
    <2>3. PICK k : {i \in 1..n : r[i] = v} = {k}
      BY <2>2, FS_Singleton
    <2> QED
      BY <2>3
  <1>13. \A i, k \in 1..n : r[i] = r[k] => i = k
    <2> SUFFICES ASSUME NEW i \in 1..n, NEW k \in 1..n, r[i] = r[k] PROVE i = k
      OBVIOUS
    <2>1. PICK m \in 1..n : {h \in 1..n : r[h] = r[i]} = {m}
      BY <1>11, <1>12
    <2> QED
      BY <2>1
  <1>14. \A v \in S : \E k \in 1..n : r[k] = v
    BY <1>12
  <1>15. r \in Seq(Ports) /\ Len(r) = n
    BY <1>1, <1>11
  <1>16. \A i \in 2..n : r[i - 1] < r[i]
    <2> SUFFICES ASSUME NEW i \in 2..n PROVE r[i - 1] < r[i]
      OBVIOUS
    <2>1. i - 1 \in 1..n /\ i \in 1..n /\ i - 1 < i /\ i - 1 # i
      BY <1>1
    <2>2. r[i - 1] <= r[i] /\ r[i - 1] # r[i] /\ r[i - 1] \in Nat /\ r[i] \in Nat
      BY <1>1, <1>11, <1>13, <2>1
    <2> QED
      BY <2>2
  <1>17. {r[i] : i \in 1..n} = S
    BY <1>11, <1>14
  <1>18. Len(s) = n /\ {s[i] : i \in 1..Len(s)} = S
    BY DEF n, S
  <1>19. Sorted(s) \in Seq(Ports) /\ Len(Sorted(s)) = Len(s)
    BY <1>10, <1>15, <1>18
  <1>20. \A i, k \in 1..Len(s) : Sorted(s)[i] = Sorted(s)[k] => i = k
    BY <1>10, <1>13, <1>18
  <1>21. \A i \in 2..Len(s) : Sorted(s)[i - 1] < Sorted(s)[i]
    BY <1>10, <1>16, <1>18
  <1>22. {Sorted(s)[i] : i \in 1..Len(s)} = {s[i] : i \in 1..Len(s)}
    <2>1. 1..Len(s) = 1..n
      BY <1>18
    <2>2. {Sorted(s)[i] : i \in 1..Len(s)} = {r[i] : i \in 1..n}
      BY <1>10, <2>1, Zenon
    <2> QED
      BY <1>17, <1>18, <2>2, Zenon
  <1> QED
    BY <1>19, <1>20, <1>21, <1>22

-----------------------------------------------------------------------------
(* Steps. *)

Outcomes == {"open", "refused", "filtered"}

(* How a probe ends: with an answer, its wait over, cut short, or failed. *)
Ends(p, outcome, elapsed) ==
  /\ Done(p, outcome, elapsed)
  /\ \/ /\ outcome # "filtered" /\ answer' = [answer EXCEPT ![p.port] = outcome]
        /\ waited' = waited /\ errored' = errored
     \/ /\ outcome = "filtered" /\ answer' = answer
        /\ \/ waited' = [waited EXCEPT ![p.port] = @ + p.timeout] /\ errored' = errored
           \/ /\ p.blind /\ CutShort(p, elapsed) /\ FloorMs < p.timeout
              /\ waited' = [waited EXCEPT ![p.port] = @ + FloorMs] /\ errored' = errored
           \/ waited' = waited /\ errored' = errored \cup {p.port}

LEMMA SettleEnds ==
  ASSUME PassTypeOK, NEW p \in inFlight, Settle(p)
  PROVE  \E outcome \in Outcomes, elapsed \in Nat : Ends(p, outcome, elapsed)
  <1>1. p.timeout \in Nat /\ UsPerMs \in Nat /\ UsPerMs >= 1 /\ FloorMs \in Nat
    BY RttAssumption DEF PassTypeOK, Probe
  <1>2. CASE Answered(p)
    <2>1. PICK rtt \in Rtts : \E outcome \in {"open", "refused"} :
            /\ Done(p, outcome, rtt)
            /\ answer' = [answer EXCEPT ![p.port] = outcome]
            /\ waited' = waited /\ errored' = errored
      BY <1>2 DEF Answered
    <2>2. rtt \in Nat
      BY WaitsAssumption
    <2> QED
      BY <2>1, <2>2 DEF Ends, Outcomes
  <1>3. CASE Expired(p)
    <2>1. p.timeout * UsPerMs \in Nat
      BY <1>1
    <2> QED
      BY <1>3, <2>1 DEF Expired, Unanswered, Ends, Outcomes
  <1>4. CASE Cut(p)
    <2>1. PICK a \in Nat, b \in Nat, u \in Nat : a = FloorMs /\ b = p.timeout /\ u = UsPerMs
      BY <1>1
    <2>2. a < b /\ u >= 1
      BY <1>1, <1>4, <2>1 DEF Cut
    <2>3. (b - a) * u >= 1
      BY <2>2
    <2>4. a * u < b * u /\ a * u \in Nat
      BY <2>3
    <2>5. FloorMs * UsPerMs \in Nat /\ CutShort(p, FloorMs * UsPerMs)
      BY <2>1, <2>4 DEF CutShort
    <2> QED
      BY <1>4, <2>5 DEF Cut, Unanswered, Ends, Outcomes
  <1>5. CASE Errored(p)
    BY <1>5 DEF Errored, Ends, Outcomes
  <1> QED
    BY <1>2, <1>3, <1>4, <1>5 DEF Settle

(* The steps of Next. *)
LEMMA NextCases ==
  ASSUME PassTypeOK, [Next]_vars
  PROVE  \/ NextFirst \/ NextRetry \/ NextThird
         \/ \E p \in inFlight : \E outcome \in Outcomes, elapsed \in Nat : Ends(p, outcome, elapsed)
         \/ NextPass \/ RunFails \/ Stop \/ UNCHANGED vars
  BY SettleEnds DEF Next, Pull, Over

(* The first pass comes to a port it has not been at. *)
LEMMA FirstFacts ==
  ASSUME PassTypeOK, NextFirst
  PROVE  /\ pass = "first" /\ ~stop /\ nextRetry' = nextRetry /\ nextThird' = nextThird
         /\ nextRanked' \in 1..(Len(ByRank) + 1) /\ nextPort' \in Start..(End + 1)
         /\ \E q \in Ports \ Walked : HandOut(FirstTry(q)) /\ Walked' = Walked \cup {q}
  <1>0. /\ pass = "first" /\ ~stop /\ nextRetry' = nextRetry /\ nextThird' = nextThird
        /\ nextRanked \in 1..(Len(ByRank) + 1) /\ nextPort \in Start..(End + 1)
        /\ Len(ByRank) \in Nat /\ Start \in Nat /\ End \in Nat /\ Start <= End
    BY PortsFacts, RangeAssumption DEF NextFirst, PassTypeOK
  <1>1. CASE RankedLeft # {}
    <2>1. RankedLeft \in SUBSET Nat
      BY <1>0 DEF RankedLeft
    <2>2. PICK k : k = First(RankedLeft) /\ k \in RankedLeft /\ \A i \in RankedLeft : k <= i
      BY <1>1, <2>1, FirstOf
    <2>3. /\ HandOut(FirstTry(ByRank[k])) /\ nextRanked' = k + 1 /\ nextPort' = nextPort
      BY <1>1, <2>2 DEF NextFirst
    <2>4. k \in 1..Len(ByRank) /\ nextRanked <= k /\ ByRank[k] \in Ports
      BY <1>0, <2>2 DEF RankedLeft
    <2>5. \A i \in nextRanked..(k - 1) : ByRank[i] \notin Ports
      BY <1>0, <2>2, <2>4 DEF RankedLeft
    <2>6. \A i \in 1..Len(ByRank) : ByRank[i] = ByRank[k] => i = k
      BY <2>4, RankAssumption
    <2>7. ByRank[k] \in Ranked
      BY <2>4 DEF Ranked
    <2>8. ByRank[k] \notin Walked
      BY <1>0, <2>4, <2>6, <2>7 DEF Walked
    <2>9. \A q \in Ports : (\E i \in 1..((k + 1) - 1) : ByRank[i] = q)
                              <=> (\E i \in 1..(nextRanked - 1) : ByRank[i] = q) \/ q = ByRank[k]
      BY <1>0, <2>4, <2>5
    <2>10. Walked' = Walked \cup {ByRank[k]}
      BY <2>3, <2>4, <2>9 DEF Walked
    <2> QED
      BY <1>0, <2>3, <2>4, <2>8, <2>10
  <1>2. CASE RankedLeft = {}
    <2>1. PortsLeft \in SUBSET Nat /\ PortsLeft # {}
      BY <1>0, <1>2 DEF PortsLeft, NextFirst, FirstLeft
    <2>2. PICK k : k = First(PortsLeft) /\ k \in PortsLeft /\ \A i \in PortsLeft : k <= i
      BY <2>1, FirstOf
    <2>3. /\ HandOut(FirstTry(k)) /\ nextRanked' = Len(ByRank) + 1 /\ nextPort' = k + 1
      BY <1>2, <2>2 DEF NextFirst
    <2>4. k \in nextPort..End /\ k \in Ports /\ k \notin Ranked
      BY <1>0, <2>2 DEF PortsLeft, Ports
    <2>5. \A q \in Ports : nextPort <= q /\ q < k => q \in Ranked
      BY <1>0, <2>2, <2>4 DEF PortsLeft, Ports
    <2>6. \A i \in nextRanked..Len(ByRank) : ByRank[i] \notin Ports
      BY <1>2 DEF RankedLeft
    <2>7. \A i \in 1..Len(ByRank) : ByRank[i] \in Ranked
      BY DEF Ranked
    <2>8. k \notin Walked
      BY <1>0, <2>4, <2>7 DEF Walked
    <2>9. \A q \in Ports : (\E i \in 1..((Len(ByRank) + 1) - 1) : ByRank[i] = q)
                              <=> (\E i \in 1..(nextRanked - 1) : ByRank[i] = q)
      BY <1>0, <2>6
    <2>10. \A q \in Ports : q \in Nat
      BY PortsFacts
    <2>11. \A q \in Ports : q < k + 1 /\ q \notin Ranked <=> (q < nextPort /\ q \notin Ranked) \/ q = k
      BY <1>0, <2>4, <2>5, <2>10
    <2>12. Walked' = Walked \cup {k}
      BY <2>3, <2>4, <2>9, <2>11 DEF Walked
    <2> QED
      BY <1>0, <2>3, <2>4, <2>8, <2>12
  <1> QED
    BY <1>1, <1>2

(* Nothing left of the first pass is every port walked. *)
LEMMA AllWalked ==
  ASSUME PassTypeOK
  PROVE  ~FirstLeft <=> Walked = Ports
  <1>0. /\ nextRanked \in 1..(Len(ByRank) + 1) /\ nextPort \in Start..(End + 1)
        /\ Len(ByRank) \in Nat /\ Start \in Nat /\ End \in Nat /\ Start <= End /\ Ports \subseteq Nat
    BY PortsFacts, RangeAssumption DEF PassTypeOK
  <1>1. ASSUME ~FirstLeft, NEW q \in Ports PROVE q \in Walked
    <2>1. RankedLeft = {} /\ PortsLeft = {}
      BY <1>1 DEF FirstLeft
    <2>2. CASE q \in Ranked
      <3>1. PICK i \in 1..Len(ByRank) : ByRank[i] = q
        BY <2>2 DEF Ranked
      <3>2. ~(i \in nextRanked..Len(ByRank))
        BY <2>1, <3>1 DEF RankedLeft
      <3>3. i \in 1..(nextRanked - 1)
        BY <1>0, <3>2
      <3> QED
        BY <3>1, <3>3 DEF Walked
    <2>3. CASE q \notin Ranked
      <3>1. ~(q \in nextPort..End)
        BY <2>1, <2>3 DEF PortsLeft
      <3>2. q < nextPort
        BY <1>0, <3>1 DEF Ports
      <3> QED
        BY <2>3, <3>2 DEF Walked
    <2> QED
      BY <2>2, <2>3
  <1>2. ASSUME FirstLeft PROVE Walked # Ports
    <2>1. CASE RankedLeft # {}
      <3>1. PICK k \in nextRanked..Len(ByRank) : ByRank[k] \in Ports
        BY <2>1 DEF RankedLeft
      <3>2. k \in 1..Len(ByRank) /\ ByRank[k] \in Ranked
        BY <1>0, <3>1 DEF Ranked
      <3>3. \A i \in 1..(nextRanked - 1) : i \in 1..Len(ByRank) /\ i # k
        BY <1>0, <3>1
      <3>4. ByRank[k] \notin Walked
        BY <3>2, <3>3, RankAssumption DEF Walked
      <3> QED
        BY <3>1, <3>4
    <2>2. CASE PortsLeft # {}
      <3>1. PICK q \in nextPort..End : q \notin Ranked
        BY <2>2 DEF PortsLeft
      <3>2. q \in Ports /\ ~(q < nextPort)
        BY <1>0, <3>1 DEF Ports
      <3>3. \A i \in 1..(nextRanked - 1) : ByRank[i] \in Ranked
        BY <1>0 DEF Ranked
      <3>4. q \notin Walked
        BY <3>1, <3>2, <3>3 DEF Walked
      <3> QED
        BY <3>2, <3>4
    <2> QED
      BY <1>2, <2>1, <2>2 DEF FirstLeft
  <1>3. Walked \subseteq Ports
    BY DEF Walked
  <1> QED
    BY <1>1, <1>2, <1>3

-----------------------------------------------------------------------------
(* The passes. *)

(* What does not move the passes. *)
LEMMA WalkedKept ==
  ASSUME nextRanked' = nextRanked, nextPort' = nextPort
  PROVE  Walked' = Walked /\ FirstLeft' = FirstLeft
  BY DEF Walked, FirstLeft, RankedLeft, PortsLeft

(* The second and the third pass hand out the next slot. *)
LEMMA RetryFacts ==
  ASSUME Types, PassInv, NextRetry
  PROVE  LET q == deferred[nextRetry + 1]
             p == RetryTry(retries[nextRetry + 1])
         IN /\ pass = "retry" /\ ~stop /\ nextRetry + 1 \in 1..Len(retries) /\ nextRetry \in Nat
            /\ q \in Ports /\ q \notin Second /\ Second' = Second \cup {q} /\ Third = {} /\ Third' = {}
            /\ HandOut(p) /\ p \in Probe /\ p.port = q /\ ~p.blind
            /\ retries[nextRetry + 1] \in Deferred /\ retries[nextRetry + 1].port = q
            /\ p.timeout <= LeftMs(retries[nextRetry + 1]) /\ p.timeout <= CeilingMs
            /\ nextRetry' = nextRetry + 1 /\ nextThird' = nextThird
            /\ Walked' = Walked /\ FirstLeft' = FirstLeft
  <1> DEFINE q == deferred[nextRetry + 1]
             d == retries[nextRetry + 1]
             p == RetryTry(d)
  <1>1. /\ pass = "retry" /\ ~stop /\ nextRetry < Len(retries) /\ HandOut(p) /\ nextRetry' = nextRetry + 1
        /\ nextRanked' = nextRanked /\ nextPort' = nextPort /\ nextThird' = nextThird
    BY DEF NextRetry
  <1>2. /\ retries \in Seq(Deferred) /\ deferred \in Seq(Ports) /\ nextRetry \in 0..Len(retries)
        /\ nextRetry \in Nat /\ Len(retries) \in Nat /\ RestTypeOK
    BY DEF Types, PassTypeOK
  <1>3. nextRetry + 1 \in 1..Len(retries) /\ d \in Deferred /\ d.waited <= CeilingMs
    BY <1>1, <1>2 DEF Types, RoomInv
  <1>4. Len(deferred) = Len(retries) /\ d.port = q /\ q \in Ports
    BY <1>1, <1>2, <1>3 DEF PassInv, SlotInv
  <1>5. p \in Probe /\ p.port = q /\ ~p.blind /\ p.timeout <= LeftMs(d) /\ p.timeout <= CeilingMs
    BY <1>2, <1>3, <1>4, LaterTryFacts
  <1>6. \A i, k \in 1..Len(deferred) : deferred[i] = deferred[k] => i = k
    BY DEF PassInv, SlotInv
  <1>7. q \notin Second
    BY <1>2, <1>3, <1>4, <1>6 DEF Second
  <1>8. deferred' = deferred /\ retries' = retries
    BY <1>1 DEF HandOut, tallyVars
  <1>9. Second' = Second \cup {q}
    <2>1. 1..(nextRetry + 1) = (1..nextRetry) \cup {nextRetry + 1}
      BY <1>2
    <2> QED
      BY <1>1, <1>8, <2>1 DEF Second
  <1>10. Third = {} /\ Third' = {}
    <2>1. nextThird = 0
      BY <1>1 DEF PassInv, SlotInv
    <2> QED
      BY <1>1, <2>1 DEF Third
  <1> QED
    BY <1>1, <1>2, <1>3, <1>4, <1>5, <1>7, <1>9, <1>10, WalkedKept

LEMMA ThirdFacts ==
  ASSUME Types, PassInv, NextThird
  PROVE  LET q == retries[nextThird + 1].port
             p == ThirdTry(retries[nextThird + 1])
         IN /\ pass = "third" /\ ~stop /\ nextThird + 1 \in 1..silentTwice /\ nextThird \in Nat
            /\ q \in Ports /\ q \in Second /\ q \notin Third /\ Third' = Third \cup {q} /\ Second' = Second
            /\ HandOut(p) /\ p \in Probe /\ p.port = q /\ ~p.blind /\ p.timeout <= CeilingMs
            /\ nextRetry' = nextRetry /\ nextThird' = nextThird + 1
            /\ Walked' = Walked /\ FirstLeft' = FirstLeft
  <1> DEFINE d == retries[nextThird + 1]
             q == d.port
             p == ThirdTry(d)
  <1>1. /\ pass = "third" /\ ~stop /\ nextThird < silentTwice /\ HandOut(p) /\ nextThird' = nextThird + 1
        /\ nextRanked' = nextRanked /\ nextPort' = nextPort /\ nextRetry' = nextRetry
    BY DEF NextThird
  <1>2. /\ retries \in Seq(Deferred) /\ nextRetry \in 0..Len(retries) /\ nextThird \in Nat
        /\ silentTwice \in Nat /\ Len(retries) \in Nat /\ RestTypeOK
    BY DEF Types, PassTypeOK
  <1>3. silentTwice <= Len(retries) /\ nextThird + 1 \in 1..silentTwice /\ nextThird + 1 \in 1..Len(retries)
    BY <1>1, <1>2 DEF PassInv, SlotInv
  <1>4. d \in Deferred /\ d.waited <= CeilingMs
    BY <1>2, <1>3 DEF Types, RoomInv
  <1>5. q \in Ports
    BY <1>4 DEF Deferred
  <1>6. p \in Probe /\ p.port = q /\ ~p.blind /\ p.timeout <= CeilingMs
    BY <1>2, <1>4, LaterTryFacts
  <1>7. q \in Second /\ \A i \in 1..silentTwice : retries[i].port = q => i = nextThird + 1
    BY <1>3 DEF PassInv, SlotInv
  <1>8. q \notin Third
    BY <1>2, <1>3, <1>7 DEF Third
  <1>9. deferred' = deferred /\ retries' = retries
    BY <1>1 DEF HandOut, tallyVars
  <1>10. Third' = Third \cup {q} /\ Second' = Second
    <2>1. 1..(nextThird + 1) = (1..nextThird) \cup {nextThird + 1}
      BY <1>2
    <2> QED
      BY <1>1, <1>9, <2>1 DEF Second, Third
  <1> QED
    BY <1>1, <1>2, <1>3, <1>5, <1>6, <1>7, <1>8, <1>10, WalkedKept

(* The first pass keeps apart what it hands out. *)
LEMMA PassFirst == ASSUME Types, PassInv, NextFirst PROVE PassInv'
  <1>1. PICK q \in Ports \ Walked : HandOut(FirstTry(q)) /\ Walked' = Walked \cup {q}
    BY FirstFacts DEF Types
  <1>2. pass = "first" /\ nextRetry' = nextRetry /\ nextThird' = nextThird
    BY FirstFacts DEF Types
  <1>3. FirstTry(q).port = q
    BY FirstTryFacts DEF Types
  <1>4. /\ inFlight' = inFlight \cup {FirstTry(q)}
        /\ UNCHANGED <<pass, retries, deferred, silentTwice, answeredTwice>>
    BY <1>1 DEF HandOut, tallyVars
  <1>5. Second' = Second
    BY <1>2, <1>4 DEF Second
  <1>6. SlotInv'
    BY <1>1, <1>2, <1>4, <1>5 DEF PassInv, SlotInv
  <1>7. \A p \in inFlight : p.port \in Walked
    BY <1>2 DEF PassInv, FlightInv
  <1>8. \A i \in 1..Len(deferred) : deferred[i] # q
    BY DEF PassInv, SlotInv
  <1>9. IsFiniteSet(inFlight')
    BY <1>4, FS_AddElement DEF PassInv, FlightInv
  <1>10. \A p, r \in inFlight' : p.port = r.port => p = r
    BY <1>3, <1>4, <1>7 DEF PassInv, FlightInv
  <1>11. FlightInv'
    BY <1>1, <1>2, <1>3, <1>4, <1>8, <1>9, <1>10 DEF PassInv, FlightInv
  <1> QED
    BY <1>2, <1>4, <1>6, <1>11 DEF PassInv, CountInv

LEMMA PassRetry == ASSUME Types, PassInv, NextRetry PROVE PassInv'
  <1> DEFINE q == deferred[nextRetry + 1]
             p == RetryTry(retries[nextRetry + 1])
  <1>1. /\ pass = "retry" /\ nextRetry + 1 \in 1..Len(retries) /\ nextRetry \in Nat
        /\ q \notin Second /\ Second' = Second \cup {q} /\ HandOut(p) /\ p.port = q
        /\ nextRetry' = nextRetry + 1 /\ nextThird' = nextThird /\ Walked' = Walked /\ FirstLeft' = FirstLeft
    BY RetryFacts
  <1> HIDE DEF q, p
  <1>2. /\ inFlight' = inFlight \cup {p}
        /\ UNCHANGED <<pass, retries, deferred, silentTwice, answeredTwice, stop>>
    BY <1>1 DEF HandOut, tallyVars
  <1>3. SlotInv'
    BY <1>1, <1>2 DEF PassInv, SlotInv, Types, PassTypeOK
  <1>4. \A r \in inFlight : r.port \in Second
    BY <1>1 DEF PassInv, FlightInv
  <1>5. p \notin inFlight
    BY <1>1, <1>4
  <1>6. IsFiniteSet(inFlight) /\ Cardinality(inFlight) \in Nat
    BY FS_CardinalityType DEF PassInv, FlightInv
  <1>7. IsFiniteSet(inFlight') /\ Cardinality(inFlight') = Cardinality(inFlight) + 1
    BY <1>2, <1>5, <1>6, FS_AddElement
  <1>8. \A r \in 1..silentTwice : retries[r].port # q
    BY <1>1 DEF PassInv, SlotInv
  <1>9. \A r, m \in inFlight' : r.port = m.port => r = m
    BY <1>1, <1>2, <1>4 DEF PassInv, FlightInv
  <1>10. FlightInv'
    BY <1>1, <1>2, <1>7, <1>8, <1>9 DEF PassInv, FlightInv
  <1>11. CountInv'
    BY <1>1, <1>2, <1>6, <1>7 DEF PassInv, CountInv, Types, PassTypeOK
  <1> QED
    BY <1>3, <1>10, <1>11 DEF PassInv

LEMMA PassThird == ASSUME Types, PassInv, NextThird PROVE PassInv'
  <1> DEFINE q == retries[nextThird + 1].port
             p == ThirdTry(retries[nextThird + 1])
  <1>1. /\ pass = "third" /\ nextThird + 1 \in 1..silentTwice /\ nextThird \in Nat
        /\ q \notin Third /\ Third' = Third \cup {q} /\ Second' = Second /\ HandOut(p) /\ p.port = q
        /\ nextRetry' = nextRetry /\ nextThird' = nextThird + 1 /\ Walked' = Walked /\ FirstLeft' = FirstLeft
    BY ThirdFacts
  <1> HIDE DEF q, p
  <1>2. /\ inFlight' = inFlight \cup {p}
        /\ UNCHANGED <<pass, retries, deferred, silentTwice, answeredTwice, stop>>
    BY <1>1 DEF HandOut, tallyVars
  <1>3. SlotInv'
    BY <1>1, <1>2 DEF PassInv, SlotInv, Types, PassTypeOK
  <1>4. \A r \in inFlight : r.port \in Third
    BY <1>1 DEF PassInv, FlightInv
  <1>5. IsFiniteSet(inFlight')
    BY <1>2, FS_AddElement DEF PassInv, FlightInv
  <1>6. \A r, m \in inFlight' : r.port = m.port => r = m
    BY <1>1, <1>2, <1>4 DEF PassInv, FlightInv
  <1>7. FlightInv'
    BY <1>1, <1>2, <1>5, <1>6 DEF PassInv, FlightInv
  <1>8. CountInv'
    BY <1>1, <1>2 DEF PassInv, CountInv
  <1> QED
    BY <1>3, <1>7, <1>8 DEF PassInv

(* What the end of a probe leaves alone, and what it does to the list. *)
LEMMA EndsFrame ==
  ASSUME PassTypeOK, NEW p, NEW outcome, NEW elapsed, Ends(p, outcome, elapsed)
  PROVE  /\ p \in inFlight /\ p \in Probe /\ inFlight' = inFlight \ {p}
         /\ pass' = pass /\ nextRanked' = nextRanked /\ nextPort' = nextPort
         /\ nextRetry' = nextRetry /\ nextThird' = nextThird
         /\ fixed' = fixed /\ stop' = stop /\ listening' = listening /\ tries' = tries /\ blindly' = blindly
         /\ Walked' = Walked /\ FirstLeft' = FirstLeft
         /\ pass \in {"first", "retry", "third"}
  <1>1. /\ p \in inFlight /\ inFlight' = inFlight \ {p}
        /\ pass' = pass /\ nextRanked' = nextRanked /\ nextPort' = nextPort
        /\ nextRetry' = nextRetry /\ nextThird' = nextThird
        /\ fixed' = fixed /\ stop' = stop /\ listening' = listening /\ tries' = tries /\ blindly' = blindly
    BY DEF Ends, Done, passVars
  <1>2. pass \in {"first", "retry", "third"}
    BY DEF Ends, Done, DoneFirst, DoneRetry, DoneThird
  <1> QED
    BY <1>1, <1>2, WalkedKept DEF PassTypeOK

(* The record a port is deferred as. *)
LEMMA DeferredRecord ==
  ASSUME NEW q \in Ports, NEW ms \in Nat, NEW b \in BOOLEAN
  PROVE  LET d == [port |-> q, waited |-> ms, blind |-> b]
         IN d \in Deferred /\ d.port = q /\ d.waited = ms /\ d.blind = b
  BY DEF Deferred

(* In the first pass the end of a probe defers its port or leaves the list alone. *)
LEMMA EndsFirst ==
  ASSUME Types, NEW p, NEW outcome, NEW elapsed, Ends(p, outcome, elapsed), pass = "first"
  PROVE  /\ silentTwice' = silentTwice /\ answeredTwice' = answeredTwice
         /\ AdvanceHalves(Halves(p, outcome, elapsed))
         /\ \/ /\ outcome = "filtered" /\ EarnsRetry(p, elapsed)
               /\ \E d \in Deferred : /\ d.port = p.port /\ d.waited = p.timeout /\ d.blind = p.blind
                                      /\ retries' = Append(retries, d)
               /\ deferred' = Append(deferred, p.port)
            \/ /\ ~(outcome = "filtered" /\ EarnsRetry(p, elapsed))
               /\ retries' = retries /\ deferred' = deferred
  <1>1. DoneFirst(p, outcome, elapsed)
    BY DEF Ends, Done, DoneRetry, DoneThird
  <1>2. p \in Probe
    BY EndsFrame DEF Types
  <1>3. p.port \in Ports /\ p.timeout \in Nat /\ p.blind \in BOOLEAN
    BY <1>2 DEF Probe
  <1>4. PICK d : d = [port |-> p.port, waited |-> p.timeout, blind |-> p.blind]
    OBVIOUS
  <1>5. d \in Deferred /\ d.port = p.port /\ d.waited = p.timeout /\ d.blind = p.blind
    BY <1>3, <1>4, DeferredRecord, Zenon
  <1>6. /\ silentTwice' = silentTwice /\ answeredTwice' = answeredTwice
        /\ AdvanceHalves(Halves(p, outcome, elapsed))
    BY <1>1, Zenon DEF DoneFirst
  <1>7. CASE outcome = "filtered" /\ EarnsRetry(p, elapsed)
    <2>1. retries' = Append(retries, d) /\ deferred' = Append(deferred, p.port)
      BY <1>1, <1>4, <1>7, Zenon DEF DoneFirst
    <2> QED
      BY <1>5, <1>6, <1>7, <2>1, Zenon
  <1>8. CASE ~(outcome = "filtered" /\ EarnsRetry(p, elapsed))
    <2>1. retries' = retries /\ deferred' = deferred
      BY <1>1, <1>8, Zenon DEF DoneFirst
    <2> QED
      BY <1>6, <1>8, <2>1, Zenon
  <1> QED
    BY <1>7, <1>8

(* In the second a silent one moves to the front. *)
LEMMA EndsRetry ==
  ASSUME Types, NEW p, NEW outcome, NEW elapsed, Ends(p, outcome, elapsed), pass = "retry"
  PROVE  /\ deferred' = deferred /\ AdvanceHalves(1)
         /\ \/ /\ outcome = "filtered" /\ silentTwice' = silentTwice + 1 /\ answeredTwice' = answeredTwice
               /\ \E d \in Deferred : /\ d.port = p.port /\ d.waited = p.timeout
                                      /\ retries' = [retries EXCEPT ![silentTwice + 1] = d]
            \/ /\ outcome # "filtered" /\ answeredTwice' = answeredTwice + 1
               /\ silentTwice' = silentTwice /\ retries' = retries
  <1>1. DoneRetry(p, outcome, elapsed)
    BY DEF Ends, Done, DoneFirst, DoneThird
  <1>2. p \in Probe
    BY EndsFrame DEF Types
  <1>3. p.port \in Ports /\ p.timeout \in Nat /\ FALSE \in BOOLEAN
    BY <1>2 DEF Probe
  <1>4. PICK d : d = [port |-> p.port, waited |-> p.timeout, blind |-> FALSE]
    OBVIOUS
  <1>5. d \in Deferred /\ d.port = p.port /\ d.waited = p.timeout
    BY <1>3, <1>4, DeferredRecord, Zenon
  <1>6. deferred' = deferred /\ AdvanceHalves(Halves(p, outcome, elapsed))
    BY <1>1, Zenon DEF DoneRetry
  <1>7. Halves(p, outcome, elapsed) = 1
    BY DEF Halves
  <1>8. CASE outcome = "filtered"
    <2>1. /\ retries' = [retries EXCEPT ![silentTwice + 1] = d]
          /\ silentTwice' = silentTwice + 1 /\ answeredTwice' = answeredTwice
      BY <1>1, <1>4, <1>8, Zenon DEF DoneRetry, SilentSlot
    <2> QED
      BY <1>5, <1>6, <1>7, <1>8, <2>1, Zenon
  <1>9. CASE outcome # "filtered"
    <2>1. answeredTwice' = answeredTwice + 1 /\ silentTwice' = silentTwice /\ retries' = retries
      BY <1>1, <1>9, Zenon DEF DoneRetry
    <2> QED
      BY <1>6, <1>7, <1>9, <2>1, Zenon
  <1> QED
    BY <1>8, <1>9

LEMMA EndsThird ==
  ASSUME Types, NEW p, NEW outcome, NEW elapsed, Ends(p, outcome, elapsed), pass = "third"
  PROVE  /\ retries' = retries /\ deferred' = deferred /\ silentTwice' = silentTwice
         /\ answeredTwice' = answeredTwice /\ halfUnits' = halfUnits /\ advanced' = advanced
  BY DEF Ends, Done, DoneFirst, DoneRetry, DoneThird

(* A sequence with one more entry. *)
LEMMA AppendFacts ==
  ASSUME NEW S, NEW s \in Seq(S), NEW x \in S
  PROVE  /\ Append(s, x) \in Seq(S) /\ Len(Append(s, x)) = Len(s) + 1 /\ Len(s) \in Nat
         /\ \A i \in 1..Len(s) : Append(s, x)[i] = s[i]
         /\ Append(s, x)[Len(s) + 1] = x
         /\ 1..Len(Append(s, x)) = (1..Len(s)) \cup {Len(s) + 1}
  <1>1. Append(s, x) \in Seq(S) /\ Len(Append(s, x)) = Len(s) + 1 /\ Len(s) \in Nat
    OBVIOUS
  <1>2. (\A i \in 1..Len(s) : Append(s, x)[i] = s[i]) /\ Append(s, x)[Len(s) + 1] = x
    OBVIOUS
  <1> QED
    BY <1>1, <1>2

(* And one with an entry written over. *)
LEMMA ExceptFacts ==
  ASSUME NEW S, NEW s \in Seq(S), NEW x \in S, NEW k \in 1..Len(s)
  PROVE  LET t == [s EXCEPT ![k] = x]
         IN /\ t \in Seq(S) /\ Len(t) = Len(s) /\ t[k] = x
            /\ \A i \in 1..Len(s) : i # k => t[i] = s[i]
  OBVIOUS

LEMMA PassEndsFirst ==
  ASSUME Types, PassInv, NEW p, NEW outcome, NEW elapsed, Ends(p, outcome, elapsed), pass = "first"
  PROVE  PassInv'
  <1>1. /\ p \in inFlight /\ p \in Probe /\ inFlight' = inFlight \ {p} /\ pass' = pass /\ stop' = stop
        /\ nextRetry' = nextRetry /\ nextThird' = nextThird /\ Walked' = Walked
    BY EndsFrame DEF Types
  <1>2. silentTwice' = silentTwice /\ answeredTwice' = answeredTwice
    BY EndsFirst
  <1>3. /\ retries \in Seq(Deferred) /\ deferred \in Seq(Ports) /\ Len(retries) \in Nat
        /\ Len(deferred) = Len(retries) /\ nextRetry = 0 /\ nextThird = 0 /\ silentTwice = 0
    BY DEF Types, PassTypeOK, PassInv, SlotInv
  <1>4. IsFiniteSet(inFlight')
    BY <1>1, FS_RemoveElement DEF PassInv, FlightInv
  <1>5. p.port \in Ports /\ p.port \in Walked /\ \A i \in 1..Len(deferred) : deferred[i] # p.port
    BY <1>1 DEF Probe, PassInv, FlightInv
  <1>6. \A r \in inFlight' : r \in inFlight /\ r.port # p.port
    BY <1>1 DEF PassInv, FlightInv
  <1>7. CASE retries' = retries /\ deferred' = deferred
    <2>1. Second' = Second
      BY <1>1, <1>7 DEF Second
    <2>2. SlotInv'
      BY <1>1, <1>2, <1>7, <2>1 DEF PassInv, SlotInv
    <2>3. FlightInv'
      BY <1>1, <1>2, <1>4, <1>6, <1>7 DEF PassInv, FlightInv
    <2> QED
      BY <1>1, <2>2, <2>3 DEF PassInv, CountInv
  <1>8. ASSUME NEW d \in Deferred, d.port = p.port, retries' = Append(retries, d),
               deferred' = Append(deferred, p.port)
        PROVE  PassInv'
    <2>1. /\ Len(retries') = Len(retries) + 1 /\ (\A i \in 1..Len(retries) : retries'[i] = retries[i])
          /\ retries'[Len(retries) + 1] = d
      BY <1>3, <1>8, AppendFacts
    <2>2. /\ Len(deferred') = Len(retries) + 1 /\ (\A i \in 1..Len(retries) : deferred'[i] = deferred[i])
          /\ deferred'[Len(retries) + 1] = p.port
      BY <1>3, <1>5, <1>8, AppendFacts
    <2>3. PICK n \in Nat : n = Len(retries)
      BY <1>3
    <2>4. \A i \in 1..(n + 1) : i \in 1..n \/ i = n + 1
      OBVIOUS
    <2>5. \A i, k \in 1..(n + 1) : deferred'[i] = deferred'[k] => i = k
      <3>1. \A i, k \in 1..n : deferred[i] = deferred[k] => i = k
        BY <1>3, <2>3 DEF PassInv, SlotInv
      <3>2. \A i \in 1..n : deferred[i] # p.port
        BY <1>3, <1>5, <2>3
      <3> QED
        BY <2>2, <2>3, <2>4, <3>1, <3>2
    <2>6. \A i \in 1..(n + 1) : deferred'[i] \in Walked
      BY <1>3, <1>5, <2>2, <2>3, <2>4 DEF PassInv, SlotInv
    <2>7. \A i \in 1..(n + 1) : retries'[i].port = deferred'[i]
      <3>1. \A i \in 1..n : retries[i].port = deferred[i]
        BY <1>3, <2>3 DEF PassInv, SlotInv
      <3> QED
        BY <1>8, <2>1, <2>2, <2>3, <2>4, <3>1
    <2>8. SlotInv'
      BY <1>1, <1>2, <1>3, <2>1, <2>2, <2>3, <2>5, <2>6, <2>7 DEF PassInv, SlotInv
    <2>9. \A r \in inFlight' : \A i \in 1..(n + 1) : deferred'[i] # r.port
      <3>1. \A r \in inFlight' : \A i \in 1..n : deferred[i] # r.port
        BY <1>3, <1>6, <2>3 DEF PassInv, FlightInv
      <3> QED
        BY <1>6, <2>2, <2>3, <2>4, <3>1
    <2>10. FlightInv'
      BY <1>1, <1>2, <1>4, <1>6, <2>2, <2>3, <2>9 DEF PassInv, FlightInv
    <2> QED
      BY <1>1, <2>8, <2>10 DEF PassInv, CountInv
  <1> QED
    BY <1>7, <1>8, EndsFirst

(* The silent port moves to a slot that has been handed out. *)
LEMMA PassEndsRetry ==
  ASSUME Types, PassInv, NEW p, NEW outcome, NEW elapsed, Ends(p, outcome, elapsed), pass = "retry"
  PROVE  PassInv' /\ silentTwice < nextRetry
  <1>1. /\ p \in inFlight /\ p \in Probe /\ inFlight' = inFlight \ {p} /\ pass' = pass /\ stop' = stop
        /\ nextRetry' = nextRetry /\ nextThird' = nextThird /\ Walked' = Walked /\ FirstLeft' = FirstLeft
    BY EndsFrame DEF Types
  <1>2. deferred' = deferred
    BY EndsRetry
  <1>3. /\ retries \in Seq(Deferred) /\ deferred \in Seq(Ports) /\ Len(retries) \in Nat
        /\ Len(deferred) = Len(retries) /\ nextRetry \in 0..Len(retries) /\ nextRetry \in Nat
        /\ silentTwice \in Nat /\ answeredTwice \in Nat /\ nextThird = 0
    BY DEF Types, PassTypeOK, PassInv, SlotInv
  <1>4. /\ IsFiniteSet(inFlight') /\ Cardinality(inFlight') = Cardinality(inFlight) - 1
        /\ Cardinality(inFlight) \in Nat /\ Cardinality(inFlight') \in Nat
    <2>1. IsFiniteSet(inFlight)
      BY DEF PassInv, FlightInv
    <2>2. IsFiniteSet(inFlight \ {p}) /\ Cardinality(inFlight \ {p}) = Cardinality(inFlight) - 1
      BY <1>1, <2>1, FS_RemoveElement
    <2> QED
      BY <1>1, <2>1, <2>2, FS_CardinalityType
  <1>5. silentTwice + answeredTwice + Cardinality(inFlight) = nextRetry
    BY DEF PassInv, CountInv
  <1>6. silentTwice < nextRetry
    BY <1>3, <1>4, <1>5
  <1>7. p.port \in Ports /\ p.port \in Second /\ \A i \in 1..silentTwice : retries[i].port # p.port
    BY <1>1 DEF Probe, PassInv, FlightInv
  <1>8. \A r \in inFlight' : r \in inFlight /\ r.port # p.port
    BY <1>1 DEF PassInv, FlightInv
  <1>9. Second' = Second
    BY <1>1, <1>2 DEF Second
  <1>10. CASE answeredTwice' = answeredTwice + 1 /\ silentTwice' = silentTwice /\ retries' = retries
    <2>1. SlotInv'
      BY <1>1, <1>2, <1>9, <1>10 DEF PassInv, SlotInv
    <2>2. FlightInv'
      BY <1>1, <1>2, <1>4, <1>8, <1>9, <1>10 DEF PassInv, FlightInv
    <2>3. CountInv'
      BY <1>1, <1>3, <1>4, <1>5, <1>10 DEF PassInv, CountInv
    <2> QED
      BY <1>6, <2>1, <2>2, <2>3 DEF PassInv
  <1>11. ASSUME NEW d \in Deferred, d.port = p.port, retries' = [retries EXCEPT ![silentTwice + 1] = d],
                silentTwice' = silentTwice + 1, answeredTwice' = answeredTwice
         PROVE  PassInv'
    <2>1. PICK k \in Nat : k = silentTwice + 1
      BY <1>3
    <2>2. k \in 1..Len(retries) /\ k <= nextRetry
      BY <1>3, <1>6, <2>1
    <2>3. /\ Len(retries') = Len(retries) /\ retries'[k] = d
          /\ \A i \in 1..Len(retries) : i # k => retries'[i] = retries[i]
      BY <1>3, <1>11, <2>1, <2>2, ExceptFacts
    <2>4. \A i \in 1..k : i \in 1..Len(retries) /\ ((i \in 1..silentTwice /\ i # k) \/ i = k)
      BY <1>3, <2>1, <2>2
    <2>5. \A i \in 1..k : retries'[i].port = IF i = k THEN p.port ELSE retries[i].port
      BY <1>11, <2>3, <2>4
    <2>6. \A i, m \in 1..k : retries'[i].port = retries'[m].port => i = m
      <3>1. \A i, m \in 1..silentTwice : retries[i].port = retries[m].port => i = m
        BY DEF PassInv, SlotInv
      <3> QED
        BY <1>7, <2>4, <2>5, <3>1
    <2>7. \A i \in 1..k : retries'[i].port \in Second
      BY <1>7, <2>4, <2>5 DEF PassInv, SlotInv
    <2>8. \A i \in (nextRetry + 1)..Len(retries) : retries'[i].port = deferred[i]
      <3>1. \A i \in (nextRetry + 1)..Len(retries) : i \in 1..Len(retries) /\ i # k
        BY <1>3, <2>2
      <3>2. \A i \in (nextRetry + 1)..Len(retries) : retries[i].port = deferred[i]
        BY DEF PassInv, SlotInv
      <3> QED
        BY <2>3, <3>1, <3>2
    <2>9. SlotInv'
      BY <1>1, <1>2, <1>3, <1>9, <1>11, <2>1, <2>2, <2>3, <2>6, <2>7, <2>8 DEF PassInv, SlotInv
    <2>10. \A r \in inFlight' : \A i \in 1..k : retries'[i].port # r.port
      <3>1. \A r \in inFlight' : \A i \in 1..silentTwice : retries[i].port # r.port
        BY <1>8 DEF PassInv, FlightInv
      <3> QED
        BY <1>8, <2>4, <2>5, <3>1
    <2>11. FlightInv'
      BY <1>1, <1>2, <1>4, <1>8, <1>9, <1>11, <2>1, <2>10 DEF PassInv, FlightInv
    <2>12. CountInv'
      BY <1>1, <1>3, <1>4, <1>5, <1>11, <2>3 DEF PassInv, CountInv
    <2> QED
      BY <2>9, <2>11, <2>12 DEF PassInv
  <1> QED
    BY <1>6, <1>10, <1>11, EndsRetry

LEMMA PassEndsThird ==
  ASSUME Types, PassInv, NEW p, NEW outcome, NEW elapsed, Ends(p, outcome, elapsed), pass = "third"
  PROVE  PassInv'
  <1>1. /\ p \in inFlight /\ inFlight' = inFlight \ {p} /\ pass' = pass /\ stop' = stop
        /\ nextRetry' = nextRetry /\ nextThird' = nextThird /\ Walked' = Walked /\ FirstLeft' = FirstLeft
    BY EndsFrame DEF Types
  <1>2. retries' = retries /\ deferred' = deferred /\ silentTwice' = silentTwice /\ answeredTwice' = answeredTwice
    BY EndsThird
  <1>3. Second' = Second /\ Third' = Third
    BY <1>1, <1>2 DEF Second, Third
  <1>4. IsFiniteSet(inFlight')
    BY <1>1, FS_RemoveElement DEF PassInv, FlightInv
  <1>5. SlotInv'
    BY <1>1, <1>2, <1>3 DEF PassInv, SlotInv
  <1>6. FlightInv'
    BY <1>1, <1>2, <1>3, <1>4 DEF PassInv, FlightInv
  <1>7. CountInv'
    BY <1>1, <1>2 DEF PassInv, CountInv
  <1> QED
    BY <1>5, <1>6, <1>7 DEF PassInv

(* What the start of a pass, a failed run and a stop leave alone. *)
LEMMA TurnFrame ==
  ASSUME NextPass \/ RunFails \/ Stop \/ UNCHANGED vars
  PROVE  /\ nextRanked' = nextRanked /\ nextPort' = nextPort /\ nextRetry' = nextRetry /\ nextThird' = nextThird
         /\ fixed' = fixed /\ est' = est /\ fastest' = fastest /\ capped' = capped
         /\ retries' = retries /\ silentTwice' = silentTwice /\ answeredTwice' = answeredTwice
         /\ halfUnits' = halfUnits /\ advanced' = advanced /\ deferred' = deferred /\ listening' = listening
         /\ tries' = tries /\ waited' = waited /\ answer' = answer /\ errored' = errored /\ blindly' = blindly
         /\ Walked' = Walked /\ FirstLeft' = FirstLeft /\ Second' = Second /\ Third' = Third
  <1>1. /\ nextRanked' = nextRanked /\ nextPort' = nextPort /\ nextRetry' = nextRetry /\ nextThird' = nextThird
        /\ fixed' = fixed /\ est' = est /\ fastest' = fastest /\ capped' = capped
        /\ retries' = retries /\ silentTwice' = silentTwice /\ answeredTwice' = answeredTwice
        /\ halfUnits' = halfUnits /\ advanced' = advanced /\ deferred' = deferred /\ listening' = listening
        /\ tries' = tries /\ waited' = waited /\ answer' = answer /\ errored' = errored /\ blindly' = blindly
    BY DEF NextPass, RunFails, Stop, vars, passVars, learnVars, tallyVars, historyVars
  <1> QED
    BY <1>1, WalkedKept DEF Second, Third

(* What they do to the pass itself. *)
LEMMA TurnFacts ==
  ASSUME PassTypeOK, NextPass \/ RunFails \/ Stop \/ UNCHANGED vars
  PROVE  \/ /\ pass = "first" /\ pass' = "retry" /\ inFlight = {} /\ inFlight' = {} /\ stop' = stop
            /\ (stop \/ ~FirstLeft) /\ openPorts' = openPorts
         \/ /\ pass = "retry" /\ pass' = "third" /\ inFlight = {} /\ inFlight' = {} /\ stop' = stop
            /\ ~stop /\ nextRetry = Len(retries) /\ openPorts' = openPorts
         \/ /\ pass \in {"retry", "third"} /\ pass' = "done" /\ inFlight = {} /\ inFlight' = {} /\ stop' = stop
            /\ (stop \/ pass = "third" \/ nextRetry = Len(retries)) /\ openPorts' = Sorted(openPorts)
         \/ /\ pass' = "failed" /\ inFlight' = {} /\ stop' = stop /\ openPorts' = <<>>
         \/ /\ pass' = pass /\ inFlight' = inFlight /\ (stop => stop') /\ openPorts' = openPorts
            /\ stop' \in BOOLEAN
  <1>1. CASE NextPass
    <2>1. /\ pass \in {"first", "retry", "third"} /\ inFlight = {} /\ inFlight' = inFlight /\ stop' = stop
          /\ openPorts' = IF pass' = "done" THEN Sorted(openPorts) ELSE openPorts
      BY <1>1 DEF NextPass, RunOver
    <2>2. nextRetry \in 0..Len(retries) /\ Len(retries) \in Nat
      BY DEF PassTypeOK
    <2>3. CASE pass = "first"
      <3>1. pass' = "retry" /\ (stop \/ ~FirstLeft)
        BY <1>1, <2>3 DEF NextPass, RunOver
      <3> QED
        BY <2>1, <2>3, <3>1
    <2>4. CASE pass = "retry" /\ NeedsThirdPass
      <3>1. pass' = "third" /\ ~stop /\ nextRetry >= Len(retries)
        BY <1>1, <2>4 DEF NextPass, RunOver, NeedsThirdPass
      <3> QED
        BY <2>1, <2>2, <2>4, <3>1
    <2>5. CASE pass = "retry" /\ ~NeedsThirdPass
      <3>1. pass' = "done" /\ (stop \/ nextRetry >= Len(retries))
        BY <1>1, <2>5 DEF NextPass, RunOver
      <3> QED
        BY <2>1, <2>2, <2>5, <3>1
    <2>6. CASE pass = "third"
      <3>1. pass' = "done"
        BY <1>1, <2>6 DEF NextPass
      <3> QED
        BY <2>1, <2>6, <3>1
    <2> QED
      BY <2>1, <2>3, <2>4, <2>5, <2>6
  <1>2. CASE RunFails
    BY <1>2 DEF RunFails
  <1>3. CASE Stop
    BY <1>3 DEF Stop, tallyVars
  <1>4. CASE UNCHANGED vars
    BY <1>4 DEF vars, tallyVars, PassTypeOK
  <1> QED
    BY <1>1, <1>2, <1>3, <1>4

LEMMA PassTurn ==
  ASSUME Types, PassInv, NextPass \/ RunFails \/ Stop \/ UNCHANGED vars
  PROVE  PassInv'
  <1>1. /\ nextRetry' = nextRetry /\ nextThird' = nextThird /\ retries' = retries
        /\ silentTwice' = silentTwice /\ answeredTwice' = answeredTwice /\ deferred' = deferred
        /\ Walked' = Walked /\ FirstLeft' = FirstLeft /\ Second' = Second /\ Third' = Third
    BY TurnFrame
  <1>2. IsFiniteSet({}) /\ Cardinality({}) = 0
    BY FS_EmptySet
  <1>3. CASE pass = "first" /\ pass' = "retry" /\ inFlight' = {} /\ (stop \/ ~FirstLeft) /\ stop' = stop
    <2>1. SlotInv'
      BY <1>1, <1>3 DEF PassInv, SlotInv, Types, PassTypeOK
    <2>2. FlightInv'
      BY <1>2, <1>3 DEF FlightInv
    <2>3. silentTwice = 0 /\ answeredTwice = 0 /\ nextRetry = 0
      BY <1>3 DEF PassInv, SlotInv, Types, PassTypeOK
    <2>4. CountInv'
      BY <1>1, <1>2, <1>3, <2>3 DEF CountInv
    <2> QED
      BY <2>1, <2>2, <2>4 DEF PassInv
  <1>4. CASE /\ pass \in {"retry", "third"} /\ pass' \in {"third", "done"} /\ inFlight = {} /\ inFlight' = {}
             /\ (stop \/ pass = "third" \/ nextRetry = Len(retries)) /\ stop' = stop
    <2>1. SlotInv'
      BY <1>1, <1>4 DEF PassInv, SlotInv
    <2>2. FlightInv'
      BY <1>2, <1>4 DEF FlightInv
    <2>3. silentTwice \in Nat /\ answeredTwice \in Nat /\ nextRetry \in Nat
      BY DEF Types, PassTypeOK
    <2>4. silentTwice + answeredTwice = nextRetry
      BY <1>2, <1>4, <2>3 DEF PassInv, CountInv
    <2>5. CountInv'
      BY <1>1, <1>4, <2>4 DEF PassInv, CountInv
    <2> QED
      BY <2>1, <2>2, <2>5 DEF PassInv
  <1>5. CASE pass' = "failed" /\ inFlight' = {}
    <2>1. SlotInv'
      BY <1>1, <1>5 DEF PassInv, SlotInv
    <2>2. FlightInv'
      BY <1>2, <1>5 DEF FlightInv
    <2> QED
      BY <1>5, <2>1, <2>2 DEF PassInv, CountInv
  <1>6. CASE pass' = pass /\ inFlight' = inFlight /\ (stop => stop')
    <2>1. SlotInv'
      BY <1>1, <1>6 DEF PassInv, SlotInv
    <2>2. FlightInv'
      BY <1>1, <1>6 DEF PassInv, FlightInv
    <2>3. CountInv'
      BY <1>1, <1>6 DEF PassInv, CountInv
    <2> QED
      BY <2>1, <2>2, <2>3 DEF PassInv
  <1> QED
    BY <1>3, <1>4, <1>5, <1>6, TurnFacts DEF Types

LEMMA PassNext == ASSUME Types, PassInv, [Next]_vars PROVE PassInv'
  <1>1. PassTypeOK
    BY DEF Types
  <1>2. ASSUME NEW p \in inFlight, NEW outcome \in Outcomes, NEW elapsed \in Nat, Ends(p, outcome, elapsed)
        PROVE  PassInv'
    <2>1. pass \in {"first", "retry", "third"}
      BY <1>1, <1>2, EndsFrame
    <2> QED
      BY <1>2, <2>1, PassEndsFirst, PassEndsRetry, PassEndsThird
  <1> QED
    BY <1>1, <1>2, NextCases, PassFirst, PassRetry, PassThird, PassTurn

-----------------------------------------------------------------------------
(* Types. *)

(* What handing out a probe does. *)
LEMMA HandOutFrame ==
  ASSUME NEW p, HandOut(p)
  PROVE  /\ inFlight' = inFlight \cup {p} /\ pass' = pass /\ fixed' = fixed /\ stop' = stop
         /\ est' = est /\ fastest' = fastest /\ capped' = capped /\ listening' = listening
         /\ openPorts' = openPorts /\ retries' = retries /\ deferred' = deferred
         /\ silentTwice' = silentTwice /\ answeredTwice' = answeredTwice
         /\ halfUnits' = halfUnits /\ advanced' = advanced
         /\ waited' = waited /\ answer' = answer /\ errored' = errored
         /\ tries' = [tries EXCEPT ![p.port] = @ + 1]
         /\ blindly' = IF p.blind THEN blindly \cup {p.port} ELSE blindly
  BY DEF HandOut, learnVars, tallyVars

LEMMA HandOutTypes ==
  ASSUME Types, NEW p \in Probe, HandOut(p), p.deferrable \/ p.blind \/ pass # "first" => p.timeout <= CeilingMs,
         nextRanked' \in 1..(Len(ByRank) + 1), nextPort' \in Start..(End + 1),
         nextRetry' \in 0..Len(retries), nextThird' \in Nat
  PROVE  Types'
  <1>1. /\ inFlight' = inFlight \cup {p} /\ pass' = pass /\ fixed' = fixed /\ stop' = stop
        /\ est' = est /\ fastest' = fastest /\ capped' = capped /\ listening' = listening
        /\ retries' = retries /\ deferred' = deferred
        /\ silentTwice' = silentTwice /\ answeredTwice' = answeredTwice
        /\ halfUnits' = halfUnits /\ advanced' = advanced
        /\ waited' = waited /\ answer' = answer /\ errored' = errored
    BY HandOutFrame
  <1>2. /\ tries' = [tries EXCEPT ![p.port] = @ + 1]
        /\ blindly' = IF p.blind THEN blindly \cup {p.port} ELSE blindly
    BY HandOutFrame
  <1>3. p.port \in Ports
    BY DEF Probe
  <1>4. PassTypeOK'
    BY <1>1 DEF Types, PassTypeOK
  <1>5. tries' \in [Ports -> Nat] /\ blindly' \subseteq Ports
    BY <1>2, <1>3 DEF Types, RestTypeOK
  <1>6. RestTypeOK'
    BY <1>1, <1>5 DEF Types, RestTypeOK
  <1>7. RoomInv'
    BY <1>1 DEF Types, RoomInv
  <1> QED
    BY <1>4, <1>6, <1>7 DEF Types

LEMMA TypesPull ==
  ASSUME Types, PassInv, NextFirst \/ NextRetry \/ NextThird
  PROVE  Types'
  <1>0. /\ nextRetry \in 0..Len(retries) /\ nextThird \in Nat /\ Len(retries) \in Nat
        /\ nextRanked \in 1..(Len(ByRank) + 1) /\ nextPort \in Start..(End + 1)
    BY DEF Types, PassTypeOK
  <1>1. CASE NextFirst
    <2>1. PICK q \in Ports \ Walked : HandOut(FirstTry(q))
      BY <1>1, FirstFacts DEF Types
    <2>2. /\ pass = "first" /\ nextRetry' = nextRetry /\ nextThird' = nextThird
          /\ nextRanked' \in 1..(Len(ByRank) + 1) /\ nextPort' \in Start..(End + 1)
      BY <1>1, FirstFacts DEF Types
    <2>3. /\ FirstTry(q) \in Probe
          /\ FirstTry(q).deferrable \/ FirstTry(q).blind => FirstTry(q).timeout <= CeilingMs
      BY FirstTryFacts DEF Types
    <2> QED
      BY <1>0, <2>1, <2>2, <2>3, HandOutTypes
  <1>2. CASE NextRetry
    <2> DEFINE p == RetryTry(retries[nextRetry + 1])
    <2>1. /\ HandOut(p) /\ p \in Probe /\ p.timeout <= CeilingMs /\ nextRetry + 1 \in 1..Len(retries)
          /\ nextRetry' = nextRetry + 1 /\ nextThird' = nextThird
      BY <1>2, RetryFacts
    <2>2. nextRanked' = nextRanked /\ nextPort' = nextPort
      BY <1>2 DEF NextRetry
    <2> HIDE DEF p
    <2> QED
      BY <1>0, <2>1, <2>2, HandOutTypes
  <1>3. CASE NextThird
    <2> DEFINE p == ThirdTry(retries[nextThird + 1])
    <2>1. /\ HandOut(p) /\ p \in Probe /\ p.timeout <= CeilingMs
          /\ nextRetry' = nextRetry /\ nextThird' = nextThird + 1
      BY <1>3, ThirdFacts
    <2>2. nextRanked' = nextRanked /\ nextPort' = nextPort
      BY <1>3 DEF NextThird
    <2> HIDE DEF p
    <2> QED
      BY <1>0, <2>1, <2>2, HandOutTypes
  <1> QED
    BY <1>1, <1>2, <1>3

(* Counting halves counts whole ports as they fill. *)
LEMMA AdvanceFacts ==
  ASSUME RestTypeOK, NEW n \in {1, 2}, AdvanceHalves(n)
  PROVE  /\ halfUnits' = halfUnits + n /\ halfUnits' \in Nat /\ advanced' \in Nat
         /\ advanced = halfUnits \div 2 => advanced' = halfUnits' \div 2
  <1>1. halfUnits \in Nat /\ advanced \in Nat
    BY DEF RestTypeOK
  <1>2. halfUnits' = halfUnits + n /\ advanced' = advanced + ((halfUnits + n) \div 2) - (halfUnits \div 2)
    BY DEF AdvanceHalves
  <1>3. /\ (halfUnits + n) \div 2 \in Nat /\ halfUnits \div 2 \in Nat
        /\ (halfUnits + n) \div 2 >= halfUnits \div 2
    BY <1>1
  <1> QED
    BY <1>1, <1>2, <1>3

(* What the end of a probe leaves of the types of the rest. *)
LEMMA EndsRest ==
  ASSUME Types, NEW p, NEW outcome \in Outcomes, NEW elapsed \in Nat, Ends(p, outcome, elapsed)
  PROVE  RestTypeOK'
  <1>1. p \in Probe /\ fixed' = fixed /\ listening' = listening /\ tries' = tries /\ blindly' = blindly
    BY EndsFrame DEF Types
  <1>2. p.port \in Ports /\ p.timeout \in Nat /\ FloorMs \in Nat
    BY <1>1, RttAssumption DEF Probe
  <1>3. est' \in Estimator /\ fastest' \in Nat \cup {NoAnswer}
    <2>1. CASE outcome = "filtered"
      BY <2>1 DEF Ends, Done, Learn, Types, RestTypeOK
    <2>2. CASE outcome # "filtered"
      <3>1. /\ est' = ObserveRtt(est, elapsed)
            /\ fastest' = IF fastest = NoAnswer THEN elapsed ELSE Smaller(fastest, elapsed)
        BY <2>2 DEF Ends, Done, Learn
      <3>2. est \in Estimator /\ fastest \in Nat \cup {NoAnswer}
        BY DEF Types, RestTypeOK
      <3> QED
        BY <3>1, <3>2, ObserveType DEF Smaller
    <2> QED
      BY <2>1, <2>2
  <1>4. capped' \in BOOLEAN
    BY DEF Ends, Done, Learn
  <1>5. halfUnits' \in Nat /\ advanced' \in Nat
    <2>1. CASE pass = "first"
      <3>1. AdvanceHalves(Halves(p, outcome, elapsed)) /\ Halves(p, outcome, elapsed) \in {1, 2}
        BY <2>1, EndsFirst DEF Halves
      <3> QED
        BY <3>1, AdvanceFacts DEF Types
    <2>2. CASE pass = "retry"
      BY <2>2, EndsRetry, AdvanceFacts DEF Types
    <2>3. CASE pass = "third"
      BY <2>3, EndsThird DEF Types, RestTypeOK
    <2> QED
      BY <2>1, <2>2, <2>3, EndsFrame DEF Types
  <1>6. waited' \in [Ports -> Nat] /\ errored' \subseteq Ports
    <2>1. waited \in [Ports -> Nat] /\ errored \subseteq Ports
      BY DEF Types, RestTypeOK
    <2>2. CASE waited' = waited
      BY <1>2, <2>1, <2>2 DEF Ends
    <2>3. CASE waited' = [waited EXCEPT ![p.port] = @ + p.timeout] /\ errored' = errored
      BY <1>2, <2>1, <2>3
    <2>4. CASE waited' = [waited EXCEPT ![p.port] = @ + FloorMs] /\ errored' = errored
      BY <1>2, <2>1, <2>4
    <2> QED
      BY <2>2, <2>3, <2>4 DEF Ends
  <1>7. answer' \in [Ports -> {"none", "open", "refused"}]
    <2>1. answer \in [Ports -> {"none", "open", "refused"}]
      BY DEF Types, RestTypeOK
    <2>2. CASE outcome # "filtered" /\ answer' = [answer EXCEPT ![p.port] = outcome]
      BY <1>2, <2>1, <2>2 DEF Outcomes
    <2> QED
      BY <2>1, <2>2 DEF Ends
  <1> QED
    BY <1>1, <1>3, <1>4, <1>5, <1>6, <1>7 DEF Types, RestTypeOK

LEMMA TypesEnds ==
  ASSUME Types, PassInv, NEW p, NEW outcome \in Outcomes, NEW elapsed \in Nat, Ends(p, outcome, elapsed)
  PROVE  Types'
  <1>1. /\ p \in inFlight /\ p \in Probe /\ inFlight' = inFlight \ {p} /\ pass' = pass /\ stop' = stop
        /\ nextRanked' = nextRanked /\ nextPort' = nextPort
        /\ nextRetry' = nextRetry /\ nextThird' = nextThird /\ pass \in {"first", "retry", "third"}
    BY EndsFrame DEF Types
  <1>2. /\ retries \in Seq(Deferred) /\ deferred \in Seq(Ports) /\ silentTwice \in Nat /\ answeredTwice \in Nat
        /\ nextRetry \in 0..Len(retries) /\ Len(retries) \in Nat
    BY DEF Types, PassTypeOK
  <1>3. p.port \in Ports /\ p.timeout \in Nat
    BY <1>1 DEF Probe
  <1> DEFINE Fits == /\ retries' \in Seq(Deferred) /\ deferred' \in Seq(Ports)
                     /\ silentTwice' \in Nat /\ answeredTwice' \in Nat
                     /\ Len(retries') >= Len(retries) /\ Len(retries') \in Nat
                     /\ \A i \in 1..Len(retries') : retries'[i].waited <= CeilingMs
  <1>4. Fits
    <2>0. \A i \in 1..Len(retries) : retries[i].waited <= CeilingMs
      BY DEF Types, RoomInv
    <2>1. CASE pass = "first"
      <3>1. CASE retries' = retries /\ deferred' = deferred
        BY <1>2, <2>0, <2>1, <3>1, EndsFirst
      <3>2. ASSUME NEW d \in Deferred, d.waited = p.timeout, EarnsRetry(p, elapsed),
                   retries' = Append(retries, d), deferred' = Append(deferred, p.port)
            PROVE  Fits
        <4>1. /\ retries' \in Seq(Deferred) /\ Len(retries') = Len(retries) + 1
              /\ (\A i \in 1..Len(retries) : retries'[i] = retries[i]) /\ retries'[Len(retries) + 1] = d
          BY <1>2, <3>2, AppendFacts
        <4>2. deferred' \in Seq(Ports)
          BY <1>2, <1>3, <3>2, AppendFacts
        <4>3. d.waited <= CeilingMs
          BY <1>1, <3>2 DEF EarnsRetry, Types, RoomInv
        <4>4. \A i \in 1..Len(retries') : retries'[i].waited <= CeilingMs
          <5>1. \A i \in 1..Len(retries') : i \in 1..Len(retries) \/ i = Len(retries) + 1
            BY <1>2, <4>1
          <5> QED
            BY <2>0, <4>1, <4>3, <5>1
        <4>5. silentTwice' = silentTwice /\ answeredTwice' = answeredTwice
          BY <2>1, EndsFirst
        <4> QED
          BY <1>2, <4>1, <4>2, <4>4, <4>5
      <3> QED
        BY <2>1, <3>1, <3>2, EndsFirst
    <2>2. CASE pass = "retry"
      <3>1. CASE answeredTwice' = answeredTwice + 1 /\ silentTwice' = silentTwice /\ retries' = retries
        BY <1>2, <2>0, <2>2, <3>1, EndsRetry
      <3>2. ASSUME NEW d \in Deferred, d.waited = p.timeout, retries' = [retries EXCEPT ![silentTwice + 1] = d],
                   silentTwice' = silentTwice + 1, answeredTwice' = answeredTwice
            PROVE  Fits
        <4>1. silentTwice + 1 \in 1..Len(retries)
          BY <1>2, <2>2, PassEndsRetry
        <4>2. /\ retries' \in Seq(Deferred) /\ Len(retries') = Len(retries) /\ retries'[silentTwice + 1] = d
              /\ \A i \in 1..Len(retries) : i # silentTwice + 1 => retries'[i] = retries[i]
          BY <1>2, <3>2, <4>1, ExceptFacts
        <4>3. d.waited <= CeilingMs
          BY <1>1, <2>2, <3>2 DEF Types, RoomInv
        <4>4. \A i \in 1..Len(retries') : retries'[i].waited <= CeilingMs
          BY <2>0, <4>2, <4>3
        <4>5. deferred' = deferred
          BY <2>2, EndsRetry
        <4> QED
          BY <1>2, <3>2, <4>2, <4>4, <4>5
      <3> QED
        BY <2>2, <3>1, <3>2, EndsRetry
    <2>3. CASE pass = "third"
      BY <1>2, <2>0, <2>3, EndsThird
    <2> QED
      BY <1>1, <2>1, <2>2, <2>3
  <1>5. PassTypeOK'
    BY <1>1, <1>2, <1>4 DEF Types, PassTypeOK
  <1>6. RoomInv'
    BY <1>1, <1>4 DEF Types, RoomInv
  <1> QED
    BY <1>5, <1>6, EndsRest DEF Types

LEMMA TypesTurn ==
  ASSUME Types, NextPass \/ RunFails \/ Stop \/ UNCHANGED vars
  PROVE  Types'
  <1>1. /\ nextRanked' = nextRanked /\ nextPort' = nextPort /\ nextRetry' = nextRetry /\ nextThird' = nextThird
        /\ fixed' = fixed /\ est' = est /\ fastest' = fastest /\ capped' = capped
        /\ retries' = retries /\ silentTwice' = silentTwice /\ answeredTwice' = answeredTwice
        /\ halfUnits' = halfUnits /\ advanced' = advanced /\ deferred' = deferred /\ listening' = listening
        /\ tries' = tries /\ waited' = waited /\ answer' = answer /\ errored' = errored /\ blindly' = blindly
    BY TurnFrame
  <1>2. /\ pass' \in {"first", "retry", "third", "done", "failed"} /\ stop' \in BOOLEAN
        /\ inFlight' = {} \/ (inFlight' = inFlight /\ pass' = pass)
    BY TurnFacts DEF Types, PassTypeOK
  <1>3. PassTypeOK'
    BY <1>1, <1>2 DEF Types, PassTypeOK
  <1>4. RestTypeOK'
    BY <1>1 DEF Types, RestTypeOK
  <1>5. RoomInv'
    BY <1>1, <1>2 DEF Types, RoomInv
  <1> QED
    BY <1>3, <1>4, <1>5 DEF Types

LEMMA TypesNext == ASSUME Types, PassInv, [Next]_vars PROVE Types'
  BY NextCases, TypesPull, TypesEnds, TypesTurn DEF Types

(* A scan starts with nothing handed out. *)
LEMMA InitFacts ==
  ASSUME Init
  PROVE  Types /\ PassInv /\ Walked = {} /\ Second = {} /\ Third = {}
  <1>0. /\ Len(ByRank) \in Nat /\ Start \in Nat /\ End \in Nat /\ Start <= End /\ Ports \subseteq Nat
        /\ \A q \in Ports : q >= Start
    BY PortsFacts, RangeAssumption DEF Ports
  <1>1. PassTypeOK
    <2>1. nextRanked \in 1..(Len(ByRank) + 1) /\ nextPort \in Start..(End + 1)
      BY <1>0 DEF Init
    <2>2. retries \in Seq(Deferred) /\ deferred \in Seq(Ports) /\ Len(retries) = 0
      BY DEF Init
    <2>3. pass = "first" /\ stop = FALSE /\ inFlight = {}
      BY DEF Init
    <2>4. nextRetry = 0 /\ nextThird = 0 /\ silentTwice = 0 /\ answeredTwice = 0
      BY DEF Init
    <2>5. stop \in BOOLEAN
      BY <2>3
    <2> QED
      BY <2>1, <2>2, <2>3, <2>4, <2>5 DEF PassTypeOK
  <1>2. NoEstimate \in Estimator
    <2>1. PICK no : no = FALSE
      OBVIOUS
    <2>2. [known |-> no, srtt |-> 0, rttvar |-> 0] \in Estimator
      BY <2>1 DEF Estimator
    <2> QED
      BY <2>1, <2>2 DEF NoEstimate
  <1>3. RestTypeOK
    BY <1>2, WaitsAssumption DEF Init, RestTypeOK
  <1>4. RoomInv
    BY DEF Init, RoomInv
  <1>5. Walked = {}
    BY <1>0 DEF Init, Walked
  <1>6. Second = {} /\ Third = {}
    BY DEF Init, Second, Third
  <1>7. SlotInv
    BY DEF Init, SlotInv
  <1>8. FlightInv
    BY FS_EmptySet DEF Init, FlightInv
  <1>9. CountInv
    BY DEF Init, CountInv
  <1> QED
    BY <1>1, <1>3, <1>4, <1>5, <1>6, <1>7, <1>8, <1>9 DEF Types, PassInv

-----------------------------------------------------------------------------
(* Tries. *)

(* The ports of the second pass were deferred, those of the third are of the
   second, and what was handed out stays handed out. *)
LEMMA PassSets ==
  ASSUME Types, PassInv
  PROVE  /\ Walked \subseteq Ports /\ Second \subseteq Walked /\ Third \subseteq Second
         /\ pass = "first" => Second = {} /\ Third = {}
         /\ pass = "retry" => Third = {}
  <1>0. /\ Len(deferred) = Len(retries) /\ Len(retries) \in Nat /\ nextRetry \in 0..Len(retries)
        /\ silentTwice <= nextRetry /\ nextThird <= silentTwice
        /\ silentTwice \in Nat /\ nextThird \in Nat
    BY DEF Types, PassTypeOK, PassInv, SlotInv
  <1>1. Walked \subseteq Ports
    BY DEF Walked
  <1>2. Second \subseteq Walked
    BY <1>0 DEF Second, PassInv, SlotInv
  <1>3. Third \subseteq Second
    BY <1>0 DEF Third, PassInv, SlotInv
  <1>4. pass = "first" => nextRetry = 0
    BY DEF PassInv, SlotInv
  <1>5. pass = "first" => Second = {} /\ Third = {}
    BY <1>3, <1>4 DEF Second
  <1>6. pass = "retry" => Third = {}
    BY DEF Third, PassInv, SlotInv
  <1> QED
    BY <1>1, <1>2, <1>3, <1>5, <1>6

(* How the passes' sets change. *)
LEMMA EndsSets ==
  ASSUME Types, PassInv, NEW p, NEW outcome, NEW elapsed, Ends(p, outcome, elapsed)
  PROVE  Walked' = Walked /\ Second' = Second /\ Third' = Third
  <1>1. /\ nextRetry' = nextRetry /\ nextThird' = nextThird /\ Walked' = Walked
        /\ pass \in {"first", "retry", "third"}
    BY EndsFrame DEF Types
  <1>2. CASE pass = "first"
    <2>1. nextRetry = 0 /\ nextThird = 0
      BY <1>2 DEF PassInv, SlotInv, Types, PassTypeOK
    <2> QED
      BY <1>1, <2>1 DEF Second, Third
  <1>3. CASE pass = "retry"
    <2>1. nextThird = 0 /\ deferred' = deferred
      BY <1>3, EndsRetry DEF PassInv, SlotInv
    <2> QED
      BY <1>1, <2>1 DEF Second, Third
  <1>4. CASE pass = "third"
    BY <1>1, <1>4, EndsThird DEF Second, Third
  <1> QED
    BY <1>1, <1>2, <1>3, <1>4

(* A try is counted with the pass that makes it. *)
LEMMA TriesNext == ASSUME Types, PassInv, TriesInv, [Next]_vars PROVE TriesInv'
  <1>0. tries \in [Ports -> Nat]
    BY DEF Types, RestTypeOK
  <1>1. CASE NextFirst
    <2>1. PICK q \in Ports \ Walked : HandOut(FirstTry(q)) /\ Walked' = Walked \cup {q}
      BY <1>1, FirstFacts DEF Types
    <2>2. tries' = [tries EXCEPT ![q] = @ + 1]
      BY <2>1, HandOutFrame, FirstTryFacts DEF Types
    <2>3. Second' = Second /\ Third' = Third
      BY <1>1, <2>1, FirstFacts, HandOutFrame DEF Types, Second, Third
    <2> QED
      BY <1>0, <2>1, <2>2, <2>3 DEF TriesInv, One
  <1>2. CASE NextRetry
    <2> DEFINE q == deferred[nextRetry + 1]
               p == RetryTry(retries[nextRetry + 1])
    <2>1. /\ HandOut(p) /\ p.port = q /\ q \in Ports /\ q \notin Second /\ Second' = Second \cup {q}
          /\ Third = {} /\ Third' = {} /\ Walked' = Walked
      BY <1>2, RetryFacts
    <2> HIDE DEF q, p
    <2>2. tries' = [tries EXCEPT ![q] = @ + 1]
      BY <2>1, HandOutFrame
    <2> QED
      BY <1>0, <2>1, <2>2 DEF TriesInv, One
  <1>3. CASE NextThird
    <2> DEFINE q == retries[nextThird + 1].port
               p == ThirdTry(retries[nextThird + 1])
    <2>1. /\ HandOut(p) /\ p.port = q /\ q \in Ports /\ q \notin Third /\ Third' = Third \cup {q}
          /\ Second' = Second /\ Walked' = Walked
      BY <1>3, ThirdFacts
    <2> HIDE DEF q, p
    <2>2. tries' = [tries EXCEPT ![q] = @ + 1]
      BY <2>1, HandOutFrame
    <2> QED
      BY <1>0, <2>1, <2>2 DEF TriesInv, One
  <1>4. ASSUME NEW p \in inFlight, NEW outcome \in Outcomes, NEW elapsed \in Nat, Ends(p, outcome, elapsed)
        PROVE  TriesInv'
    BY <1>4, EndsSets, EndsFrame DEF Types, TriesInv
  <1>5. CASE NextPass \/ RunFails \/ Stop \/ UNCHANGED vars
    BY <1>5, TurnFrame DEF TriesInv
  <1> QED
    BY <1>1, <1>2, <1>3, <1>4, <1>5, NextCases DEF Types

-----------------------------------------------------------------------------
(* Answers. *)

(* An end gives its own port an answer, or none at all. *)
LEMMA EndsAnswer ==
  ASSUME Types, NEW p, NEW outcome \in Outcomes, NEW elapsed, Ends(p, outcome, elapsed)
  PROVE  /\ p.port \in Ports /\ (\A q \in Ports : q # p.port => answer'[q] = answer[q])
         /\ outcome = "filtered" => answer' = answer
         /\ outcome # "filtered" => answer'[p.port] = outcome
  <1>1. p.port \in Ports
    BY EndsFrame DEF Types, Probe
  <1> QED
    BY <1>1 DEF Ends, Types, RestTypeOK

LEMMA AnswerPull ==
  ASSUME Types, PassInv, AnswerInv, NextFirst \/ NextRetry \/ NextThird
  PROVE  AnswerInv' /\ answer' = answer
  <1>0. nextRetry \in Nat /\ nextThird \in Nat /\ silentTwice \in Nat /\ Len(retries) = Len(deferred)
    BY DEF Types, PassTypeOK, PassInv, SlotInv
  <1>1. CASE NextFirst
    <2>1. PICK q \in Ports \ Walked : HandOut(FirstTry(q)) /\ Walked' = Walked \cup {q}
      BY <1>1, FirstFacts DEF Types
    <2>2. pass = "first" /\ nextRetry' = nextRetry /\ nextThird' = nextThird /\ FirstTry(q).port = q
      BY <1>1, FirstFacts, FirstTryFacts DEF Types
    <2>3. /\ inFlight' = inFlight \cup {FirstTry(q)} /\ answer' = answer /\ pass' = pass
          /\ deferred' = deferred /\ retries' = retries /\ silentTwice' = silentTwice
      BY <2>1, HandOutFrame
    <2> QED
      BY <2>1, <2>2, <2>3 DEF AnswerInv
  <1>2. CASE NextRetry
    <2> DEFINE q == deferred[nextRetry + 1]
               p == RetryTry(retries[nextRetry + 1])
    <2>1. /\ pass = "retry" /\ HandOut(p) /\ p.port = q /\ Walked' = Walked /\ nextRetry + 1 \in 1..Len(retries)
          /\ nextRetry' = nextRetry + 1 /\ nextThird' = nextThird
      BY <1>2, RetryFacts
    <2>2. answer[q] = "none"
      BY <1>0, <2>1 DEF AnswerInv
    <2> HIDE DEF q, p
    <2>3. /\ inFlight' = inFlight \cup {p} /\ answer' = answer /\ pass' = pass
          /\ deferred' = deferred /\ retries' = retries /\ silentTwice' = silentTwice
      BY <2>1, HandOutFrame
    <2> QED
      BY <1>0, <2>1, <2>2, <2>3 DEF AnswerInv
  <1>3. CASE NextThird
    <2> DEFINE q == retries[nextThird + 1].port
               p == ThirdTry(retries[nextThird + 1])
    <2>1. /\ pass = "third" /\ HandOut(p) /\ p.port = q /\ Walked' = Walked /\ nextThird + 1 \in 1..silentTwice
          /\ nextRetry' = nextRetry /\ nextThird' = nextThird + 1
      BY <1>3, ThirdFacts
    <2>2. answer[q] = "none"
      BY <1>0, <2>1 DEF AnswerInv
    <2> HIDE DEF q, p
    <2>3. /\ inFlight' = inFlight \cup {p} /\ answer' = answer /\ pass' = pass
          /\ deferred' = deferred /\ retries' = retries /\ silentTwice' = silentTwice
      BY <2>1, HandOutFrame
    <2> QED
      BY <1>0, <2>1, <2>2, <2>3 DEF AnswerInv
  <1> QED
    BY <1>1, <1>2, <1>3

(* The port that ends is not one that has yet to be tried. *)
LEMMA AnswerEnds ==
  ASSUME Types, PassInv, AnswerInv, NEW p, NEW outcome \in Outcomes, NEW elapsed, Ends(p, outcome, elapsed)
  PROVE  AnswerInv'
  <1>1. /\ p \in inFlight /\ inFlight' = inFlight \ {p} /\ pass' = pass
        /\ nextRetry' = nextRetry /\ nextThird' = nextThird /\ Walked' = Walked
        /\ pass \in {"first", "retry", "third"}
    BY EndsFrame DEF Types
  <1>2. /\ p.port \in Ports /\ \A q \in Ports : q # p.port => answer'[q] = answer[q]
    BY EndsAnswer
  <1>3. /\ inFlight \subseteq Probe /\ retries \in Seq(Deferred) /\ deferred \in Seq(Ports)
        /\ nextRetry \in 0..Len(retries) /\ nextThird \in Nat /\ silentTwice \in Nat
        /\ silentTwice <= nextRetry /\ nextThird <= silentTwice
        /\ Len(retries) = Len(deferred) /\ Len(retries) \in Nat
    BY DEF Types, PassTypeOK, PassInv, SlotInv
  <1>0. \A i \in 1..Len(retries) : retries[i].port \in Ports
    <2>1. \A i \in 1..Len(retries) : retries[i] \in Deferred
      BY <1>3
    <2> QED
      BY <2>1 DEF Deferred
  <1>4. p.port \in Walked
    <2>1. p.port \in Walked \/ p.port \in Second \/ p.port \in Third
      BY <1>1 DEF PassInv, FlightInv
    <2> QED
      BY <2>1, PassSets
  <1>5. \A q \in Ports \ Walked : answer'[q] = "none"
    BY <1>2, <1>4 DEF AnswerInv
  <1>6. \A r \in inFlight' : answer'[r.port] = "none"
    <2>1. \A r \in inFlight' : r \in inFlight /\ r.port # p.port /\ r.port \in Ports
      BY <1>1, <1>3 DEF PassInv, FlightInv, Probe
    <2> QED
      BY <1>2, <2>1 DEF AnswerInv
  <1>7. CASE pass = "first"
    <2>1. nextRetry = 0 /\ silentTwice' = silentTwice
      BY <1>7, EndsFirst DEF PassInv, SlotInv
    <2>2. \A i \in 1..Len(deferred) : deferred[i] # p.port /\ deferred[i] \in Ports /\ answer[deferred[i]] = "none"
      <3>1. \A i \in 1..Len(deferred) : deferred[i] # p.port
        BY <1>1, <1>7 DEF PassInv, FlightInv
      <3> QED
        BY <1>3, <1>7, <2>1, <3>1 DEF AnswerInv
    <2>3. \A i \in 1..Len(deferred) : answer'[deferred[i]] = "none"
      BY <1>2, <2>2
    <2>4. CASE deferred' = deferred
      BY <1>1, <1>5, <1>6, <1>7, <2>1, <2>3, <2>4 DEF AnswerInv
    <2>5. CASE outcome = "filtered" /\ deferred' = Append(deferred, p.port)
      <3>1. /\ Len(deferred') = Len(deferred) + 1 /\ (\A i \in 1..Len(deferred) : deferred'[i] = deferred[i])
            /\ deferred'[Len(deferred) + 1] = p.port
        BY <1>2, <1>3, <2>5, AppendFacts
      <3>2. answer'[p.port] = "none"
        BY <1>1, <2>5, EndsAnswer DEF AnswerInv
      <3>3. \A i \in 1..Len(deferred') : i \in 1..Len(deferred) \/ i = Len(deferred) + 1
        BY <1>3, <3>1
      <3>4. \A i \in 1..Len(deferred') : answer'[deferred'[i]] = "none"
        BY <2>3, <3>1, <3>2, <3>3
      <3> QED
        BY <1>1, <1>5, <1>6, <1>7, <2>1, <3>4 DEF AnswerInv
    <2> QED
      BY <1>7, <2>4, <2>5, EndsFirst
  <1>8. CASE pass = "retry"
    <2>1. deferred' = deferred /\ nextThird = 0
      BY <1>8, EndsRetry DEF PassInv, SlotInv
    <2>2. \A i \in (nextRetry + 1)..Len(deferred) : deferred[i] # p.port /\ deferred[i] \in Ports
      <3>1. p.port \in Second
        BY <1>1, <1>8 DEF PassInv, FlightInv
      <3>2. PICK k \in 1..nextRetry : p.port = deferred[k]
        BY <3>1 DEF Second
      <3>3. \A i \in (nextRetry + 1)..Len(deferred) : i \in 1..Len(deferred) /\ k \in 1..Len(deferred) /\ i # k
        BY <1>3
      <3> QED
        BY <1>3, <3>2, <3>3 DEF PassInv, SlotInv
    <2>3. \A i \in (nextRetry + 1)..Len(deferred) : answer'[deferred[i]] = "none"
      BY <1>2, <1>8, <2>2 DEF AnswerInv
    <2>4. \A i \in 1..silentTwice : answer'[retries[i].port] = "none"
      <3>1. \A i \in 1..silentTwice : retries[i].port # p.port
        BY <1>1, <1>8 DEF PassInv, FlightInv
      <3>2. \A i \in 1..silentTwice : i \in 1..Len(retries) /\ i \in (nextThird + 1)..silentTwice
        BY <1>3, <2>1
      <3>3. \A i \in 1..silentTwice : retries[i].port \in Ports
        BY <1>0, <3>2
      <3> QED
        BY <1>2, <1>8, <3>1, <3>2, <3>3 DEF AnswerInv
    <2>5. CASE silentTwice' = silentTwice /\ retries' = retries
      BY <1>1, <1>5, <1>6, <1>8, <2>1, <2>3, <2>4, <2>5 DEF AnswerInv
    <2>6. ASSUME NEW d \in Deferred, d.port = p.port, retries' = [retries EXCEPT ![silentTwice + 1] = d],
                 silentTwice' = silentTwice + 1, outcome = "filtered"
          PROVE  AnswerInv'
      <3>1. silentTwice + 1 \in 1..Len(retries)
        BY <1>3, <1>8, PassEndsRetry
      <3>2. /\ retries'[silentTwice + 1] = d
            /\ \A i \in 1..Len(retries) : i # silentTwice + 1 => retries'[i] = retries[i]
        BY <1>3, <2>6, <3>1, ExceptFacts
      <3>3. answer'[p.port] = "none"
        BY <1>1, <2>6, EndsAnswer DEF AnswerInv
      <3>4. \A i \in 1..(silentTwice + 1) : i = silentTwice + 1 \/ (i \in 1..silentTwice /\ i \in 1..Len(retries) /\ i # silentTwice + 1)
        BY <1>3, <3>1
      <3>5. \A i \in 1..(silentTwice + 1) : answer'[retries'[i].port] = "none"
        BY <2>4, <2>6, <3>2, <3>3, <3>4
      <3> QED
        BY <1>1, <1>5, <1>6, <1>8, <2>1, <2>3, <2>6, <3>5 DEF AnswerInv
    <2> QED
      BY <1>8, <2>5, <2>6, EndsRetry
  <1>9. CASE pass = "third"
    <2>1. deferred' = deferred /\ retries' = retries /\ silentTwice' = silentTwice
      BY <1>9, EndsThird
    <2>2. \A i \in (nextThird + 1)..silentTwice : retries[i].port # p.port /\ retries[i].port \in Ports
      <3>1. p.port \in Third
        BY <1>1, <1>9 DEF PassInv, FlightInv
      <3>2. PICK k \in 1..nextThird : p.port = retries[k].port
        BY <3>1 DEF Third
      <3>3. \A i \in (nextThird + 1)..silentTwice :
              i \in 1..silentTwice /\ i \in 1..Len(retries) /\ k \in 1..silentTwice /\ i # k
        BY <1>3
      <3> QED
        BY <1>0, <3>2, <3>3 DEF PassInv, SlotInv
    <2>3. \A i \in (nextThird + 1)..silentTwice : answer'[retries[i].port] = "none"
      BY <1>2, <1>9, <2>2 DEF AnswerInv
    <2> QED
      BY <1>1, <1>5, <1>6, <1>9, <2>1, <2>3 DEF AnswerInv
  <1> QED
    BY <1>1, <1>7, <1>8, <1>9

LEMMA AnswerTurn ==
  ASSUME Types, PassInv, AnswerInv, NextPass \/ RunFails \/ Stop \/ UNCHANGED vars
  PROVE  AnswerInv'
  <1>1. /\ nextRetry' = nextRetry /\ nextThird' = nextThird /\ retries' = retries /\ deferred' = deferred
        /\ silentTwice' = silentTwice /\ answer' = answer /\ Walked' = Walked
    BY TurnFrame
  <1>2. \/ pass = "first" /\ pass' = "retry" /\ inFlight' = {}
        \/ pass = "retry" /\ pass' = "third" /\ inFlight' = {}
        \/ pass' \in {"done", "failed"} /\ inFlight' = {}
        \/ pass' = pass /\ inFlight' = inFlight
    BY TurnFacts DEF Types
  <1>3. pass = "first" => silentTwice = 0 /\ nextThird = 0
    BY DEF PassInv, SlotInv, Types, PassTypeOK
  <1> QED
    BY <1>1, <1>2, <1>3 DEF AnswerInv

LEMMA AnswerNext == ASSUME Types, PassInv, AnswerInv, [Next]_vars PROVE AnswerInv'
  BY NextCases, AnswerPull, AnswerEnds, AnswerTurn DEF Types

(* The list of open ports is the ports that answered so. *)
LEMMA OpenEnds ==
  ASSUME Types, PassInv, AnswerInv, OpenInv,
         NEW p, NEW outcome \in Outcomes, NEW elapsed, Ends(p, outcome, elapsed)
  PROVE  OpenInv'
  <1>1. p \in inFlight /\ pass' = pass /\ pass \in {"first", "retry", "third"}
    BY EndsFrame DEF Types
  <1>2. /\ p.port \in Ports /\ (\A q \in Ports : q # p.port => answer'[q] = answer[q])
        /\ outcome = "filtered" => answer' = answer
        /\ outcome # "filtered" => answer'[p.port] = outcome
    BY EndsAnswer
  <1>3. answer[p.port] = "none"
    BY <1>1 DEF AnswerInv
  <1>4. /\ openPorts \in Seq(Ports) /\ Len(openPorts) \in Nat
        /\ \A i, k \in 1..Len(openPorts) : openPorts[i] = openPorts[k] => i = k
        /\ {openPorts[i] : i \in 1..Len(openPorts)} = {q \in Ports : answer[q] = "open"}
    BY <1>1 DEF OpenInv
  <1>5. CASE outcome = "open"
    <2>1. openPorts' = Append(openPorts, p.port)
      BY <1>5 DEF Ends, Done, RecordOpen
    <2>2. /\ openPorts' \in Seq(Ports) /\ Len(openPorts') = Len(openPorts) + 1
          /\ \A i \in 1..Len(openPorts) : openPorts'[i] = openPorts[i]
          /\ openPorts'[Len(openPorts) + 1] = p.port
          /\ 1..Len(openPorts') = (1..Len(openPorts)) \cup {Len(openPorts) + 1}
      BY <1>2, <1>4, <2>1, AppendFacts
    <2>3. \A i \in 1..Len(openPorts) : openPorts[i] # p.port
      BY <1>3, <1>4
    <2>4. \A i, k \in 1..Len(openPorts') : openPorts'[i] = openPorts'[k] => i = k
      BY <1>4, <2>2, <2>3
    <2>5. {openPorts'[i] : i \in 1..Len(openPorts')} = {q \in Ports : answer[q] = "open"} \cup {p.port}
      BY <1>4, <2>2
    <2>6. {q \in Ports : answer'[q] = "open"} = {q \in Ports : answer[q] = "open"} \cup {p.port}
      BY <1>2, <1>5
    <2> QED
      BY <1>1, <2>2, <2>4, <2>5, <2>6 DEF OpenInv
  <1>6. CASE outcome # "open"
    <2>1. openPorts' = openPorts
      BY <1>6 DEF Ends, Done, RecordOpen
    <2>2. {q \in Ports : answer'[q] = "open"} = {q \in Ports : answer[q] = "open"}
      BY <1>2, <1>3, <1>6
    <2> QED
      BY <1>1, <1>4, <2>1, <2>2 DEF OpenInv
  <1> QED
    BY <1>5, <1>6

LEMMA OpenTurn ==
  ASSUME Types, OpenInv, NextPass \/ RunFails \/ Stop \/ UNCHANGED vars
  PROVE  OpenInv'
  <1>1. answer' = answer
    BY TurnFrame
  <1>2. CASE pass' = pass /\ openPorts' = openPorts
    BY <1>1, <1>2 DEF OpenInv
  <1>3. CASE pass \in {"first", "retry"} /\ pass' \in {"retry", "third"} /\ openPorts' = openPorts
    BY <1>1, <1>3 DEF OpenInv
  <1>4. CASE pass' = "failed" /\ openPorts' = <<>>
    <2>1. <<>> \in Seq(Ports) /\ Len(<<>>) = 0
      OBVIOUS
    <2> QED
      BY <1>4, <2>1 DEF OpenInv
  <1>5. CASE pass \in {"retry", "third"} /\ pass' = "done" /\ openPorts' = Sorted(openPorts)
    <2>1. /\ openPorts \in Seq(Ports) /\ \A i, k \in 1..Len(openPorts) : openPorts[i] = openPorts[k] => i = k
      BY DEF OpenInv
    <2>2. PICK t : t = Sorted(openPorts)
      OBVIOUS
    <2>3. /\ t \in Seq(Ports) /\ Len(t) = Len(openPorts)
          /\ \A i, k \in 1..Len(openPorts) : t[i] = t[k] => i = k
          /\ \A i \in 2..Len(openPorts) : t[i - 1] < t[i]
          /\ {t[i] : i \in 1..Len(openPorts)} = {openPorts[i] : i \in 1..Len(openPorts)}
      BY <2>1, <2>2, SortedFacts
    <2>4. openPorts' = t
      BY <1>5, <2>2
    <2>5. {openPorts'[i] : i \in 1..Len(openPorts')} = {q \in Ports : answer'[q] = "open"}
      <3>1. {openPorts[i] : i \in 1..Len(openPorts)} = {q \in Ports : answer[q] = "open"}
        BY <1>5 DEF OpenInv
      <3>2. {t[i] : i \in 1..Len(t)} = {q \in Ports : answer[q] = "open"}
        BY <2>3, <3>1, Zenon
      <3> QED
        BY <1>1, <2>4, <3>2, Zenon
    <2> QED
      BY <2>3, <2>4, <2>5 DEF OpenInv
  <1> QED
    BY <1>2, <1>3, <1>4, <1>5, TurnFacts DEF Types

LEMMA OpenNext == ASSUME Types, PassInv, AnswerInv, OpenInv, [Next]_vars PROVE OpenInv'
  <1>1. CASE NextFirst \/ NextRetry \/ NextThird
    <2>1. answer' = answer
      BY <1>1, AnswerPull
    <2>2. openPorts' = openPorts /\ pass' = pass
      BY <1>1, HandOutFrame DEF NextFirst, NextRetry, NextThird
    <2> QED
      BY <2>1, <2>2 DEF OpenInv
  <1> QED
    BY <1>1, NextCases, OpenEnds, OpenTurn DEF Types

-----------------------------------------------------------------------------
(* Progress. *)

(* Counting. *)
LEMMA CountFacts ==
  ASSUME Types, PassInv
  PROVE  /\ IsFiniteSet(Walked) /\ Cardinality(Walked) \in Nat /\ Cardinality(Walked) <= Total /\ Total \in Nat
         /\ IsFiniteSet(inFlight) /\ Cardinality(inFlight) \in Nat
         /\ Cardinality(Walked) = Total => Walked = Ports
         /\ Cardinality(inFlight) = 0 => inFlight = {}
  <1>1. IsFiniteSet(Ports) /\ Cardinality(Ports) = Total /\ Total \in Nat
    BY PortsFacts
  <1>2. Walked \in SUBSET Ports
    BY DEF Walked
  <1>3. /\ IsFiniteSet(Walked) /\ Cardinality(Walked) <= Cardinality(Ports)
        /\ Cardinality(Ports) = Cardinality(Walked) => Ports = Walked
    BY <1>1, <1>2, FS_Subset
  <1>4. IsFiniteSet(inFlight)
    BY DEF PassInv, FlightInv
  <1>5. Cardinality(Walked) \in Nat /\ Cardinality(inFlight) \in Nat
    BY <1>3, <1>4, FS_CardinalityType
  <1>6. Cardinality(inFlight) = 0 => inFlight = {}
    BY <1>4, FS_EmptySet
  <1> QED
    BY <1>1, <1>3, <1>4, <1>5, <1>6

LEMMA HalvesPull ==
  ASSUME Types, PassInv, HalvesInv, NextFirst \/ NextRetry \/ NextThird
  PROVE  HalvesInv'
  <1>1. CASE NextFirst
    <2>1. PICK q \in Ports \ Walked : HandOut(FirstTry(q)) /\ Walked' = Walked \cup {q}
      BY <1>1, FirstFacts DEF Types
    <2>2. pass = "first" /\ FirstTry(q).port = q
      BY <1>1, FirstFacts, FirstTryFacts DEF Types
    <2>3. /\ inFlight' = inFlight \cup {FirstTry(q)} /\ pass' = pass /\ retries' = retries
          /\ halfUnits' = halfUnits /\ advanced' = advanced
      BY <2>1, HandOutFrame
    <2>4. FirstTry(q) \notin inFlight
      BY <2>2 DEF PassInv, FlightInv
    <2>5. /\ IsFiniteSet(Walked) /\ Cardinality(Walked) \in Nat /\ IsFiniteSet(inFlight) /\ Cardinality(inFlight) \in Nat
      BY CountFacts
    <2>6. Cardinality(Walked') = Cardinality(Walked) + 1
      BY <2>1, <2>5, FS_AddElement
    <2>7. Cardinality(inFlight') = Cardinality(inFlight) + 1
      BY <2>3, <2>4, <2>5, FS_AddElement
    <2>8. Cardinality(Walked') - Cardinality(inFlight') = Cardinality(Walked) - Cardinality(inFlight)
      BY <2>5, <2>6, <2>7
    <2> QED
      BY <2>2, <2>3, <2>8 DEF HalvesInv
  <1>2. CASE NextRetry
    <2>1. pass = "retry" /\ HandOut(RetryTry(retries[nextRetry + 1])) /\ Walked' = Walked
      BY <1>2, RetryFacts
    <2> QED
      BY <2>1, HandOutFrame DEF HalvesInv
  <1>3. CASE NextThird
    <2>1. pass = "third" /\ HandOut(ThirdTry(retries[nextThird + 1])) /\ Walked' = Walked
      BY <1>3, ThirdFacts
    <2> QED
      BY <2>1, HandOutFrame DEF HalvesInv
  <1> QED
    BY <1>1, <1>2, <1>3

(* A verdict counts two halves, or one of a port that is to be tried again. *)
LEMMA HalvesEnds ==
  ASSUME Types, PassInv, HalvesInv, NEW p, NEW outcome, NEW elapsed, Ends(p, outcome, elapsed)
  PROVE  HalvesInv'
  <1>1. /\ p \in inFlight /\ inFlight' = inFlight \ {p} /\ pass' = pass /\ Walked' = Walked
        /\ nextRetry' = nextRetry /\ pass \in {"first", "retry", "third"}
    BY EndsFrame DEF Types
  <1>2. /\ IsFiniteSet(Walked) /\ Cardinality(Walked) \in Nat /\ Cardinality(Walked) <= Total /\ Total \in Nat
        /\ IsFiniteSet(inFlight) /\ Cardinality(inFlight) \in Nat
    BY CountFacts
  <1>3. Cardinality(inFlight') = Cardinality(inFlight) - 1 /\ Cardinality(inFlight') \in Nat
    <2>1. IsFiniteSet(inFlight \ {p}) /\ Cardinality(inFlight \ {p}) = Cardinality(inFlight) - 1
      BY <1>1, <1>2, FS_RemoveElement
    <2> QED
      BY <1>1, <2>1, FS_CardinalityType
  <1>4. /\ retries \in Seq(Deferred) /\ Len(retries) \in Nat /\ silentTwice \in Nat /\ answeredTwice \in Nat
        /\ nextRetry \in 0..Len(retries) /\ advanced = halfUnits \div 2
    BY DEF Types, PassTypeOK, HalvesInv
  <1>5. CASE pass = "first"
    <2>1. AdvanceHalves(Halves(p, outcome, elapsed)) /\ Halves(p, outcome, elapsed) \in {1, 2}
      BY <1>5, EndsFirst DEF Halves
    <2>2. halfUnits' = halfUnits + Halves(p, outcome, elapsed) /\ advanced' = halfUnits' \div 2
      BY <1>4, <2>1, AdvanceFacts DEF Types
    <2>3. /\ Len(retries') = Len(retries) + 2 - Halves(p, outcome, elapsed) /\ Len(retries') \in Nat
      <3>1. CASE retries' = retries /\ ~(outcome = "filtered" /\ EarnsRetry(p, elapsed))
        BY <1>4, <1>5, <3>1 DEF Halves
      <3>2. ASSUME NEW d \in Deferred, retries' = Append(retries, d), outcome = "filtered", EarnsRetry(p, elapsed)
            PROVE  Len(retries') = Len(retries) + 2 - Halves(p, outcome, elapsed) /\ Len(retries') \in Nat
        <4>1. Len(retries') = Len(retries) + 1
          BY <1>4, <3>2, AppendFacts
        <4>2. Halves(p, outcome, elapsed) = 1
          BY <3>2 DEF Halves
        <4> QED
          BY <1>4, <4>1, <4>2
      <3> QED
        BY <1>5, <3>1, <3>2, EndsFirst
    <2>4. halfUnits = 2 * (Cardinality(Walked) - Cardinality(inFlight)) - Len(retries)
      BY <1>5 DEF HalvesInv
    <2>5. halfUnits' = 2 * (Cardinality(Walked) - Cardinality(inFlight')) - Len(retries')
      <3>1. PICK w \in Nat, f \in Nat, n \in Nat, h \in {1, 2} :
              w = Cardinality(Walked) /\ f = Cardinality(inFlight) /\ n = Len(retries) /\ h = Halves(p, outcome, elapsed)
        BY <1>2, <1>4, <2>1
      <3>2. 2 * (w - f) - n + h = 2 * (w - (f - 1)) - (n + 2 - h)
        OBVIOUS
      <3> QED
        BY <1>3, <2>2, <2>3, <2>4, <3>1, <3>2
    <2>6. halfUnits' <= 2 * Total
      BY <1>2, <1>3, <2>3, <2>5
    <2> QED
      BY <1>1, <1>5, <2>2, <2>5, <2>6 DEF HalvesInv
  <1>6. CASE pass = "retry"
    <2>1. AdvanceHalves(1)
      BY <1>6, EndsRetry
    <2>2. halfUnits' = halfUnits + 1 /\ advanced' = halfUnits' \div 2
      BY <1>4, <2>1, AdvanceFacts DEF Types
    <2>3. /\ silentTwice' + answeredTwice' = silentTwice + answeredTwice + 1
          /\ silentTwice' \in Nat /\ answeredTwice' \in Nat
      BY <1>4, <1>6, EndsRetry
    <2>4. Len(retries') = Len(retries)
      <3>1. ASSUME NEW d \in Deferred, retries' = [retries EXCEPT ![silentTwice + 1] = d]
            PROVE  Len(retries') = Len(retries)
        <4>1. silentTwice + 1 \in 1..Len(retries)
          BY <1>4, <1>6, PassEndsRetry
        <4> QED
          BY <1>4, <3>1, <4>1, ExceptFacts
      <3> QED
        BY <1>6, <3>1, EndsRetry
    <2>5. halfUnits = 2 * Cardinality(Walked) - Len(retries) + silentTwice + answeredTwice
      BY <1>6 DEF HalvesInv
    <2>6. PICK w \in Nat : w = Cardinality(Walked) /\ w <= Total
      BY <1>2
    <2>7. PICK n \in Nat : n = Len(retries) /\ nextRetry <= n /\ nextRetry \in Nat
      BY <1>4
    <2>8. PICK b \in Nat, a \in Nat : b = silentTwice /\ a = answeredTwice
      BY <1>4
    <2>9. PICK b1 \in Nat, a1 \in Nat : b1 = silentTwice' /\ a1 = answeredTwice'
      BY <2>3
    <2>10. b1 + a1 = b + a + 1
      BY <2>3, <2>8, <2>9
    <2>11. \A x \in Int : x + b + a + 1 = x + b1 + a1
      BY <2>10
    <2>12. 2 * w - n + b + a + 1 = 2 * w - n + b1 + a1
      <3>1. 2 * w - n \in Int
        OBVIOUS
      <3> QED
        BY <2>11, <3>1
    <2>13. halfUnits' = 2 * Cardinality(Walked) - Len(retries') + silentTwice' + answeredTwice'
      BY <2>2, <2>4, <2>5, <2>6, <2>7, <2>8, <2>9, <2>12
    <2>14. b1 + a1 <= n
      <3>1. b + a + Cardinality(inFlight) = nextRetry
        BY <1>6, <2>8 DEF PassInv, CountInv
      <3>2. Cardinality(inFlight) \in Nat /\ Cardinality(inFlight) >= 1
        BY <1>2, <1>3
      <3> QED
        BY <2>7, <2>10, <3>1, <3>2
    <2>15. halfUnits' <= 2 * Total
      <3>1. PICK t \in Nat : t = Total /\ w <= t
        BY <1>2, <2>6
      <3>2. 2 * w - n + b1 + a1 <= 2 * t
        BY <2>14, <3>1
      <3> QED
        BY <2>4, <2>6, <2>7, <2>9, <2>13, <3>1, <3>2
    <2> QED
      BY <1>1, <1>6, <2>2, <2>13, <2>15 DEF HalvesInv
  <1>7. CASE pass = "third"
    BY <1>1, <1>7, EndsThird DEF HalvesInv
  <1> QED
    BY <1>1, <1>5, <1>6, <1>7

LEMMA HalvesTurn ==
  ASSUME Types, PassInv, HalvesInv, NextPass \/ RunFails \/ Stop \/ UNCHANGED vars
  PROVE  HalvesInv'
  <1>1. /\ retries' = retries /\ silentTwice' = silentTwice /\ answeredTwice' = answeredTwice
        /\ halfUnits' = halfUnits /\ advanced' = advanced /\ Walked' = Walked
    BY TurnFrame
  <1>2. CASE pass = "first" /\ pass' = "retry" /\ inFlight = {}
    <2>1. Cardinality(inFlight) = 0
      BY <1>2, FS_EmptySet
    <2>2. silentTwice = 0 /\ answeredTwice = 0
      BY <1>2 DEF PassInv, SlotInv, Types, PassTypeOK
    <2>3. Cardinality(Walked) \in Nat /\ Len(retries) \in Nat
      BY CountFacts DEF Types, PassTypeOK
    <2> QED
      BY <1>1, <1>2, <2>1, <2>2, <2>3 DEF HalvesInv
  <1>3. CASE pass \in {"retry", "third"} /\ pass' \in {"third", "done"}
    BY <1>1, <1>3 DEF HalvesInv
  <1>4. CASE pass' = "failed"
    BY <1>1, <1>4 DEF HalvesInv
  <1>5. CASE pass' = pass /\ inFlight' = inFlight
    BY <1>1, <1>5 DEF HalvesInv
  <1> QED
    BY <1>2, <1>3, <1>4, <1>5, TurnFacts DEF Types

LEMMA HalvesNext == ASSUME Types, PassInv, HalvesInv, [Next]_vars PROVE HalvesInv'
  BY NextCases, HalvesPull, HalvesEnds, HalvesTurn DEF Types

-----------------------------------------------------------------------------
(* Waits. *)

LEMMA BudgetFacts ==
  ASSUME NEW q
  PROVE  /\ CeilingMs \in Nat /\ Twice(q) \in Nat /\ Budget(q) \in Nat
         /\ CeilingMs <= Twice(q) /\ Twice(q) <= Budget(q)
         /\ q \in blindly => Twice(q) = CeilingMs + CeilingMs
         /\ q \in Third => Budget(q) = Twice(q) + CeilingMs
         /\ q \notin Third => Budget(q) = Twice(q)
  <1>1. CeilingMs \in Nat
    BY RttAssumption
  <1>2. /\ Twice(q) \in Nat /\ CeilingMs <= Twice(q)
        /\ q \in blindly => Twice(q) = CeilingMs + CeilingMs
    BY <1>1 DEF Twice, Extra
  <1> QED
    BY <1>1, <1>2 DEF Budget, Extra

(* A budget never shrinks. *)
LEMMA BudgetGrows ==
  ASSUME NEW q, q \in blindly => q \in blindly', q \in Third => q \in Third'
  PROVE  Twice(q) <= Twice(q)' /\ Budget(q) <= Budget(q)'
  <1>1. CeilingMs \in Nat
    BY RttAssumption
  <1>2. Twice(q) \in Nat /\ Twice(q)' \in Nat /\ Twice(q) <= Twice(q)'
    BY <1>1 DEF Twice, Extra
  <1>3. Extra(q \in Third) \in Nat /\ Extra(q \in Third)' \in Nat /\ Extra(q \in Third) <= Extra(q \in Third)'
    BY <1>1 DEF Extra
  <1> QED
    BY <1>2, <1>3 DEF Budget

(* The wait of the port that ends grows by no more than its timeout. *)
LEMMA EndsWaited ==
  ASSUME Types, NEW p, NEW outcome, NEW elapsed, Ends(p, outcome, elapsed)
  PROVE  /\ p.port \in Ports /\ p.timeout \in Nat
         /\ \A q \in Ports : /\ waited[q] \in Nat /\ waited'[q] \in Nat /\ waited[q] <= waited'[q]
                             /\ q # p.port => waited'[q] = waited[q]
         /\ waited'[p.port] <= waited[p.port] + p.timeout
         /\ outcome = "filtered" => \/ waited'[p.port] = waited[p.port] + p.timeout
                                    \/ p.blind /\ CutShort(p, elapsed)
                                    \/ p.port \in errored'
         /\ errored \subseteq errored'
  <1>1. p.port \in Ports /\ p.timeout \in Nat /\ FloorMs \in Nat
    BY EndsFrame, RttAssumption DEF Types, Probe
  <1>2. waited \in [Ports -> Nat]
    BY DEF Types, RestTypeOK
  <1>3. \/ waited' = waited /\ errored' = errored /\ outcome # "filtered"
        \/ waited' = [waited EXCEPT ![p.port] = @ + p.timeout] /\ errored' = errored
        \/ /\ p.blind /\ CutShort(p, elapsed) /\ FloorMs < p.timeout
           /\ waited' = [waited EXCEPT ![p.port] = @ + FloorMs] /\ errored' = errored
        \/ waited' = waited /\ errored' = errored \cup {p.port}
    BY DEF Ends
  <1>4. CASE waited' = waited /\ errored' = errored /\ outcome # "filtered"
    BY <1>1, <1>2, <1>4
  <1>5. CASE waited' = [waited EXCEPT ![p.port] = @ + p.timeout] /\ errored' = errored
    BY <1>1, <1>2, <1>5
  <1>6. CASE /\ p.blind /\ CutShort(p, elapsed) /\ FloorMs < p.timeout
             /\ waited' = [waited EXCEPT ![p.port] = @ + FloorMs] /\ errored' = errored
    BY <1>1, <1>2, <1>6
  <1>7. CASE waited' = waited /\ errored' = errored \cup {p.port}
    BY <1>1, <1>2, <1>7
  <1> QED
    BY <1>3, <1>4, <1>5, <1>6, <1>7

(* The types the arithmetic of waits needs. *)
LEMMA WaitTypes ==
  ASSUME Types
  PROVE  /\ \A q \in Ports : waited[q] \in Nat
         /\ \A p \in inFlight : p.port \in Ports /\ p.timeout \in Nat
         /\ \A i \in 1..Len(retries) : retries[i].port \in Ports /\ retries[i].waited \in Nat
         /\ Len(retries) \in Nat /\ nextRetry \in Nat /\ nextRetry <= Len(retries)
         /\ nextThird \in Nat /\ silentTwice \in Nat
  <1>1. \A i \in 1..Len(retries) : retries[i] \in Deferred
    BY DEF Types, PassTypeOK
  <1>2. \A p \in inFlight : p \in Probe
    BY DEF Types, PassTypeOK
  <1> QED
    BY <1>1, <1>2 DEF Types, PassTypeOK, RestTypeOK, Deferred, Probe

LEMMA WaitFirst == ASSUME Types, PassInv, WaitInv, NextFirst PROVE WaitInv'
  <1>1. PICK q \in Ports \ Walked : HandOut(FirstTry(q)) /\ Walked' = Walked \cup {q}
    BY FirstFacts DEF Types
  <1>2. PICK p : p = FirstTry(q)
    OBVIOUS
  <1>3. pass = "first" /\ nextRetry' = nextRetry /\ nextThird' = nextThird
    BY FirstFacts DEF Types
  <1>4. p \in Probe /\ p.port = q /\ (fixed = NoTimeout => p.timeout <= CeilingMs)
    BY <1>2, FirstTryFacts DEF Types
  <1>5. /\ inFlight' = inFlight \cup {p} /\ pass' = pass /\ fixed' = fixed /\ waited' = waited
        /\ retries' = retries /\ deferred' = deferred /\ silentTwice' = silentTwice
        /\ blindly' = IF p.blind THEN blindly \cup {q} ELSE blindly
    BY <1>1, <1>2, <1>4, HandOutFrame
  <1>6. Third' = Third /\ blindly \subseteq blindly' /\ (p.blind => q \in blindly')
    BY <1>3, <1>5 DEF Third
  <1>7. \A x : Twice(x) <= Twice(x)' /\ Budget(x) <= Budget(x)'
    BY <1>6, BudgetGrows
  <1>8. \A x : Budget(x) \in Nat /\ Budget(x)' \in Nat /\ CeilingMs <= Budget(x)' /\ CeilingMs \in Nat
    <2>1. \A x : CeilingMs \in Nat /\ Budget(x) \in Nat /\ CeilingMs <= Twice(x) /\ Twice(x) <= Budget(x) /\ Twice(x) \in Nat
      BY BudgetFacts
    <2>2. \A x : Budget(x)' \in Nat
      BY <2>1 DEF Budget, Twice, Extra
    <2> QED
      BY <1>7, <2>1, <2>2
  <1>9. waited[q] = 0 /\ p.timeout \in Nat
    BY <1>4 DEF WaitInv, Probe
  <1>10. \A x \in Ports \ Walked' : waited'[x] = 0
    BY <1>1, <1>5 DEF WaitInv
  <1>11. \A r \in inFlight' : waited'[r.port] = 0 /\ (r.blind => r.port \in blindly')
    BY <1>3, <1>4, <1>5, <1>6, <1>9 DEF WaitInv
  <1>12. CASE fixed = NoTimeout
    <2>1. \A x \in Ports : waited'[x] <= Budget(x)'
      <3>1. \A x \in Ports : waited[x] <= Budget(x) /\ waited[x] \in Nat
        BY <1>12, WaitTypes DEF WaitInv
      <3> QED
        BY <1>5, <1>7, <1>8, <3>1
    <2>2. \A r \in inFlight' : waited'[r.port] + r.timeout <= Budget(r.port)'
      <3>1. \A r \in inFlight : waited[r.port] + r.timeout <= Budget(r.port) /\ waited[r.port] + r.timeout \in Nat
        BY <1>12, WaitTypes DEF WaitInv
      <3>2. waited[q] + p.timeout <= Budget(q)'
        BY <1>4, <1>8, <1>9, <1>12
      <3>3. \A r \in inFlight : waited[r.port] + r.timeout <= Budget(r.port)'
        BY <1>7, <1>8, <3>1
      <3> QED
        BY <1>4, <1>5, <3>2, <3>3
    <2>3. \A i \in (nextRetry' + 1)..Len(retries') :
            /\ retries'[i].blind => retries'[i].port \in blindly' /\ waited'[retries'[i].port] <= CeilingMs
            /\ ~retries'[i].blind => waited'[retries'[i].port] <= retries'[i].waited /\ retries'[i].waited <= CeilingMs
      BY <1>3, <1>5, <1>6, <1>12 DEF WaitInv
    <2> QED
      BY <1>3, <1>5, <1>10, <1>11, <2>1, <2>2, <2>3 DEF WaitInv
  <1>13. CASE fixed # NoTimeout
    BY <1>5, <1>10, <1>11, <1>13 DEF WaitInv
  <1> QED
    BY <1>12, <1>13

(* A second try fits in what the first left. *)
LEMMA WaitRetry == ASSUME Types, PassInv, WaitInv, NextRetry PROVE WaitInv'
  <1> DEFINE q == deferred[nextRetry + 1]
             d == retries[nextRetry + 1]
             p == RetryTry(d)
  <1>1. /\ pass = "retry" /\ nextRetry + 1 \in 1..Len(retries) /\ q \in Ports
        /\ HandOut(p) /\ p \in Probe /\ p.port = q /\ ~p.blind /\ d \in Deferred /\ d.port = q
        /\ p.timeout <= LeftMs(d) /\ p.timeout <= CeilingMs
        /\ nextRetry' = nextRetry + 1 /\ nextThird' = nextThird /\ Walked' = Walked
        /\ Third = {} /\ Third' = {}
    BY RetryFacts
  <1>2. fixed = NoTimeout => waited[q] + p.timeout <= Budget(q)
    <2> SUFFICES ASSUME fixed = NoTimeout PROVE waited[q] + p.timeout <= Budget(q)
      OBVIOUS
    <2>1. waited[q] \in Nat /\ p.timeout \in Nat /\ CeilingMs \in Nat /\ d.waited \in Nat
      BY <1>1, WaitTypes, RttAssumption DEF Probe
    <2>2. nextRetry + 1 \in (nextRetry + 1)..Len(retries)
      BY <1>1, WaitTypes
    <2>3. /\ d.blind => d.port \in blindly /\ waited[d.port] <= CeilingMs
          /\ ~d.blind => waited[d.port] <= d.waited /\ d.waited <= CeilingMs
      BY <1>1, <2>2 DEF WaitInv
    <2> HIDE DEF q, d, p
    <2>4. Budget(q) \in Nat /\ Twice(q) \in Nat /\ CeilingMs <= Twice(q) /\ Twice(q) <= Budget(q)
      BY BudgetFacts
    <2>5. CASE d.blind
      <3>1. q \in blindly /\ waited[q] <= CeilingMs /\ Twice(q) = CeilingMs + CeilingMs
        BY <1>1, <2>3, <2>5, BudgetFacts
      <3> QED
        BY <1>1, <2>1, <2>4, <3>1
    <2>6. CASE ~d.blind
      <3>1. LeftMs(d) = CeilingMs - d.waited /\ waited[q] <= d.waited
        BY <1>1, <2>3, <2>6 DEF LeftMs
      <3> QED
        BY <1>1, <2>1, <2>4, <3>1
    <2> QED
      BY <2>5, <2>6
  <1> HIDE DEF q, d, p
  <1>3. /\ inFlight' = inFlight \cup {p} /\ pass' = pass /\ fixed' = fixed /\ waited' = waited
        /\ retries' = retries /\ silentTwice' = silentTwice /\ blindly' = blindly
    BY <1>1, HandOutFrame
  <1>4. \A x : Twice(x)' = Twice(x) /\ Budget(x)' = Budget(x)
    BY <1>1, <1>3 DEF Budget, Twice
  <1>5. \A i \in (nextRetry' + 1)..Len(retries') : i \in (nextRetry + 1)..Len(retries)
    BY <1>1, <1>3, WaitTypes
  <1>6. CASE fixed = NoTimeout
    <2>1. \A r \in inFlight' : waited'[r.port] + r.timeout <= Budget(r.port)'
      BY <1>1, <1>2, <1>3, <1>4, <1>6 DEF WaitInv
    <2>2. \A x \in Ports : waited'[x] <= Budget(x)'
      BY <1>3, <1>4, <1>6 DEF WaitInv
    <2>3. \A i \in (nextThird' + 1)..silentTwice' : waited[retries[i].port] <= Twice(retries[i].port)
      BY <1>1, <1>3, <1>6 DEF WaitInv
    <2>4. \A i \in (nextRetry' + 1)..Len(retries') :
            /\ retries'[i].blind => retries'[i].port \in blindly' /\ waited'[retries'[i].port] <= CeilingMs
            /\ ~retries'[i].blind => waited'[retries'[i].port] <= retries'[i].waited /\ retries'[i].waited <= CeilingMs
      BY <1>1, <1>3, <1>5, <1>6 DEF WaitInv
    <2>5. \A x \in Ports \ Walked' : waited'[x] = 0
      BY <1>1, <1>3 DEF WaitInv
    <2> QED
      BY <1>1, <1>3, <2>1, <2>2, <2>3, <2>4, <2>5 DEF WaitInv, Twice
  <1>7. CASE fixed # NoTimeout
    BY <1>1, <1>3, <1>7 DEF WaitInv
  <1> QED
    BY <1>6, <1>7

LEMMA WaitThird == ASSUME Types, PassInv, WaitInv, NextThird PROVE WaitInv'
  <1>0. PICK q, p : q = retries[nextThird + 1].port /\ p = ThirdTry(retries[nextThird + 1])
    OBVIOUS
  <1>1. /\ pass = "third" /\ nextThird + 1 \in 1..silentTwice /\ q \in Ports /\ Third' = Third \cup {q}
        /\ HandOut(p) /\ p \in Probe /\ p.port = q /\ ~p.blind /\ p.timeout <= CeilingMs
        /\ nextRetry' = nextRetry /\ nextThird' = nextThird + 1 /\ Walked' = Walked
    BY <1>0, ThirdFacts
  <1>2. fixed = NoTimeout => waited[q] <= Twice(q)
    <2>1. nextThird + 1 \in (nextThird + 1)..silentTwice
      BY <1>1, WaitTypes
    <2> QED
      BY <1>0, <1>1, <2>1 DEF WaitInv
  <1>3. /\ inFlight' = inFlight \cup {p} /\ pass' = pass /\ fixed' = fixed /\ waited' = waited
        /\ retries' = retries /\ silentTwice' = silentTwice /\ blindly' = blindly
    BY <1>1, HandOutFrame
  <1>4. \A x : Twice(x)' = Twice(x)
    BY <1>3 DEF Twice
  <1>5. \A x : Budget(x) <= Budget(x)' /\ Budget(x) \in Nat /\ Budget(x)' \in Nat
    <2>1. \A x : Budget(x) <= Budget(x)'
      BY <1>1, <1>3, BudgetGrows
    <2>2. \A x : Budget(x) \in Nat /\ Twice(x) \in Nat /\ CeilingMs \in Nat
      BY BudgetFacts
    <2>3. \A x : Budget(x)' \in Nat
      BY <1>4, <2>2 DEF Budget, Extra
    <2> QED
      BY <2>1, <2>2, <2>3
  <1>6. Budget(q)' = Twice(q) + CeilingMs
    BY <1>1, <1>4 DEF Budget, Extra
  <1>7. \A i \in (nextThird' + 1)..silentTwice' : i \in (nextThird + 1)..silentTwice
    BY <1>1, <1>3, WaitTypes
  <1>8. CASE fixed = NoTimeout
    <2>1. waited[q] + p.timeout <= Budget(q)'
      <3>1. waited[q] \in Nat /\ p.timeout \in Nat /\ CeilingMs \in Nat /\ Twice(q) \in Nat
        BY <1>1, WaitTypes, BudgetFacts DEF Probe
      <3> QED
        BY <1>1, <1>2, <1>6, <1>8, <3>1
    <2>2. \A r \in inFlight : waited[r.port] + r.timeout <= Budget(r.port)'
      <3>1. \A r \in inFlight : waited[r.port] + r.timeout <= Budget(r.port) /\ waited[r.port] + r.timeout \in Nat
        BY <1>8, WaitTypes DEF WaitInv
      <3> QED
        BY <1>5, <3>1
    <2>3. \A x \in Ports : waited'[x] <= Budget(x)'
      <3>1. \A x \in Ports : waited[x] <= Budget(x) /\ waited[x] \in Nat
        BY <1>8, WaitTypes DEF WaitInv
      <3> QED
        BY <1>3, <1>5, <3>1
    <2>4. \A i \in (nextThird' + 1)..silentTwice' : waited[retries[i].port] <= Twice(retries[i].port)
      BY <1>1, <1>7, <1>8 DEF WaitInv
    <2>5. \A x \in Ports \ Walked' : waited'[x] = 0
      BY <1>1, <1>3 DEF WaitInv
    <2>6. \A r \in inFlight' : waited'[r.port] + r.timeout <= Budget(r.port)'
      BY <1>1, <1>3, <2>1, <2>2
    <2> QED
      BY <1>1, <1>3, <2>3, <2>4, <2>5, <2>6 DEF WaitInv, Twice
  <1>9. CASE fixed # NoTimeout
    BY <1>1, <1>3, <1>9 DEF WaitInv
  <1> QED
    BY <1>8, <1>9

(* A port that has yet to be tried is another than the one that ends. *)
LEMMA EndsOthers ==
  ASSUME Types, PassInv, NEW p, NEW outcome, NEW elapsed, Ends(p, outcome, elapsed)
  PROVE  /\ p.port \in Walked
         /\ \A r \in inFlight' : r \in inFlight /\ r.port # p.port
         /\ pass = "first" => \A i \in 1..Len(retries) : retries[i].port # p.port
         /\ pass = "retry" => /\ \A i \in (nextRetry + 1)..Len(retries) : retries[i].port # p.port
                              /\ \A i \in 1..silentTwice : retries[i].port # p.port
         /\ pass = "third" => \A i \in (nextThird + 1)..silentTwice : retries[i].port # p.port
  <1>1. p \in inFlight /\ inFlight' = inFlight \ {p} /\ pass \in {"first", "retry", "third"}
    BY EndsFrame DEF Types
  <1>2. /\ Len(retries) = Len(deferred) /\ Len(retries) \in Nat /\ nextRetry \in 0..Len(retries)
        /\ silentTwice \in Nat /\ nextThird \in Nat /\ nextThird <= silentTwice
    BY DEF Types, PassTypeOK, PassInv, SlotInv
  <1>3. p.port \in Walked
    <2>1. p.port \in Walked \/ p.port \in Second \/ p.port \in Third
      BY <1>1 DEF PassInv, FlightInv
    <2> QED
      BY <2>1, PassSets
  <1>4. \A r \in inFlight' : r \in inFlight /\ r.port # p.port
    BY <1>1 DEF PassInv, FlightInv
  <1>5. ASSUME pass = "first" PROVE \A i \in 1..Len(retries) : retries[i].port # p.port
    <2>1. nextRetry = 0 /\ \A i \in (nextRetry + 1)..Len(retries) : retries[i].port = deferred[i]
      BY <1>5 DEF PassInv, SlotInv
    <2>2. \A i \in 1..Len(deferred) : deferred[i] # p.port
      BY <1>1, <1>5 DEF PassInv, FlightInv
    <2> QED
      BY <1>2, <2>1, <2>2
  <1>6. ASSUME pass = "retry" PROVE \A i \in (nextRetry + 1)..Len(retries) : retries[i].port # p.port
    <2>1. p.port \in Second
      BY <1>1, <1>6 DEF PassInv, FlightInv
    <2>2. PICK k \in 1..nextRetry : p.port = deferred[k]
      BY <2>1 DEF Second
    <2>3. \A i \in (nextRetry + 1)..Len(retries) : i \in 1..Len(deferred) /\ k \in 1..Len(deferred) /\ i # k
      BY <1>2
    <2>4. \A i \in (nextRetry + 1)..Len(retries) : retries[i].port = deferred[i]
      BY <1>6 DEF PassInv, SlotInv
    <2> QED
      BY <2>2, <2>3, <2>4 DEF PassInv, SlotInv
  <1>7. ASSUME pass = "retry" PROVE \A i \in 1..silentTwice : retries[i].port # p.port
    BY <1>1, <1>7 DEF PassInv, FlightInv
  <1>8. ASSUME pass = "third" PROVE \A i \in (nextThird + 1)..silentTwice : retries[i].port # p.port
    <2>1. p.port \in Third
      BY <1>1, <1>8 DEF PassInv, FlightInv
    <2>2. PICK k \in 1..nextThird : p.port = retries[k].port
      BY <2>1 DEF Third
    <2>3. \A i \in (nextThird + 1)..silentTwice : i \in 1..silentTwice /\ k \in 1..silentTwice /\ i # k
      BY <1>2
    <2> QED
      BY <2>2, <2>3 DEF PassInv, SlotInv
  <1> QED
    BY <1>3, <1>4, <1>5, <1>6, <1>7, <1>8

(* What a slot of the list says of the wait of its port. *)
FirstWait(d) ==
  /\ d.blind => d.port \in blindly /\ waited[d.port] <= CeilingMs
  /\ ~d.blind => waited[d.port] <= d.waited /\ d.waited <= CeilingMs
SecondWait(d) == waited[d.port] <= Twice(d.port)

LEMMA WaitEnds ==
  ASSUME Types, PassInv, WaitInv, NEW p, NEW outcome, NEW elapsed, Ends(p, outcome, elapsed)
  PROVE  WaitInv'
  <1>1. /\ p \in inFlight /\ p \in Probe /\ inFlight' = inFlight \ {p} /\ pass' = pass /\ fixed' = fixed
        /\ blindly' = blindly /\ nextRetry' = nextRetry /\ nextThird' = nextThird
        /\ pass \in {"first", "retry", "third"}
    BY EndsFrame DEF Types
  <1>2. Walked' = Walked /\ Third' = Third
    BY EndsSets
  <1>3. /\ p.port \in Ports /\ p.timeout \in Nat
        /\ \A q \in Ports : waited[q] \in Nat /\ waited'[q] \in Nat /\ (q # p.port => waited'[q] = waited[q])
        /\ waited'[p.port] <= waited[p.port] + p.timeout
    BY EndsWaited
  <1>4. p.port \in Walked /\ \A r \in inFlight' : r \in inFlight /\ r.port # p.port
    BY EndsOthers
  <1>5. /\ \A r \in inFlight : r.port \in Ports /\ r.timeout \in Nat
        /\ \A i \in 1..Len(retries) : retries[i].port \in Ports
        /\ Len(retries) \in Nat /\ nextRetry \in Nat /\ nextRetry <= Len(retries)
        /\ nextThird \in Nat /\ silentTwice \in Nat /\ silentTwice <= nextRetry
        /\ retries \in Seq(Deferred)
    BY WaitTypes DEF Types, PassTypeOK, PassInv, SlotInv
  <1>6. \A x \in Ports \ Walked' : waited'[x] = 0
    BY <1>2, <1>3, <1>4 DEF WaitInv
  <1>7. pass = "first" => \A r \in inFlight' : waited'[r.port] = 0 /\ (r.blind => r.port \in blindly')
    BY <1>1, <1>3, <1>4, <1>5 DEF WaitInv
  <1>8. CASE fixed # NoTimeout
    BY <1>1, <1>6, <1>7, <1>8 DEF WaitInv
  <1>9. CASE fixed = NoTimeout
    <2>1. \A x : Budget(x)' = Budget(x) /\ Twice(x)' = Twice(x)
      BY <1>1, <1>2 DEF Budget, Twice
    <2>2. waited'[p.port] <= Budget(p.port)
      <3>1. waited[p.port] + p.timeout <= Budget(p.port)
        BY <1>1, <1>9 DEF WaitInv
      <3>2. Budget(p.port) \in Nat
        BY BudgetFacts
      <3> QED
        BY <1>3, <3>1, <3>2
    <2>3. \A x \in Ports : waited'[x] <= Budget(x)'
      BY <1>3, <1>9, <2>1, <2>2 DEF WaitInv
    <2>4. \A r \in inFlight' : waited'[r.port] + r.timeout <= Budget(r.port)'
      <3>1. \A r \in inFlight' : waited'[r.port] = waited[r.port]
        BY <1>3, <1>4, <1>5
      <3> QED
        BY <1>4, <1>9, <2>1, <3>1 DEF WaitInv
    <2>5. \A d \in Deferred : d.port # p.port /\ FirstWait(d) => FirstWait(d)'
      <3>1. \A d \in Deferred : d.port # p.port => waited'[d.port] = waited[d.port]
        BY <1>3 DEF Deferred
      <3> QED
        BY <1>1, <3>1 DEF FirstWait
    <2>6. \A d \in Deferred : d.port # p.port /\ SecondWait(d) => SecondWait(d)'
      <3>1. \A d \in Deferred : d.port # p.port => waited'[d.port] = waited[d.port]
        BY <1>3 DEF Deferred
      <3> QED
        BY <2>1, <3>1 DEF SecondWait
    <2>7. \A i \in 1..Len(retries) : retries[i] \in Deferred
      BY <1>5
    <2>8. pass \in {"first", "retry"} => \A i \in (nextRetry + 1)..Len(retries) : FirstWait(retries[i])
      BY <1>9 DEF WaitInv, FirstWait
    <2>9. pass \in {"retry", "third"} => \A i \in (nextThird + 1)..silentTwice : SecondWait(retries[i])
      BY <1>9 DEF WaitInv, SecondWait
    <2> DEFINE Firsts == \A i \in (nextRetry + 1)..Len(retries') : \A d : d = retries'[i] => FirstWait(d)'
               Seconds == \A i \in (nextThird + 1)..silentTwice' : \A d : d = retries'[i] => SecondWait(d)'
    <2>10. CASE pass = "first"
      <3>1. nextRetry = 0 /\ \A i \in 1..Len(retries) : retries[i].port # p.port
        BY <2>10, EndsOthers DEF PassInv, SlotInv
      <3>2. \A i \in 1..Len(retries) : \A d : d = retries[i] => FirstWait(d)'
        BY <2>5, <2>7, <2>8, <2>10, <3>1
      <3>3. ASSUME retries' = retries PROVE Firsts
        BY <3>1, <3>2, <3>3
      <3>4. ASSUME NEW d \in Deferred, d.port = p.port, d.waited = p.timeout, d.blind = p.blind,
                   retries' = Append(retries, d), EarnsRetry(p, elapsed)
            PROVE  Firsts
        <4>1. /\ Len(retries') = Len(retries) + 1 /\ (\A i \in 1..Len(retries) : retries'[i] = retries[i])
              /\ retries'[Len(retries) + 1] = d
          BY <1>5, <3>4, AppendFacts
        <4>2. p.timeout <= CeilingMs
          BY <1>1, <3>4 DEF EarnsRetry, Types, RoomInv
        <4>3. waited[p.port] = 0 /\ (p.blind => p.port \in blindly)
          BY <1>1, <2>10 DEF WaitInv
        <4>4. waited'[p.port] \in Nat /\ waited'[p.port] <= p.timeout /\ CeilingMs \in Nat
          BY <1>3, <4>3, RttAssumption
        <4>5. waited'[p.port] <= CeilingMs
          BY <1>3, <4>2, <4>4
        <4>6. FirstWait(d)'
          BY <1>1, <3>4, <4>2, <4>3, <4>4, <4>5 DEF FirstWait
        <4>7. \A i \in 1..Len(retries') : i \in 1..Len(retries) \/ i = Len(retries) + 1
          BY <1>5, <4>1
        <4> QED
          BY <3>1, <3>2, <4>1, <4>6, <4>7
      <3>5. Firsts
        BY <2>10, <3>3, <3>4, EndsFirst
      <3> QED
        BY <1>1, <1>6, <1>7, <2>3, <2>4, <2>10, <3>5 DEF WaitInv, FirstWait
    <2>11. CASE pass = "retry"
      <3>1. /\ \A i \in (nextRetry + 1)..Len(retries) : retries[i].port # p.port
            /\ \A i \in 1..silentTwice : retries[i].port # p.port
            /\ nextThird = 0 /\ Third = {}
        BY <2>11, EndsOthers, PassSets DEF PassInv, SlotInv
      <3>2. \A i \in (nextRetry + 1)..Len(retries) : i \in 1..Len(retries)
        BY <1>5
      <3>3. \A i \in 1..silentTwice : i \in 1..Len(retries)
        BY <1>5
      <3>4. \A i \in (nextRetry + 1)..Len(retries) : \A d : d = retries[i] => FirstWait(d)'
        BY <2>5, <2>7, <2>8, <2>11, <3>1, <3>2
      <3>5. \A i \in 1..silentTwice : \A d : d = retries[i] => SecondWait(d)'
        BY <2>6, <2>7, <2>9, <2>11, <3>1, <3>3
      <3>6. ASSUME silentTwice' = silentTwice, retries' = retries PROVE Firsts /\ Seconds
        BY <3>1, <3>4, <3>5, <3>6
      <3>7. ASSUME NEW d \in Deferred, d.port = p.port, retries' = [retries EXCEPT ![silentTwice + 1] = d],
                   silentTwice' = silentTwice + 1
            PROVE  Firsts /\ Seconds
        <4>1. silentTwice + 1 \in 1..Len(retries) /\ silentTwice < nextRetry
          BY <1>5, <2>11, PassEndsRetry
        <4>2. /\ Len(retries') = Len(retries) /\ retries'[silentTwice + 1] = d
              /\ \A i \in 1..Len(retries) : i # silentTwice + 1 => retries'[i] = retries[i]
          BY <1>5, <3>7, <4>1, ExceptFacts
        <4>3. SecondWait(d)'
          BY <2>1, <2>2, <3>1, <3>7, BudgetFacts DEF SecondWait
        <4>4. \A i \in (nextRetry + 1)..Len(retries) : i # silentTwice + 1
          BY <1>5, <4>1
        <4>5. Firsts
          BY <3>2, <3>4, <4>2, <4>4
        <4>6. \A i \in 1..(silentTwice + 1) : i = silentTwice + 1 \/ (i \in 1..silentTwice /\ i # silentTwice + 1)
          BY <1>5
        <4>7. Seconds
          BY <3>1, <3>3, <3>5, <3>7, <4>2, <4>3, <4>6
        <4> QED
          BY <4>5, <4>7
      <3>8. Firsts /\ Seconds
        BY <2>11, <3>6, <3>7, EndsRetry
      <3> QED
        BY <1>1, <1>6, <2>3, <2>4, <2>11, <3>8 DEF WaitInv, FirstWait, SecondWait
    <2>12. CASE pass = "third"
      <3>1. retries' = retries /\ silentTwice' = silentTwice
        BY <2>12, EndsThird
      <3>2. \A i \in (nextThird + 1)..silentTwice : i \in 1..Len(retries) /\ retries[i].port # p.port
        BY <1>5, <2>12, EndsOthers
      <3>3. Seconds
        BY <2>6, <2>7, <2>9, <2>12, <3>1, <3>2
      <3> QED
        BY <1>1, <1>6, <2>3, <2>4, <2>12, <3>3 DEF WaitInv, SecondWait
    <2> QED
      BY <1>1, <2>10, <2>11, <2>12
  <1> QED
    BY <1>8, <1>9

LEMMA WaitTurn ==
  ASSUME Types, PassInv, WaitInv, NextPass \/ RunFails \/ Stop \/ UNCHANGED vars
  PROVE  WaitInv'
  <1>1. /\ nextRetry' = nextRetry /\ nextThird' = nextThird /\ retries' = retries /\ silentTwice' = silentTwice
        /\ fixed' = fixed /\ waited' = waited /\ blindly' = blindly /\ Walked' = Walked /\ Third' = Third
    BY TurnFrame
  <1>2. \/ pass = "first" /\ pass' = "retry" /\ inFlight' = {}
        \/ pass = "retry" /\ pass' = "third" /\ inFlight' = {}
        \/ pass' \in {"done", "failed"} /\ inFlight' = {}
        \/ pass' = pass /\ inFlight' = inFlight
    BY TurnFacts DEF Types
  <1>3. pass = "first" => silentTwice = 0 /\ nextThird = 0
    BY DEF PassInv, SlotInv, Types, PassTypeOK
  <1>4. CASE pass' = pass /\ inFlight' = inFlight
    BY <1>1, <1>4 DEF WaitInv, Budget, Twice
  <1>5. CASE pass = "first" /\ pass' = "retry" /\ inFlight' = {}
    BY <1>1, <1>3, <1>5 DEF WaitInv, Budget, Twice
  <1>6. CASE pass = "retry" /\ pass' = "third" /\ inFlight' = {}
    BY <1>1, <1>6 DEF WaitInv, Budget, Twice
  <1>7. CASE pass' \in {"done", "failed"} /\ inFlight' = {}
    BY <1>1, <1>7 DEF WaitInv, Budget, Twice
  <1> QED
    BY <1>2, <1>4, <1>5, <1>6, <1>7

LEMMA WaitNext == ASSUME Types, PassInv, WaitInv, [Next]_vars PROVE WaitInv'
  BY NextCases, WaitFirst, WaitRetry, WaitThird, WaitEnds, WaitTurn DEF Types

-----------------------------------------------------------------------------
(* No port is given up early. *)

(* Why a port is not forgotten. *)
Kept(q) ==
  \/ answer[q] # "none" \/ q \in errored \/ waited[q] >= Full
  \/ \E i \in 1..Len(deferred) : deferred[i] = q
  \/ pass = "first" /\ \E p \in inFlight : p.port = q

LEMMA FullFacts == ASSUME Types, fixed' = fixed PROVE Full \in Nat /\ Full' = Full
  BY RttAssumption DEF Full, Types, RestTypeOK

LEMMA EarlyPull ==
  ASSUME Types, PassInv, EarlyInv, NextFirst \/ NextRetry \/ NextThird
  PROVE  EarlyInv'
  <1>1. CASE NextFirst
    <2>1. PICK q \in Ports \ Walked : HandOut(FirstTry(q)) /\ Walked' = Walked \cup {q}
      BY <1>1, FirstFacts DEF Types
    <2>2. PICK p : p = FirstTry(q)
      OBVIOUS
    <2>3. pass = "first" /\ p.port = q /\ (~p.deferrable => p.timeout = Full)
      BY <1>1, <2>2, FirstFacts, FirstTryFacts DEF Types
    <2>4. /\ inFlight' = inFlight \cup {p} /\ pass' = pass /\ fixed' = fixed /\ deferred' = deferred
          /\ waited' = waited /\ answer' = answer /\ errored' = errored
      BY <2>1, <2>2, HandOutFrame
    <2>5. Full' = Full
      BY <2>4, FullFacts
    <2>6. \A x \in Walked' : Kept(x)'
      <3>1. \A x \in Walked : Kept(x)
        BY <2>3 DEF EarlyInv, Kept
      <3> QED
        BY <2>1, <2>3, <2>4, <2>5, <3>1 DEF Kept
    <2>7. \A r \in inFlight' : ~r.deferrable => r.timeout = Full
      BY <2>3, <2>4 DEF EarlyInv
    <2> QED
      BY <2>3, <2>4, <2>5, <2>6, <2>7 DEF EarlyInv, Kept
  <1>2. CASE NextRetry \/ NextThird
    <2>1. PICK p : HandOut(p) /\ ~p.blind
      BY <1>2, RetryFacts, ThirdFacts
    <2>2. pass \in {"retry", "third"} /\ Walked' = Walked
      BY <1>2, RetryFacts, ThirdFacts
    <2>3. /\ inFlight' = inFlight \cup {p} /\ pass' = pass /\ fixed' = fixed /\ deferred' = deferred
          /\ waited' = waited /\ answer' = answer /\ errored' = errored
      BY <2>1, HandOutFrame
    <2>4. Full' = Full
      BY <2>3, FullFacts
    <2> QED
      BY <2>1, <2>2, <2>3, <2>4 DEF EarlyInv
  <1> QED
    BY <1>1, <1>2

(* A verdict that earns no other try is an answer, a failure or a full wait. *)
LEMMA EarlyEnds ==
  ASSUME Types, PassInv, EarlyInv, NEW p, NEW outcome \in Outcomes, NEW elapsed, Ends(p, outcome, elapsed)
  PROVE  EarlyInv'
  <1>1. /\ p \in inFlight /\ inFlight' = inFlight \ {p} /\ pass' = pass /\ fixed' = fixed /\ Walked' = Walked
        /\ pass \in {"first", "retry", "third"}
    BY EndsFrame DEF Types
  <1>2. /\ p.port \in Ports /\ p.timeout \in Nat
        /\ \A q \in Ports : waited[q] \in Nat /\ waited'[q] \in Nat /\ waited[q] <= waited'[q]
        /\ outcome = "filtered" => \/ waited'[p.port] = waited[p.port] + p.timeout
                                   \/ p.blind /\ CutShort(p, elapsed)
                                   \/ p.port \in errored'
        /\ errored \subseteq errored'
    BY EndsWaited
  <1>3. Full \in Nat /\ Full' = Full
    BY <1>1, FullFacts
  <1>4. \A q \in Ports : answer[q] # "none" => answer'[q] # "none"
    BY EndsAnswer DEF Outcomes
  <1>5. \A i \in 1..Len(deferred) : \E k \in 1..Len(deferred') : deferred'[k] = deferred[i]
    <2>0. deferred \in Seq(Ports) /\ Len(deferred) \in Nat
      BY DEF Types, PassTypeOK
    <2>1. CASE deferred' = deferred
      BY <2>1
    <2>2. CASE deferred' = Append(deferred, p.port)
      <3>1. /\ Len(deferred') = Len(deferred) + 1 /\ \A i \in 1..Len(deferred) : deferred'[i] = deferred[i]
        BY <1>2, <2>0, <2>2, AppendFacts
      <3>2. \A i \in 1..Len(deferred) : i \in 1..Len(deferred')
        BY <2>0, <3>1
      <3> QED
        BY <3>1, <3>2
    <2> QED
      BY <1>1, <2>1, <2>2, EndsFirst, EndsRetry, EndsThird
  <1>6. \A q \in Walked : q \in Ports /\ Kept(q)
    BY <1>1, PassSets DEF EarlyInv, Kept
  <1>7. \A q \in Walked : q # p.port => Kept(q)'
    <2> SUFFICES ASSUME NEW q \in Walked, q # p.port PROVE Kept(q)'
      OBVIOUS
    <2>1. q \in Ports /\ Kept(q)
      BY <1>6
    <2>2. CASE answer[q] # "none"
      BY <1>4, <2>1, <2>2 DEF Kept
    <2>3. CASE q \in errored
      BY <1>2, <2>3 DEF Kept
    <2>4. CASE waited[q] >= Full
      <3>1. waited'[q] >= Full
        BY <1>2, <1>3, <2>1, <2>4
      <3> QED
        BY <1>3, <3>1 DEF Kept
    <2>5. CASE \E i \in 1..Len(deferred) : deferred[i] = q
      BY <1>5, <2>5 DEF Kept
    <2>6. CASE pass = "first" /\ \E r \in inFlight : r.port = q
      BY <1>1, <2>6 DEF Kept
    <2> QED
      BY <2>1, <2>2, <2>3, <2>4, <2>5, <2>6 DEF Kept
  <1>8. p.port \in Walked => Kept(p.port)'
    <2> SUFFICES ASSUME p.port \in Walked PROVE Kept(p.port)'
      OBVIOUS
    <2>1. CASE pass # "first"
      <3>1. \/ answer[p.port] # "none" \/ p.port \in errored \/ waited[p.port] >= Full
            \/ \E i \in 1..Len(deferred) : deferred[i] = p.port
        BY <1>6, <2>1 DEF Kept
      <3>2. waited[p.port] >= Full => waited'[p.port] >= Full
        BY <1>2, <1>3
      <3> QED
        BY <1>2, <1>3, <1>4, <1>5, <3>1, <3>2 DEF Kept
    <2>2. CASE pass = "first" /\ outcome # "filtered"
      BY <2>2, EndsAnswer DEF Kept, Outcomes
    <2>3. CASE pass = "first" /\ outcome = "filtered" /\ EarnsRetry(p, elapsed)
      <3>1. deferred \in Seq(Ports) /\ deferred' = Append(deferred, p.port)
        BY <2>3, EndsFirst DEF Types, PassTypeOK
      <3>2. deferred'[Len(deferred) + 1] = p.port /\ Len(deferred) + 1 \in 1..Len(deferred')
        BY <1>2, <3>1, AppendFacts
      <3> QED
        BY <3>2 DEF Kept
    <2>4. CASE pass = "first" /\ outcome = "filtered" /\ ~EarnsRetry(p, elapsed)
      <3>1. ~p.deferrable /\ ~(p.blind /\ CutShort(p, elapsed))
        BY <2>4 DEF EarnsRetry
      <3>2. p.timeout = Full
        BY <1>1, <2>4, <3>1 DEF EarlyInv
      <3>3. CASE p.port \in errored'
        BY <3>3 DEF Kept
      <3>4. CASE waited'[p.port] = waited[p.port] + p.timeout
        <4>1. waited'[p.port] >= Full
          BY <1>2, <1>3, <3>2, <3>4
        <4> QED
          BY <1>3, <4>1 DEF Kept
      <3> QED
        BY <1>2, <2>4, <3>1, <3>3, <3>4
    <2> QED
      BY <2>1, <2>2, <2>3, <2>4
  <1>9. \A q \in Walked' : Kept(q)'
    BY <1>1, <1>7, <1>8
  <1> QED
    BY <1>1, <1>3, <1>9 DEF EarlyInv, Kept

LEMMA EarlyTurn ==
  ASSUME Types, PassInv, EarlyInv, NextPass \/ RunFails \/ Stop \/ UNCHANGED vars
  PROVE  EarlyInv'
  <1>1. /\ fixed' = fixed /\ waited' = waited /\ answer' = answer /\ errored' = errored
        /\ deferred' = deferred /\ Walked' = Walked
    BY TurnFrame
  <1>2. \/ pass = "first" /\ pass' = "retry" /\ inFlight' = {} /\ inFlight = {}
        \/ pass \in {"retry", "third"} /\ pass' \in {"third", "done"} /\ inFlight' = {}
        \/ pass' = "failed" /\ inFlight' = {}
        \/ pass' = pass /\ inFlight' = inFlight
    BY TurnFacts DEF Types
  <1>3. Full' = Full
    BY <1>1, FullFacts
  <1> QED
    BY <1>1, <1>2, <1>3 DEF EarlyInv

LEMMA EarlyNext == ASSUME Types, PassInv, EarlyInv, [Next]_vars PROVE EarlyInv'
  BY NextCases, EarlyPull, EarlyEnds, EarlyTurn DEF Types

-----------------------------------------------------------------------------
(* A fixed timeout. *)

LEMMA FixedPull ==
  ASSUME Types, PassInv, FixedInv, NextFirst \/ NextRetry \/ NextThird
  PROVE  FixedInv'
  <1>0. RestTypeOK /\ PassTypeOK
    BY DEF Types
  <1>1. CASE NextFirst
    <2>1. PICK q \in Ports : HandOut(FirstTry(q))
      BY <1>0, <1>1, FirstFacts
    <2>2. PICK p : p = FirstTry(q)
      OBVIOUS
    <2>3. /\ inFlight' = inFlight \cup {p} /\ fixed' = fixed /\ retries' = retries /\ waited' = waited
      BY <2>1, <2>2, HandOutFrame
    <2>4. fixed # NoTimeout => ~p.deferrable /\ ~p.blind
      BY <1>0, <2>2, FirstTryFacts
    <2> QED
      BY <2>3, <2>4 DEF FixedInv
  <1>2. ASSUME NextRetry \/ NextThird PROVE fixed = NoTimeout /\ fixed' = fixed
    <2>1. /\ nextRetry \in 0..Len(retries) /\ Len(retries) \in Nat /\ nextThird \in Nat /\ silentTwice \in Nat
          /\ silentTwice <= nextRetry
      BY DEF Types, PassTypeOK, PassInv, SlotInv
    <2>2. Len(retries) > 0
      BY <1>2, <2>1 DEF NextRetry, NextThird
    <2>3. retries # <<>>
      BY <2>2
    <2>4. fixed' = fixed
      BY <1>2 DEF NextRetry, NextThird, HandOut
    <2> QED
      BY <2>3, <2>4 DEF FixedInv
  <1>3. CASE NextRetry \/ NextThird
    BY <1>2, <1>3 DEF FixedInv
  <1> QED
    BY <1>1, <1>3

LEMMA FixedEnds ==
  ASSUME Types, PassInv, WaitInv, EarlyInv, FixedInv,
         NEW p \in inFlight, NEW outcome \in Outcomes, NEW elapsed \in Nat, Ends(p, outcome, elapsed)
  PROVE  FixedInv'
  <1>1. /\ fixed' = fixed /\ inFlight' = inFlight \ {p} /\ pass \in {"first", "retry", "third"}
    BY EndsFrame DEF Types
  <1> SUFFICES ASSUME fixed # NoTimeout
               PROVE  /\ retries' = <<>>
                      /\ \A r \in inFlight' : ~r.deferrable /\ ~r.blind
                      /\ \A q \in Ports : waited'[q] <= fixed
    BY <1>1 DEF FixedInv
  <1>2. /\ retries = <<>> /\ ~p.deferrable /\ ~p.blind
        /\ \A r \in inFlight : ~r.deferrable /\ ~r.blind
        /\ \A q \in Ports : waited[q] <= fixed
    BY DEF FixedInv
  <1>3. pass = "first"
    <2>1. nextRetry = 0 /\ nextThird = 0
      <3>1. /\ nextRetry \in 0..Len(retries) /\ nextThird \in Nat /\ silentTwice \in Nat
            /\ silentTwice <= nextRetry /\ nextThird <= silentTwice
        BY DEF Types, PassTypeOK, PassInv, SlotInv
      <3>2. Len(retries) = 0
        BY <1>2
      <3> QED
        BY <3>1, <3>2
    <2>2. Second = {} /\ Third = {}
      BY <2>1 DEF Second, Third
    <2> QED
      BY <1>1, <2>2 DEF PassInv, FlightInv
  <1>4. retries' = retries
    <2>1. ~EarnsRetry(p, elapsed)
      BY <1>2 DEF EarnsRetry
    <2> QED
      BY <1>3, <2>1, EndsFirst
  <1>5. p.timeout = fixed /\ waited[p.port] = 0 /\ fixed \in Nat
    BY <1>2, <1>3 DEF EarlyInv, WaitInv, Full, Types, RestTypeOK
  <1>6. /\ p.port \in Ports /\ waited'[p.port] <= waited[p.port] + p.timeout
        /\ \A q \in Ports : q # p.port => waited'[q] = waited[q]
    BY EndsWaited
  <1>7. waited'[p.port] <= fixed
    BY <1>5, <1>6
  <1> QED
    BY <1>1, <1>2, <1>4, <1>6, <1>7

LEMMA FixedNext ==
  ASSUME Types, PassInv, WaitInv, EarlyInv, FixedInv, [Next]_vars
  PROVE  FixedInv'
  <1>1. PassTypeOK
    BY DEF Types
  <1>2. CASE NextPass \/ RunFails \/ Stop \/ UNCHANGED vars
    <2>1. inFlight' \subseteq inFlight
      BY <1>1, <1>2, TurnFacts
    <2> QED
      BY <1>2, <2>1, TurnFrame DEF FixedInv
  <1> QED
    BY <1>1, <1>2, NextCases, FixedPull, FixedEnds

-----------------------------------------------------------------------------
(* The theorems. *)

IInv ==
  /\ Types /\ PassInv /\ TriesInv /\ AnswerInv /\ OpenInv /\ HalvesInv /\ WaitInv /\ EarlyInv
  /\ FixedInv

LEMMA IInvInit == ASSUME Init PROVE IInv
  <1>1. Types /\ PassInv /\ Walked = {} /\ Second = {} /\ Third = {}
    BY InitFacts
  <1>2. /\ pass = "first" /\ inFlight = {} /\ openPorts = <<>> /\ retries = <<>> /\ deferred = <<>>
        /\ nextRetry = 0 /\ nextThird = 0 /\ silentTwice = 0 /\ halfUnits = 0 /\ advanced = 0
        /\ tries = [q \in Ports |-> 0] /\ waited = [q \in Ports |-> 0] /\ answer = [q \in Ports |-> "none"]
    BY DEF Init
  <1>3. Len(<<>>) = 0 /\ <<>> \in Seq(Ports)
    OBVIOUS
  <1>4. Cardinality({}) = 0 /\ Total \in Nat
    BY FS_EmptySet, PortsFacts
  <1>5. TriesInv
    BY <1>1, <1>2 DEF TriesInv, One
  <1>6. AnswerInv
    BY <1>2, <1>3 DEF AnswerInv
  <1>7. OpenInv
    BY <1>2, <1>3 DEF OpenInv
  <1>8. HalvesInv
    BY <1>1, <1>2, <1>3, <1>4 DEF HalvesInv
  <1>9. WaitInv
    <2>1. \A q \in Ports : waited[q] = 0 /\ Budget(q) \in Nat
      BY <1>2, BudgetFacts
    <2> QED
      BY <1>2, <1>3, <2>1 DEF WaitInv
  <1>10. EarlyInv
    BY <1>1, <1>2 DEF EarlyInv
  <1>11. FixedInv
    BY <1>1, <1>2 DEF FixedInv, Types, RestTypeOK
  <1> QED
    BY <1>1, <1>5, <1>6, <1>7, <1>8, <1>9, <1>10, <1>11 DEF IInv

LEMMA IInvNext == ASSUME IInv, [Next]_vars PROVE IInv'
  BY TypesNext, PassNext, TriesNext, AnswerNext, OpenNext, HalvesNext, WaitNext, EarlyNext, FixedNext
  DEF IInv

LEMMA IInvTheorem == Spec => []IInv
  BY IInvInit, IInvNext, PTL DEF Spec

(* Every variable keeps its type: lists of the ports of the range, probes and
   deferred ports of it, counters that never go below zero. *)
THEOREM TypeCorrect == Spec => []TypeOK
  <1>1. IInv => TypeOK
    BY DEF IInv, Types, PassTypeOK, RestTypeOK, OpenInv, TypeOK
  <1> QED
    BY <1>1, IInvTheorem, PTL

(* PortScan.done moves a port silent on its second try to the front of the
   list next() is reading, and never onto a slot that is still to be read; and
   the list never outgrows the room scanPorts made for it, which is none with
   --timeout. *)
THEOREM SlotsTheorem == Spec => []RetrySlotsIntact
  <1>1. ASSUME IInv PROVE RetrySlotsIntact
    <2>1. /\ deferred \in Seq(Ports) /\ Len(deferred) = Len(retries) /\ Len(deferred) \in Nat
          /\ \A i, k \in 1..Len(deferred) : deferred[i] = deferred[k] => i = k
      BY <1>1 DEF IInv, Types, PassTypeOK, PassInv, SlotInv
    <2>2. deferred \in Injection(1..Len(deferred), Ports)
      BY <2>1 DEF Injection, IsInjective
    <2>3. Cardinality(1..Len(deferred)) <= Cardinality(Ports)
      BY <2>2, PortsFacts, FS_Injection
    <2>4. Len(retries) <= Total
      BY <2>1, <2>3, PortsFacts, UpTo
    <2>5. fixed # NoTimeout => Len(retries) = 0
      BY <1>1 DEF IInv, FixedInv
    <2> QED
      BY <1>1, <2>4, <2>5 DEF IInv, PassInv, SlotInv, RetrySlotsIntact
  <1> QED
    BY <1>1, IInvTheorem, PTL

(* A scan that was not stopped gives up on a port only after two tries, a wait
   as long as the fixed one, or a connect that failed. *)
THEOREM EarlyTheorem == Spec => []NoPortGivenUpEarly
  <1>1. ASSUME IInv PROVE NoPortGivenUpEarly
    <2> SUFFICES ASSUME pass = "done", ~stop, NEW q \in Ports, answer[q] = "none"
                 PROVE  tries[q] >= 2 \/ q \in errored \/ waited[q] >= Full
      BY DEF NoPortGivenUpEarly, Full
    <2>1. Walked = Ports /\ nextRetry = Len(retries) /\ Len(deferred) = Len(retries)
      BY <1>1, AllWalked DEF IInv, Types, PassInv, CountInv, SlotInv
    <2>2. q \in errored \/ waited[q] >= Full \/ \E i \in 1..Len(deferred) : deferred[i] = q
      BY <1>1, <2>1 DEF IInv, EarlyInv
    <2>3. (\E i \in 1..Len(deferred) : deferred[i] = q) => q \in Second
      BY <2>1 DEF Second
    <2>4. q \in Second => tries[q] >= 2
      BY <1>1, <2>1 DEF IInv, TriesInv, One
    <2> QED
      BY <2>2, <2>3, <2>4
  <1> QED
    BY <1>1, IInvTheorem, PTL

(* Every port is tried at most once a pass, never again once it answered, and
   at least once by a scan that was not stopped; the open ports returned are
   those that answered as open, each once, in ascending order. *)
THEOREM SettledTheorem == Spec => []EveryPortSettled
  <1>1. ASSUME IInv PROVE EveryPortSettled
    <2>1. /\ Walked \subseteq Ports /\ (pass = "first" => Second = {} /\ Third = {}) /\ (pass = "retry" => Third = {})
      BY <1>1, PassSets DEF IInv
    <2>2. \A q \in Ports : tries[q] = One(q \in Walked) + One(q \in Second) + One(q \in Third)
      BY <1>1 DEF IInv, TriesInv
    <2>3. \A q \in Ports : tries[q] <= CASE pass = "first" -> 1 [] pass = "retry" -> 2 [] OTHER -> 3
      <3>1. CASE pass = "first"
        BY <2>1, <2>2, <3>1 DEF One
      <3>2. CASE pass = "retry"
        BY <2>1, <2>2, <3>2 DEF One
      <3>3. CASE pass # "first" /\ pass # "retry"
        <4>1. \A q \in Ports : tries[q] <= 3
          BY <2>2 DEF One
        <4> QED
          BY <3>3, <4>1
      <3> QED
        BY <3>1, <3>2, <3>3
    <2>4. \A p \in inFlight : answer[p.port] = "none"
      BY <1>1 DEF IInv, AnswerInv
    <2>5. pass = "done" /\ ~stop => \A q \in Ports : tries[q] >= 1 /\ \A p \in inFlight : p.port # q
      <3> SUFFICES ASSUME pass = "done", ~stop, NEW q \in Ports PROVE tries[q] >= 1 /\ \A p \in inFlight : p.port # q
        OBVIOUS
      <3>1. Walked = Ports /\ inFlight = {}
        BY <1>1, AllWalked DEF IInv, Types, PassInv, CountInv, FlightInv
      <3> QED
        BY <2>2, <3>1 DEF One
    <2>6. DOMAIN openPorts = 1..Len(openPorts)
      BY <1>1 DEF IInv, OpenInv
    <2>7. pass = "done" =>
            /\ {openPorts[i] : i \in DOMAIN openPorts} = {q \in Ports : answer[q] = "open"}
            /\ \A i \in 2..Len(openPorts) : openPorts[i - 1] < openPorts[i]
      BY <1>1, <2>6 DEF IInv, OpenInv
    <2> QED
      BY <2>3, <2>4, <2>5, <2>7 DEF EveryPortSettled
  <1> QED
    BY <1>1, IInvTheorem, PTL

(* Progress is full when, and only when, every port had its first and any
   second try: the halves of deferred ports add up. *)
THEOREM FullTheorem == Spec => []FullMeansSettled
  <1>1. ASSUME IInv PROVE FullMeansSettled
    <2>1. /\ advanced = halfUnits \div 2 /\ halfUnits <= 2 * Total /\ halfUnits \in Nat
      BY <1>1 DEF IInv, HalvesInv, Types, RestTypeOK
    <2>2. PICK w \in Nat, t \in Nat : w = Cardinality(Walked) /\ t = Total /\ w <= t
      BY <1>1, CountFacts DEF IInv
    <2>3. PICK f \in Nat : f = Cardinality(inFlight) /\ (f = 0 => inFlight = {})
      BY <1>1, CountFacts DEF IInv
    <2>4. PICK n \in Nat, k \in Nat : n = Len(retries) /\ k = nextRetry /\ k <= n
      BY <1>1, WaitTypes DEF IInv
    <2>5. PICK b \in Nat, a \in Nat : b = silentTwice /\ a = answeredTwice
      BY <1>1 DEF IInv, Types, PassTypeOK
    <2>6. advanced = Total => halfUnits = 2 * t
      BY <2>1, <2>2
    <2>7. ASSUME advanced = Total, pass = "first" PROVE inFlight = {} /\ ~FirstLeft
      <3>1. 2 * t = 2 * (w - f) - n
        BY <1>1, <2>2, <2>3, <2>4, <2>6, <2>7 DEF IInv, HalvesInv
      <3>2. f = 0 /\ w = t
        BY <2>2, <3>1
      <3>3. Walked = Ports
        BY <1>1, <2>2, <3>2, CountFacts DEF IInv
      <3> QED
        BY <1>1, <2>3, <3>2, <3>3, AllWalked DEF IInv, Types
    <2>8. ASSUME advanced = Total, pass = "retry" PROVE inFlight = {} /\ nextRetry = Len(retries)
      <3>1. 2 * t = 2 * w - n + b + a
        BY <1>1, <2>2, <2>4, <2>5, <2>6, <2>8 DEF IInv, HalvesInv
      <3>2. b + a + f = k
        BY <1>1, <2>3, <2>4, <2>5, <2>8 DEF IInv, PassInv, CountInv
      <3>3. f = 0 /\ k = n
        BY <2>2, <2>4, <3>1, <3>2
      <3> QED
        BY <2>3, <2>4, <3>3
    <2>9. ASSUME pass \in {"third", "done"}, ~stop PROVE advanced = Total
      <3>1. halfUnits = 2 * w - n + b + a
        BY <1>1, <2>2, <2>4, <2>5, <2>9 DEF IInv, HalvesInv
      <3>2. b + a = k /\ k = n
        BY <1>1, <2>4, <2>5, <2>9 DEF IInv, PassInv, CountInv
      <3>3. Walked = Ports
        BY <1>1, <2>9, AllWalked DEF IInv, Types, PassInv, CountInv
      <3>4. w = t
        BY <2>2, <3>3, PortsFacts
      <3>5. halfUnits = 2 * t
        BY <3>1, <3>2, <3>4
      <3> QED
        BY <2>1, <2>2, <3>5
    <2> QED
      BY <2>1, <2>7, <2>8, <2>9 DEF FullMeansSettled
  <1> QED
    BY <1>1, IInvTheorem, PTL

(* With the learned waits, a silent port costs one full wait, one more if its
   first try was blind, and one more in the third pass; with --timeout it has
   one try and waits no longer than that. *)
THEOREM BudgetTheorem == Spec => []WaitBudget
  <1>1. ASSUME IInv, NEW q \in Ports, fixed = NoTimeout
        PROVE  waited[q] <= CeilingMs * (1 + (IF q \in blindly THEN 1 ELSE 0)
                                           + (IF tries[q] = 3 THEN 1 ELSE 0))
    <2>1. waited[q] <= Budget(q) /\ waited[q] \in Nat /\ CeilingMs \in Nat
      BY <1>1, WaitTypes, RttAssumption DEF IInv, WaitInv
    <2>2. q \in Third <=> tries[q] = 3
      <3>1. tries[q] = One(q \in Walked) + One(q \in Second) + One(q \in Third)
        BY <1>1 DEF IInv, TriesInv
      <3>2. q \in Third => q \in Second /\ q \in Walked
        BY <1>1, PassSets DEF IInv
      <3> QED
        BY <3>1, <3>2 DEF One
    <2>3. CASE q \in blindly /\ q \in Third
      BY <2>1, <2>2, <2>3 DEF Budget, Twice, Extra
    <2>4. CASE q \in blindly /\ q \notin Third
      BY <2>1, <2>2, <2>4 DEF Budget, Twice, Extra
    <2>5. CASE q \notin blindly /\ q \in Third
      BY <2>1, <2>2, <2>5 DEF Budget, Twice, Extra
    <2>6. CASE q \notin blindly /\ q \notin Third
      BY <2>1, <2>2, <2>6 DEF Budget, Twice, Extra
    <2> QED
      BY <2>3, <2>4, <2>5, <2>6
  <1>2. ASSUME IInv, NEW q \in Ports, fixed # NoTimeout
        PROVE  tries[q] <= 1 /\ waited[q] <= fixed
    <2>1. Len(retries) = 0 /\ waited[q] <= fixed
      BY <1>2 DEF IInv, FixedInv
    <2>2. nextRetry = 0
      BY <1>2, <2>1 DEF IInv, Types, PassTypeOK
    <2>3. Second = {}
      BY <2>2 DEF Second
    <2>4. Third = {}
      BY <1>2, <2>3, PassSets DEF IInv
    <2>5. tries[q] = One(q \in Walked) + One(q \in Second) + One(q \in Third)
      BY <1>2 DEF IInv, TriesInv
    <2> QED
      BY <2>1, <2>3, <2>4, <2>5 DEF One
  <1>3. IInv => WaitBudget
    BY <1>1, <1>2 DEF WaitBudget
  <1> QED
    BY <1>3, IInvTheorem, PTL

(* An answer is final: whatever other verdicts the engine reports, in whatever
   order and pass, a port that has answered keeps its answer and is not tried
   again. *)
AnswerIsFinal ==
  [][\A q \in Ports : answer[q] # "none" => answer'[q] = answer[q] /\ tries'[q] = tries[q]]_vars

(* Once a port has answered, no verdict or pass of PortScan touches it. *)
THEOREM FinalTheorem == Spec => AnswerIsFinal
  <1> DEFINE Untouched == \A q \in Ports : answer[q] # "none" => answer'[q] = answer[q] /\ tries'[q] = tries[q]
  <1>1. ASSUME IInv, [Next]_vars PROVE Untouched
    <2>0. Types /\ PassInv /\ AnswerInv /\ PassTypeOK /\ tries \in [Ports -> Nat]
      BY <1>1 DEF IInv, Types, RestTypeOK
    <2>1. ASSUME NEW p, HandOut(p), NextFirst \/ NextRetry \/ NextThird PROVE Untouched
      <3>1. AnswerInv' /\ answer' = answer
        BY <2>0, <2>1, AnswerPull
      <3>2. p \in inFlight' /\ tries' = [tries EXCEPT ![p.port] = @ + 1]
        BY <2>1, HandOutFrame
      <3>3. answer[p.port] = "none"
        BY <3>1, <3>2 DEF AnswerInv
      <3> QED
        BY <2>0, <3>1, <3>2, <3>3
    <2>2. CASE NextFirst \/ NextRetry \/ NextThird
      <3>1. \E p : HandOut(p)
        BY <2>2 DEF NextFirst, NextRetry, NextThird
      <3> QED
        BY <2>1, <2>2, <3>1
    <2>3. ASSUME NEW p \in inFlight, NEW outcome \in Outcomes, NEW elapsed \in Nat, Ends(p, outcome, elapsed)
          PROVE  Untouched
      <3>1. tries' = tries
        BY <2>0, <2>3, EndsFrame
      <3>2. \A q \in Ports : q # p.port => answer'[q] = answer[q]
        BY <2>0, <2>3, EndsAnswer
      <3>3. answer[p.port] = "none"
        BY <2>0 DEF AnswerInv
      <3> QED
        BY <3>1, <3>2, <3>3
    <2>4. CASE NextPass \/ RunFails \/ Stop \/ UNCHANGED vars
      BY <2>4, TurnFrame
    <2> HIDE DEF Untouched
    <2> QED
      BY <1>1, <2>0, <2>2, <2>3, <2>4, NextCases
  <1>2. IInv /\ [Next]_vars => [Untouched]_vars
    BY <1>1
  <1> HIDE DEF Untouched
  <1>3. Spec => [][Untouched]_vars
    BY <1>2, IInvTheorem, PTL DEF Spec
  <1> QED
    BY <1>3 DEF AnswerIsFinal, Untouched

(* The wait waitCap gives the engine to cut a blind try to is never below the
   floor, and two of it fit in the full wait: what Flight, which knows no round
   trips, assumes of the waits it is given. *)
CapFits ==
  LET wait == LearnedWait(est, fastest)
  IN wait # NoWait => wait \in FloorMs..CeilingMs /\ 2 * wait <= CeilingMs

(* PortScan.learnedWait gives a wait only where two tries of it fit. *)
THEOREM CapTheorem == Spec => []CapFits
  <1>1. ASSUME IInv PROVE CapFits
    <2>1. est \in Estimator
      BY <1>1 DEF IInv, Types, RestTypeOK
    <2>2. TimeoutMs(est) \in Nat /\ FloorMs <= TimeoutMs(est) /\ TimeoutMs(est) <= CeilingMs
      BY <2>1, TimeoutRange
    <2>3. LearnedWait(est, fastest) # NoWait =>
            LearnedWait(est, fastest) = TimeoutMs(est) /\ ~(2 * TimeoutMs(est) > CeilingMs)
      BY DEF LearnedWait
    <2> QED
      BY <2>2, <2>3, RttAssumption DEF CapFits
  <1> QED
    BY <1>1, IInvTheorem, PTL
==============================================================================
