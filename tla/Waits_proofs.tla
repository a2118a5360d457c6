------------------------------ MODULE Waits_proofs -----------------------------
(***************************************************************************)
(* Proofs about how long a connect is waited for: what the estimator makes *)
(* of the answers, and what the loops of connects.zig make of the wait it  *)
(* taught. For any loops, connects, floor, full wait and learned waits, no *)
(* connect outlives its own wait, the look at the floor is enough for a    *)
(* loop no answer wakes, and a cut is a learned wait after every answer    *)
(* the burst had got before that instant, however stale what a loop reads. *)
(* For any answers, floor, headroom and ceiling, the estimate and its wait *)
(* fit the answers.                                                        *)
(***************************************************************************)
EXTENDS Flight, RttLearning, FiniteSetTheorems, WellFoundedInduction, TLAPS

-----------------------------------------------------------------------------
(* Deadlines (Flight).                                                     *)

LongestWait == MaxOf(Waits)
Quiet(c) == Larger(started[c], last) + LongestWait

(* Nothing lies in the future, and what a loop may read is no newer than what
   is there. *)
PastInv ==
  /\ \A c \in Conns : started[c] <= clock
  /\ last <= clock /\ oldLast <= last

(* A loop wakes for each of its connects before its own wait is over; and,
   while the floor is ahead or was passed with a wait learned, before the
   burst has been quiet for the longest wait. *)
WakeInv ==
  \A c \in Conns : status[c] = "flight" =>
    /\ wake[Home[c]] <= started[c] + Timeout
    /\ clock < started[c] + Floor \/ c \in checked => wake[Home[c]] <= Quiet(c)

(* What has arrived has been reported, but for what arrived in this very
   instant; and what arrived before it is in every stamp a loop may read. *)
HeardInv ==
  \A d \in Conns : heard[d] # NoAnswer =>
    /\ heard[d] <= clock
    /\ (status[d] = "settled" /\ heard[d] = clock) \/ heard[d] <= last
    /\ heard[d] < clock => heard[d] <= oldLast

(* A floor passed with a wait learned was passed with one any loop could
   read. *)
LearnedInv == checked # {} => cap # NoCap /\ oldCap # NoCap

IInv == /\ TypeOK /\ PastInv /\ WakeInv /\ NoneOverstays /\ FloorCheckSuffices
        /\ HeardInv /\ LearnedInv

-----------------------------------------------------------------------------
(* Operators. *)

(* A set of numbers that is not empty has a least. *)
LEMMA MinFacts ==
  ASSUME NEW S \in SUBSET Nat, S # {}
  PROVE  MinOf(S) \in S /\ \A y \in S : MinOf(S) <= y
  <1> DEFINE R == {p \in Nat \X Nat : p[1] < p[2]}
  <1>1. IsWellFoundedOn(R, Nat)
    BY NatLessThanWellFounded DEF OpToRel
  <1>2. \A a, b \in Nat : a < b => <<a, b>> \in R
    OBVIOUS
  <1> HIDE DEF R
  <1>3. PICK m \in S : \A y \in S : ~(<<y, m>> \in R)
    BY <1>1, WFMin
  <1>4. m \in Nat /\ \A y \in S : y \in Nat /\ ~(y < m)
    BY <1>2, <1>3
  <1>5. \E x \in S : \A y \in S : x <= y
    BY <1>3, <1>4
  <1> QED
    BY <1>5 DEF MinOf

(* The waits are between the floor and the longest, all above zero. *)
LEMMA WaitFacts ==
  /\ Floor \in Nat /\ Floor >= 1 /\ Timeout \in Nat /\ MaxTime \in Nat /\ Floor < Timeout
  /\ LongestWait \in Nat /\ Floor <= LongestWait /\ NoCap \notin Waits
  /\ \A w \in Waits : w \in Nat /\ Floor <= w /\ w <= Timeout /\ w <= LongestWait
  <1>1. /\ Floor \in Nat /\ Floor >= 1 /\ Timeout \in Nat /\ MaxTime \in Nat /\ Floor < Timeout
        /\ Waits \subseteq Floor..Timeout /\ Waits # {}
    BY FlightAssumption
  <1>2. \A w \in Waits : w \in Nat /\ Floor <= w /\ w <= Timeout
    BY <1>1
  <1>4. \E x \in Waits : \A y \in Waits : y <= x
    <2> DEFINE S == {Timeout - w : w \in Waits}
    <2>0. \A w \in Waits : Timeout - w \in Nat
      BY <1>1, <1>2
    <2>1. S \in SUBSET Nat /\ S # {}
      BY <1>1, <2>0
    <2>2. MinOf(S) \in S /\ \A y \in S : MinOf(S) <= y
      BY <2>1, MinFacts
    <2>3. PICK x \in Waits : MinOf(S) = Timeout - x
      BY <2>2
    <2>4. \A y \in Waits : Timeout - x <= Timeout - y
      BY <2>2, <2>3
    <2> QED
      BY <1>1, <1>2, <2>4
  <1>5. LongestWait \in Waits /\ \A y \in Waits : y <= LongestWait
    BY <1>4 DEF LongestWait, MaxOf
  <1>6. LongestWait \in Nat /\ Floor <= LongestWait
    BY <1>2, <1>5
  <1>7. NoCap \notin Waits
    BY <1>1, <1>2 DEF NoCap
  <1> QED
    BY <1>1, <1>2, <1>5, <1>6, <1>7

(* A deadline is never past the connect's own wait; a cut one is at most the
   wait after the burst's last answer, and at least that. *)
LEMMA DeadlineFacts ==
  ASSUME NEW s \in Nat, NEW w \in Waits \cup {NoCap}, NEW t \in Nat
  PROVE  LET d == Deadline(s, [wait |-> w, last |-> t])
         IN /\ d \in Nat /\ d <= s + Timeout
            /\ w # NoCap => d <= Larger(s, t) + w
            /\ d = s + Timeout \/ (w # NoCap /\ d = Larger(s, t) + w)
  <1>1. Timeout \in Nat /\ Floor \in Nat /\ (w # NoCap => w \in Nat /\ Floor <= w)
    BY WaitFacts
  <1>2. w # NoCap => Larger(w, Floor) = w
    BY <1>1 DEF Larger
  <1>3. Larger(s, t) \in Nat
    BY DEF Larger
  <1> QED
    BY <1>1, <1>2, <1>3 DEF Deadline, Smaller

(* What a loop wakes for. *)
LEMMA WakeForFacts ==
  ASSUME NEW s \in Nat, NEW w \in Waits \cup {NoCap}, NEW t \in Nat, NEW n \in Nat
  PROVE  LET e == WakeFor(s, [wait |-> w, last |-> t], n)
         IN /\ e \in Nat /\ e <= s + Timeout
            /\ n < s + Floor \/ w # NoCap => e <= Larger(s, t) + LongestWait
  <1> DEFINE d == Deadline(s, [wait |-> w, last |-> t])
  <1>1. d \in Nat /\ d <= s + Timeout /\ (w # NoCap => d <= Larger(s, t) + w)
    BY DeadlineFacts
  <1>2. /\ Timeout \in Nat /\ Floor \in Nat /\ LongestWait \in Nat /\ Floor <= LongestWait /\ Floor < Timeout
        /\ w # NoCap => w \in Nat /\ w <= LongestWait
    BY WaitFacts
  <1>3. Larger(s, t) \in Nat /\ s <= Larger(s, t)
    BY DEF Larger
  <1>4. WakeFor(s, [wait |-> w, last |-> t], n) = IF w = NoCap /\ s + Floor > n THEN Smaller(d, s + Floor) ELSE d
    BY DEF WakeFor
  <1> HIDE DEF d
  <1> QED
    BY <1>1, <1>2, <1>3, <1>4 DEF Smaller

(* earliestWake is early enough for every connect. *)
LEMMA EarliestFacts ==
  ASSUME NEW S \in SUBSET Nat, NEW w \in Waits \cup {NoCap}, NEW t \in Nat, NEW n \in Nat
  PROVE  LET e == EarliestWake(S, [wait |-> w, last |-> t], n)
         IN e \in Nat /\ \A s \in S : e <= WakeFor(s, [wait |-> w, last |-> t], n)
  <1> DEFINE cut == [wait |-> w, last |-> t]
             W == {WakeFor(s, cut, n) : s \in S}
  <1>1. \A s \in S : WakeFor(s, cut, n) \in Nat
    BY WakeForFacts
  <1>2. Never \in Nat
    BY WaitFacts DEF Never
  <1>3. CASE S = {}
    BY <1>2, <1>3 DEF EarliestWake
  <1>4. CASE S # {}
    <2>1. W \in SUBSET Nat /\ W # {}
      BY <1>1, <1>4
    <2>2. MinOf(W) \in W /\ \A y \in W : MinOf(W) <= y
      BY <2>1, MinFacts
    <2>3. EarliestWake(S, cut, n) = MinOf(W)
      BY <1>4 DEF EarliestWake
    <2> QED
      BY <2>1, <2>2, <2>3
  <1> QED
    BY <1>3, <1>4

-----------------------------------------------------------------------------
(* Steps. *)

(* A turn of loop l that gives up `lost`, starts `new`, and sleeps on the
   wait w and the last answer t. *)
TurnBy(l, lost, new, w, t) ==
  LET going == (Mine(l, "flight") \ lost) \cup new
  IN /\ status' = [c \in Conns |->
          CASE c \in Mine(l, "settled") -> "answered" [] c \in lost -> "silent"
            [] c \in new -> "flight" [] OTHER -> status[c]]
     /\ started' = [c \in Conns |-> IF c \in new THEN clock ELSE started[c]]
     /\ wake' = [wake EXCEPT ![l] =
          EarliestWake({started'[c] : c \in going}, [wait |-> w, last |-> t], clock)]
     /\ checked' = IF cap' = NoCap THEN {} ELSE checked \ (Mine(l, "settled") \cup lost)

(* Every turn is one of those. *)
LEMMA TurnFacts ==
  ASSUME IInv, NEW l \in Loops, Turn(l)
  PROVE  \E cut \in Cuts, new \in SUBSET Mine(l, "idle"), w \in {cap', oldCap}, t \in {last', oldLast} :
           TurnBy(l, Expired(l, cut), new, w, t)
  <1>1. PICK gone \in {Expired(l, cut) : cut \in Cuts}, new \in SUBSET Mine(l, "idle"), later \in LaterTries :
          LET answers == Mine(l, "settled")
              going == (Mine(l, "flight") \ gone) \cup new
              reported == answers \cup gone # {} \/ later # {}
          IN /\ status' = [c \in Conns |->
                  CASE c \in answers -> "answered" [] c \in gone -> "silent"
                    [] c \in new -> "flight" [] OTHER -> status[c]]
             /\ started' = [c \in Conns |-> IF c \in new THEN clock ELSE started[c]]
             /\ \E at \in {EarliestWake({started'[c] : c \in going}, cut, clock) : cut \in CutsAfter(reported)} :
                  wake' = [wake EXCEPT ![l] = at]
             /\ checked' = IF cap' = NoCap THEN {} ELSE checked \ (answers \cup gone)
    BY Zenon DEF Turn
  <1>2. PICK cut \in Cuts : gone = Expired(l, cut)
    BY <1>1, Zenon
  <1> DEFINE going == (Mine(l, "flight") \ gone) \cup new
             reported == Mine(l, "settled") \cup gone # {} \/ later # {}
  <1>3. PICK seen \in CutsAfter(reported) :
          wake' = [wake EXCEPT ![l] = EarliestWake({started'[c] : c \in going}, seen, clock)]
    BY <1>1, Zenon
  <1> HIDE DEF reported
  <1>4. seen \in [wait : {cap', oldCap}, last : {last', oldLast}]
    <2>1. CASE reported
      BY <1>3, <2>1 DEF CutsAfter
    <2>2. CASE ~reported
      BY <1>3, <2>2 DEF CutsAfter
    <2> QED
      BY <2>1, <2>2
  <1>5. PICK w \in {cap', oldCap}, t \in {last', oldLast} : seen = [wait |-> w, last |-> t]
    BY <1>4
  <1>6. wake' = [wake EXCEPT ![l] = EarliestWake({started'[c] : c \in going}, [wait |-> w, last |-> t], clock)]
    BY <1>3, <1>5, Zenon
  <1>7. /\ status' = [c \in Conns |->
             CASE c \in Mine(l, "settled") -> "answered" [] c \in gone -> "silent"
               [] c \in new -> "flight" [] OTHER -> status[c]]
        /\ started' = [c \in Conns |-> IF c \in new THEN clock ELSE started[c]]
        /\ checked' = IF cap' = NoCap THEN {} ELSE checked \ (Mine(l, "settled") \cup gone)
    BY <1>1, Zenon
  <1>8. TurnBy(l, gone, new, w, t)
    BY <1>6, <1>7, Zenon DEF TurnBy
  <1>9. TurnBy(l, Expired(l, cut), new, w, t)
    BY <1>2, <1>8
  <1> QED
    BY <1>9

(* What a turn reports, and leaves alone. *)
LEMMA ReportFacts ==
  ASSUME IInv, NEW l \in Loops, Turn(l)
  PROVE  /\ clock' = clock /\ oldCap' = oldCap /\ oldLast' = oldLast /\ heard' = heard
         /\ cap' \in Waits \cup {NoCap} /\ last' \in {last, clock}
         /\ Mine(l, "settled") # {} => last' = clock
         /\ host' \in {"unknown", "far", "near"}
  <1>1. PICK later \in LaterTries : Report(Mine(l, "settled"), later)
    BY Zenon DEF Turn
  <1>2. UNCHANGED <<clock, oldCap, oldLast, heard>>
    BY Zenon DEF Turn
  <1>3. cap' = cap \/ cap' \in WaitCaps(host')
    BY <1>1, Zenon DEF Report
  <1>4. cap' \in Waits \cup {NoCap}
    BY <1>3 DEF WaitCaps, IInv, TypeOK
  <1>5. last' = IF Mine(l, "settled") = {} THEN last ELSE clock
    BY <1>1, Zenon DEF Report
  <1>6. host' \in {"unknown", "far", "near"}
    <2> DEFINE shown == {Shows(c) : c \in Mine(l, "settled")} \cup later \cup {host}
    <2>1. host' = IF "near" \in shown THEN "near" ELSE IF "far" \in shown THEN "far" ELSE "unknown"
      BY <1>1, Zenon DEF Report
    <2> HIDE DEF shown
    <2> QED
      BY <2>1
  <1> QED
    BY <1>2, <1>4, <1>5, <1>6

(* A turn of one loop: what is given up, started and slept for. *)
LEMMA TurnIInv ==
  ASSUME IInv, NEW l \in Loops, Turn(l)
  PROVE  IInv'
  <1>0. /\ clock \in Nat /\ clock <= MaxTime /\ MaxTime \in Nat /\ Timeout \in Nat /\ Floor \in Nat
        /\ LongestWait \in Nat /\ last \in Nat /\ last <= clock /\ oldLast \in Nat /\ oldLast <= last
        /\ started \in [Conns -> 0..MaxTime] /\ (\A c \in Conns : started[c] \in Nat /\ started[c] <= clock)
        /\ Home \in [Conns -> Loops] /\ Floor <= LongestWait
    BY WaitFacts, FlightAssumption DEF IInv, TypeOK, PastInv
  <1>1. PICK cut \in Cuts, new \in SUBSET Mine(l, "idle"), w \in {cap', oldCap}, t \in {last', oldLast} :
          TurnBy(l, Expired(l, cut), new, w, t)
    BY TurnFacts
  <1> DEFINE lost == Expired(l, cut)
             going == (Mine(l, "flight") \ lost) \cup new
  <1>4. /\ status' = [c \in Conns |->
             CASE c \in Mine(l, "settled") -> "answered" [] c \in lost -> "silent"
               [] c \in new -> "flight" [] OTHER -> status[c]]
        /\ started' = [c \in Conns |-> IF c \in new THEN clock ELSE started[c]]
        /\ wake' = [wake EXCEPT ![l] =
             EarliestWake({started'[c] : c \in going}, [wait |-> w, last |-> t], clock)]
        /\ checked' = IF cap' = NoCap THEN {} ELSE checked \ (Mine(l, "settled") \cup lost)
    BY <1>1, Zenon DEF TurnBy
  <1>3. going = (Mine(l, "flight") \ lost) \cup new
    OBVIOUS
  <1> HIDE DEF lost, going
  <1>5. /\ clock' = clock /\ oldCap' = oldCap /\ oldLast' = oldLast /\ heard' = heard
        /\ cap' \in Waits \cup {NoCap} /\ last' \in {last, clock}
        /\ Mine(l, "settled") # {} => last' = clock
        /\ host' \in {"unknown", "far", "near"}
    BY ReportFacts
  <1>6. /\ last' \in Nat /\ last <= last' /\ last' <= clock
        /\ w \in Waits \cup {NoCap} /\ t \in Nat /\ t <= last'
    <2>1. last' \in Nat /\ last <= last' /\ last' <= clock
      BY <1>0, <1>5
    <2>2. w \in Waits \cup {NoCap}
      BY <1>1, <1>5 DEF IInv, TypeOK
    <2>3. t \in Nat /\ t <= last'
      BY <1>0, <1>1, <2>1
    <2> QED
      BY <2>1, <2>2, <2>3
  <1>7. /\ started' \in [Conns -> 0..MaxTime] /\ (\A c \in Conns : started'[c] \in Nat /\ started'[c] <= clock)
        /\ \A c \in Conns : c \notin new => started'[c] = started[c]
        /\ \A c \in new : c \in Conns /\ started'[c] = clock /\ Home[c] = l /\ status[c] = "idle"
    BY <1>0, <1>4 DEF Mine
  <1>8. status' \in [Conns -> {"idle", "flight", "settled", "answered", "silent"}]
    <2>1. status \in [Conns -> {"idle", "flight", "settled", "answered", "silent"}]
      BY DEF IInv, TypeOK
    <2> QED
      BY <1>4, <2>1
  <1>9. ASSUME NEW c \in Conns, status'[c] = "flight"
        PROVE  \/ c \in going /\ Home[c] = l
               \/ c \notin new /\ status[c] = "flight" /\ Home[c] # l
    <2>1. c \in new \/ (status[c] = "flight" /\ c \notin lost /\ c \notin new)
      BY <1>4, <1>9 DEF Mine
    <2>2. c \in new => c \in going /\ Home[c] = l
      BY <1>3, <1>7
    <2>3. status[c] = "flight" /\ c \notin lost /\ Home[c] = l => c \in going
      BY <1>3 DEF Mine
    <2> QED
      BY <2>1, <2>2, <2>3
  <1>10. PICK e : e = EarliestWake({started'[c] : c \in going}, [wait |-> w, last |-> t], clock)
    OBVIOUS
  <1>11. e \in Nat /\ \A c \in going : e <= WakeFor(started'[c], [wait |-> w, last |-> t], clock) /\ c \in Conns
    <2> DEFINE S == {started'[c] : c \in going}
    <2>1. \A c \in going : c \in Conns
      BY <1>3 DEF Mine
    <2>2. S \in SUBSET Nat
      BY <1>7, <2>1
    <2>3. e \in Nat /\ \A s \in S : e <= WakeFor(s, [wait |-> w, last |-> t], clock)
      BY <1>0, <1>6, <1>10, <2>2, EarliestFacts
    <2> QED
      BY <2>1, <2>3
  <1>12. wake' \in [Loops -> Nat] /\ wake'[l] = e /\ \A m \in Loops : m # l => wake'[m] = wake[m]
    <2>1. wake \in [Loops -> Nat]
      BY DEF IInv, TypeOK
    <2> QED
      BY <1>4, <1>10, <1>11, <2>1
  <1>13. checked' \subseteq checked /\ (checked' # {} => cap' # NoCap /\ oldCap # NoCap /\ w # NoCap)
    <2>1. checked' \subseteq checked /\ (checked' # {} => cap' # NoCap)
      BY <1>4
    <2>2. checked # {} => oldCap # NoCap
      BY DEF IInv, LearnedInv
    <2> QED
      BY <1>1, <2>1, <2>2
  <1>14. TypeOK'
    <2>1. checked' \subseteq Conns /\ clock' \in 0..MaxTime /\ last' \in 0..MaxTime /\ oldLast' \in 0..MaxTime
      BY <1>0, <1>5, <1>6, <1>13 DEF IInv, TypeOK
    <2>2. oldCap' \in Waits \cup {NoCap} /\ heard' \in [Conns -> Nat \cup {NoAnswer}]
      BY <1>5 DEF IInv, TypeOK
    <2> QED
      BY <1>5, <1>6, <1>7, <1>8, <1>12, <2>1, <2>2 DEF TypeOK
  <1>15. PastInv'
    BY <1>0, <1>5, <1>6, <1>7 DEF PastInv
  <1>16. ASSUME NEW c \in Conns PROVE Larger(started[c], last) <= Larger(started[c], last')
    BY <1>0, <1>6 DEF Larger
  <1>17. WakeInv'
    <2> SUFFICES ASSUME NEW c \in Conns, status'[c] = "flight"
                 PROVE  /\ wake'[Home[c]] <= started'[c] + Timeout
                        /\ clock < started'[c] + Floor \/ c \in checked' => wake'[Home[c]] <= Larger(started'[c], last') + LongestWait
      BY <1>5 DEF WakeInv, Quiet
    <2>1. CASE c \in going /\ Home[c] = l
      <3> DEFINE f == WakeFor(started'[c], [wait |-> w, last |-> t], clock)
      <3>1. /\ f \in Nat /\ f <= started'[c] + Timeout
            /\ clock < started'[c] + Floor \/ w # NoCap => f <= Larger(started'[c], t) + LongestWait
        BY <1>0, <1>6, <1>7, WakeForFacts
      <3>2. e <= f /\ wake'[Home[c]] = e
        BY <1>11, <1>12, <2>1
      <3>3. /\ Larger(started'[c], last') + LongestWait \in Nat /\ started'[c] + Timeout \in Nat
            /\ Larger(started'[c], t) + LongestWait \in Nat
            /\ Larger(started'[c], t) + LongestWait <= Larger(started'[c], last') + LongestWait
        <4>1. PICK s, u : s = started'[c] /\ u = last'
          OBVIOUS
        <4>2. s \in Nat /\ u \in Nat /\ t \in Nat /\ t <= u
          BY <1>6, <1>7, <4>1
        <4>3. Larger(s, u) \in Nat /\ Larger(s, t) \in Nat /\ Larger(s, t) <= Larger(s, u)
          BY <4>2 DEF Larger
        <4> QED
          BY <1>0, <4>1, <4>2, <4>3
      <3> HIDE DEF f
      <3> QED
        BY <1>11, <1>13, <3>1, <3>2, <3>3
    <2>2. CASE c \notin new /\ status[c] = "flight" /\ Home[c] # l
      <3>1. wake'[Home[c]] = wake[Home[c]] /\ started'[c] = started[c] /\ wake[Home[c]] \in Nat
        BY <1>0, <1>7, <1>12, <2>2 DEF IInv, TypeOK
      <3>2. /\ wake[Home[c]] <= started[c] + Timeout
            /\ clock < started[c] + Floor \/ c \in checked => wake[Home[c]] <= Larger(started[c], last) + LongestWait
        BY <2>2 DEF IInv, WakeInv, Quiet
      <3>3. Larger(started[c], last) \in Nat /\ Larger(started[c], last') \in Nat
        BY <1>0, <1>6 DEF Larger
      <3> QED
        BY <1>0, <1>13, <1>16, <3>1, <3>2, <3>3
    <2> QED
      BY <1>9, <2>1, <2>2
  <1>18. \A c \in Conns : status'[c] = "flight" => c \in new \/ status[c] = "flight"
    BY <1>3, <1>4 DEF Mine
  <1>19. NoneOverstays'
    <2> SUFFICES ASSUME NEW c \in Conns, status'[c] = "flight" PROVE clock <= started'[c] + Timeout
      BY <1>5 DEF NoneOverstays
    <2>1. CASE c \in new
      BY <1>0, <1>7, <2>1
    <2>2. CASE c \notin new /\ status[c] = "flight"
      BY <1>7, <2>2 DEF IInv, NoneOverstays
    <2> QED
      BY <1>18, <2>1, <2>2
  <1>20. FloorCheckSuffices'
    <2> SUFFICES ASSUME NEW c \in checked', status'[c] = "flight" PROVE clock <= Larger(started'[c], last') + LongestWait
      BY <1>5 DEF FloorCheckSuffices, LongestWait
    <2>0. c \in Conns /\ c \in checked
      BY <1>13 DEF IInv, TypeOK
    <2>1. CASE c \in new
      <3>1. PICK u : u = last'
        OBVIOUS
      <3>2. u \in Nat /\ started'[c] = clock
        BY <1>6, <1>7, <2>1, <3>1
      <3>3. Larger(clock, u) \in Nat /\ clock <= Larger(clock, u)
        BY <1>0, <3>2 DEF Larger
      <3>4. clock <= Larger(clock, u) + LongestWait
        BY <1>0, <3>3
      <3> QED
        BY <3>1, <3>2, <3>4
    <2>2. CASE c \notin new /\ status[c] = "flight"
      <3>1. clock <= Larger(started[c], last) + LongestWait /\ started'[c] = started[c]
        BY <1>7, <2>0, <2>2 DEF IInv, FloorCheckSuffices, LongestWait
      <3>2. Larger(started[c], last) \in Nat /\ Larger(started[c], last') \in Nat
        BY <1>0, <1>6, <2>0 DEF Larger
      <3> QED
        BY <1>0, <1>16, <2>0, <3>1, <3>2
    <2> QED
      BY <1>18, <2>0, <2>1, <2>2
  <1>21. LearnedInv'
    BY <1>5, <1>13 DEF LearnedInv
  <1>22. HeardInv'
    <2> SUFFICES ASSUME NEW d \in Conns, heard[d] # NoAnswer
                 PROVE  /\ heard[d] <= clock
                        /\ (status'[d] = "settled" /\ heard[d] = clock) \/ heard[d] <= last'
                        /\ heard[d] < clock => heard[d] <= oldLast
      BY <1>5 DEF HeardInv
    <2>1. /\ heard[d] <= clock
          /\ (status[d] = "settled" /\ heard[d] = clock) \/ heard[d] <= last
          /\ heard[d] < clock => heard[d] <= oldLast
          /\ heard[d] \in Nat
      BY DEF IInv, HeardInv, TypeOK
    <2>2. CASE heard[d] <= last
      BY <1>0, <1>6, <2>1, <2>2
    <2>3. CASE status[d] = "settled" /\ heard[d] = clock /\ Home[d] = l
      <3>1. d \in Mine(l, "settled")
        BY <2>3 DEF Mine
      <3>2. last' = clock
        BY <1>5, <3>1
      <3> QED
        BY <1>0, <2>1, <2>3, <3>2
    <2>4. CASE status[d] = "settled" /\ heard[d] = clock /\ Home[d] # l
      <3>1. d \notin Mine(l, "settled") /\ d \notin lost /\ d \notin new
        BY <1>7, <2>4 DEF Mine, lost, Expired
      <3>2. status'[d] = "settled"
        BY <1>4, <2>4, <3>1
      <3> QED
        BY <2>1, <2>4, <3>2
    <2> QED
      BY <2>1, <2>2, <2>3, <2>4
  <1> QED
    BY <1>14, <1>15, <1>17, <1>19, <1>20, <1>21, <1>22 DEF IInv

(* An answer reaches a socket; its loop has yet to collect it. *)
LEMMA AnswerIInv ==
  ASSUME IInv, NEW c \in Conns, Answer(c)
  PROVE  IInv'
  <1>1. /\ status' = [status EXCEPT ![c] = "settled"] /\ heard' = [heard EXCEPT ![c] = clock]
        /\ UNCHANGED <<clock, started, cap, last, oldCap, oldLast, host, wake, checked>>
    BY DEF Answer
  <1>2. /\ status \in [Conns -> {"idle", "flight", "settled", "answered", "silent"}]
        /\ heard \in [Conns -> Nat \cup {NoAnswer}] /\ clock \in Nat
    BY WaitFacts DEF IInv, TypeOK
  <1>3. /\ status' \in [Conns -> {"idle", "flight", "settled", "answered", "silent"}]
        /\ heard' \in [Conns -> Nat \cup {NoAnswer}]
        /\ \A d \in Conns : status'[d] = "flight" => status[d] = "flight"
    BY <1>1, <1>2
  <1>4. TypeOK' /\ PastInv' /\ LearnedInv'
    BY <1>1, <1>3 DEF IInv, TypeOK, PastInv, LearnedInv
  <1>5. WakeInv'
    BY <1>1, <1>3 DEF IInv, WakeInv, Quiet
  <1>6. NoneOverstays' /\ FloorCheckSuffices'
    BY <1>1, <1>3 DEF IInv, TypeOK, NoneOverstays, FloorCheckSuffices
  <1>7. HeardInv'
    <2> SUFFICES ASSUME NEW d \in Conns, heard'[d] # NoAnswer
                 PROVE  /\ heard'[d] <= clock
                        /\ (status'[d] = "settled" /\ heard'[d] = clock) \/ heard'[d] <= last
                        /\ heard'[d] < clock => heard'[d] <= oldLast
      BY <1>1 DEF HeardInv
    <2>1. CASE d = c
      <3>1. heard'[d] = clock /\ status'[d] = "settled"
        BY <1>1, <1>2, <2>1
      <3> QED
        BY <1>2, <3>1
    <2>2. CASE d # c
      <3>1. heard'[d] = heard[d] /\ status'[d] = status[d]
        BY <1>1, <1>2, <2>2
      <3> QED
        BY <3>1 DEF IInv, HeardInv
    <2> QED
      BY <2>1, <2>2
  <1> QED
    BY <1>4, <1>5, <1>6, <1>7 DEF IInv

(* The clock moves: no loop is awake, so every wake-up is still ahead. *)
LEMMA TickIInv ==
  ASSUME IInv, Tick
  PROVE  IInv'
  <1>0. /\ clock \in Nat /\ MaxTime \in Nat /\ Timeout \in Nat /\ Floor \in Nat
        /\ LongestWait \in Nat /\ last \in Nat /\ last <= clock
        /\ (\A c \in Conns : started[c] \in Nat /\ started[c] <= clock /\ Home[c] \in Loops)
        /\ Floor <= LongestWait /\ (\A l \in Loops : wake[l] \in Nat)
    BY WaitFacts, FlightAssumption DEF IInv, TypeOK, PastInv
  <1>1. /\ clock < MaxTime /\ clock' = clock + 1 /\ oldCap' = cap /\ oldLast' = last
        /\ checked' = checked \cup
             {c \in Conns : status[c] = "flight" /\ started[c] + Floor = clock + 1 /\ cap # NoCap}
        /\ UNCHANGED <<status, started, cap, last, host, wake, heard>>
    BY DEF Tick
  <1>2. \A l \in Loops : clock + 1 <= wake[l]
    <2>1. \A l \in Loops : ~(clock >= wake[l])
      BY DEF Tick, Awake
    <2> QED
      BY <1>0, <2>1
  <1>3. \A c \in Conns : clock + 1 <= wake[Home[c]]
    BY <1>0, <1>2
  <1>4. TypeOK'
    <2>1. clock' \in 0..MaxTime /\ checked' \subseteq Conns
      BY <1>0, <1>1 DEF IInv, TypeOK
    <2> QED
      BY <1>1, <2>1 DEF IInv, TypeOK
  <1>5. PastInv'
    BY <1>0, <1>1 DEF PastInv
  <1>6. ASSUME NEW c \in Conns, c \in checked' PROVE c \in checked \/ clock < started[c] + Floor
    BY <1>0, <1>1, <1>6
  <1>7. ASSUME NEW c \in Conns, status[c] = "flight"
        PROVE  /\ wake[Home[c]] <= started[c] + Timeout
               /\ clock < started[c] + Floor \/ c \in checked => wake[Home[c]] <= Larger(started[c], last) + LongestWait
    BY <1>7 DEF IInv, WakeInv, Quiet
  <1>8. WakeInv'
    <2> SUFFICES ASSUME NEW c \in Conns, status[c] = "flight"
                 PROVE  /\ wake[Home[c]] <= started[c] + Timeout
                        /\ clock + 1 < started[c] + Floor \/ c \in checked' => wake[Home[c]] <= Larger(started[c], last) + LongestWait
      BY <1>1 DEF WakeInv, Quiet
    <2>1. clock + 1 < started[c] + Floor => clock < started[c] + Floor
      BY <1>0
    <2> QED
      BY <1>6, <1>7, <2>1
  <1>9. NoneOverstays'
    <2> SUFFICES ASSUME NEW c \in Conns, status[c] = "flight" PROVE clock + 1 <= started[c] + Timeout
      BY <1>1 DEF NoneOverstays
    <2>1. wake[Home[c]] \in Nat /\ clock + 1 <= wake[Home[c]] /\ wake[Home[c]] <= started[c] + Timeout
      BY <1>0, <1>3, <1>7
    <2> QED
      BY <1>0, <2>1
  <1>10. FloorCheckSuffices'
    <2> SUFFICES ASSUME NEW c \in checked', status[c] = "flight" PROVE clock + 1 <= Larger(started[c], last) + LongestWait
      BY <1>1 DEF FloorCheckSuffices, LongestWait
    <2>0. c \in Conns
      BY <1>4 DEF TypeOK
    <2>1. wake[Home[c]] \in Nat /\ clock + 1 <= wake[Home[c]] /\ wake[Home[c]] <= Larger(started[c], last) + LongestWait
      BY <1>0, <1>3, <1>6, <1>7, <2>0
    <2>2. Larger(started[c], last) + LongestWait \in Nat
      BY <1>0, <2>0 DEF Larger
    <2> QED
      BY <1>0, <2>1, <2>2
  <1>11. LearnedInv'
    BY <1>1 DEF IInv, LearnedInv
  <1>12. HeardInv'
    <2> SUFFICES ASSUME NEW d \in Conns, heard[d] # NoAnswer
                 PROVE  heard[d] <= clock + 1 /\ heard[d] <= last
      BY <1>1 DEF HeardInv
    <2>1. status[d] # "settled"
      <3>1. Mine(Home[d], "settled") = {}
        BY <1>0 DEF Tick, Awake
      <3> QED
        BY <3>1 DEF Mine
    <2>2. heard[d] \in Nat /\ heard[d] <= last
      BY <2>1 DEF IInv, HeardInv, TypeOK
    <2> QED
      BY <1>0, <2>2
  <1> QED
    BY <1>4, <1>5, <1>8, <1>9, <1>10, <1>11, <1>12 DEF IInv

LEMMA InitIInv == Init => IInv
  <1> SUFFICES ASSUME Init PROVE IInv
    OBVIOUS
  <1>1. TypeOK
    BY WaitFacts DEF Init, TypeOK
  <1>2. \A c \in Conns : started[c] = 0 /\ status[c] = "idle"
    BY DEF Init
  <1>3. PastInv
    BY <1>2 DEF Init, PastInv
  <1>4. WakeInv /\ NoneOverstays /\ FloorCheckSuffices
    BY <1>2 DEF Init, WakeInv, NoneOverstays, FloorCheckSuffices
  <1>5. HeardInv /\ LearnedInv
    BY DEF Init, HeardInv, LearnedInv
  <1> QED
    BY <1>1, <1>3, <1>4, <1>5 DEF IInv

LEMMA StepIInv == IInv /\ [Next]_vars => IInv'
  <1> SUFFICES ASSUME IInv, [Next]_vars PROVE IInv'
    OBVIOUS
  <1>1. CASE UNCHANGED vars
    <2>1. TypeOK' /\ PastInv'
      BY <1>1 DEF IInv, vars, TypeOK, PastInv
    <2>2. WakeInv' /\ NoneOverstays' /\ FloorCheckSuffices'
      BY <1>1 DEF IInv, vars, WakeInv, Quiet, NoneOverstays, FloorCheckSuffices
    <2>3. HeardInv' /\ LearnedInv'
      BY <1>1 DEF IInv, vars, HeardInv, LearnedInv
    <2> QED
      BY <2>1, <2>2, <2>3 DEF IInv
  <1> QED
    BY <1>1, TurnIInv, AnswerIInv, TickIInv DEF Next

(* The inductive invariant holds throughout. *)
LEMMA Invariance == Spec => []IInv
  BY InitIInv, StepIInv, PTL DEF Spec

-----------------------------------------------------------------------------
(* Results. *)

(* Deadlines, wake-ups and what is read without the lock keep their types. *)
THEOREM TypeCorrect == Spec => []TypeOK
  <1>1. IInv => TypeOK
    BY DEF IInv
  <1> QED
    BY <1>1, Invariance, PTL

(* No connect outlives its own wait, whatever its loop slept on. *)
THEOREM OverstayTheorem == Spec => []NoneOverstays
  <1>1. IInv => NoneOverstays
    BY DEF IInv
  <1> QED
    BY <1>1, Invariance, PTL

(* A connect whose floor passed with a wait learned is given up on a learned
   wait after the burst's last answer, although no answer wakes its loop. *)
THEOREM FloorTheorem == Spec => []FloorCheckSuffices
  <1>1. IInv => FloorCheckSuffices
    BY DEF IInv
  <1> QED
    BY <1>1, Invariance, PTL

(* A turn gives up exactly the connects in flight past a deadline it read. *)
LEMMA TurnStatus ==
  ASSUME IInv, NEW l \in Loops, Turn(l)
  PROVE  \E cut \in Cuts :
           \A c \in Conns : status'[c] = "silent" => status[c] = "silent" \/ c \in Expired(l, cut)
  <1>1. PICK cut \in Cuts, new \in SUBSET Mine(l, "idle"), w \in {cap', oldCap}, t \in {last', oldLast} :
          TurnBy(l, Expired(l, cut), new, w, t)
    BY TurnFacts
  <1>2. status' = [c \in Conns |->
          CASE c \in Mine(l, "settled") -> "answered" [] c \in Expired(l, cut) -> "silent"
            [] c \in new -> "flight" [] OTHER -> status[c]]
    BY <1>1, Zenon DEF TurnBy
  <1>3. \A c \in Conns : status'[c] = "silent" => status[c] = "silent" \/ c \in Expired(l, cut)
    BY <1>2
  <1> QED
    BY <1>3

(* One step that gives a connect up did so late enough. *)
LEMMA CutStep ==
  ASSUME IInv, [Next]_vars, NEW c \in Conns, status[c] = "flight", status'[c] = "silent"
  PROVE  clock >= started[c] + Timeout \/ QuietLongEnough(c, 0..clock - 1)
  <1>0. /\ clock \in Nat /\ Timeout \in Nat /\ Floor \in Nat
        /\ last \in Nat /\ oldLast \in Nat /\ oldLast <= last /\ started[c] \in Nat
        /\ cap \in Waits \cup {NoCap} /\ oldCap \in Waits \cup {NoCap}
    BY WaitFacts DEF IInv, TypeOK, PastInv
  <1>1. PICK l \in Loops : Turn(l)
    <2>1. ~UNCHANGED status
      OBVIOUS
    <2>2. ~Tick /\ ~UNCHANGED vars
      BY <2>1 DEF Tick, vars
    <2>3. ~\E d \in Conns : Answer(d)
      <3> SUFFICES ASSUME NEW d \in Conns, Answer(d) PROVE FALSE
        OBVIOUS
      <3>1. status' = [status EXCEPT ![d] = "settled"] /\ status \in [Conns -> {"idle", "flight", "settled", "answered", "silent"}]
        BY DEF Answer, IInv, TypeOK
      <3> QED
        BY <3>1
    <2> QED
      BY <2>2, <2>3 DEF Next
  <1>2. PICK cut \in Cuts :
          \A d \in Conns : status'[d] = "silent" => status[d] = "silent" \/ d \in Expired(l, cut)
    BY <1>1, TurnStatus
  <1>3. clock >= Deadline(started[c], cut)
    BY <1>2 DEF Expired
  <1>4. PICK w \in {cap, oldCap}, t \in {last, oldLast} : cut = [wait |-> w, last |-> t]
    BY DEF Cuts
  <1>5. w \in Waits \cup {NoCap} /\ t \in Nat /\ oldLast <= t
    BY <1>0
  <1> DEFINE due == Deadline(started[c], [wait |-> w, last |-> t])
  <1>6. due \in Nat /\ (due = started[c] + Timeout \/ (w # NoCap /\ due = Larger(started[c], t) + w))
    BY <1>0, <1>5, DeadlineFacts
  <1>7. clock >= due
    BY <1>3, <1>4
  <1> HIDE DEF due
  <1>8. CASE due = started[c] + Timeout
    BY <1>7, <1>8
  <1>9. CASE w # NoCap /\ due = Larger(started[c], t) + w
    <2>1. w \in Nat /\ w \in {cap, oldCap} \ {NoCap}
      BY <1>5, <1>9, WaitFacts
    <2>2. Larger(started[c], t) \in Nat /\ started[c] <= Larger(started[c], t) /\ t <= Larger(started[c], t)
      BY <1>0, <1>5 DEF Larger
    <2>3. clock >= started[c] + w /\ clock >= t + w
      BY <1>0, <1>5, <1>7, <1>9, <2>1, <2>2
    <2>4. ASSUME NEW d \in Conns, heard[d] \in 0..clock - 1 PROVE clock >= heard[d] + w
      <3>0. heard[d] \in Nat /\ heard[d] < clock /\ heard[d] # NoAnswer
        BY <1>0, <2>4 DEF NoAnswer
      <3>1. heard[d] \in Nat /\ heard[d] <= oldLast
        BY <3>0 DEF IInv, HeardInv
      <3> QED
        BY <1>0, <1>5, <2>1, <2>3, <3>1
    <2> QED
      BY <2>1, <2>3, <2>4 DEF QuietLongEnough
  <1> QED
    BY <1>6, <1>8, <1>9

(* However stale and however mixed what a loop reads, it gives a connect up
   only after its own wait, or when a learned wait has passed since it
   started and since every answer the burst had got before that instant,
   whichever loop collected it. *)
THEOREM CutTheorem == Spec => CutsOnlyQuietBurst
  <1>1. IInv /\ [Next]_vars =>
          [\A c \in Conns :
             status[c] = "flight" /\ status'[c] = "silent" =>
               clock >= started[c] + Timeout \/ QuietLongEnough(c, 0..clock - 1)]_vars
    BY CutStep
  <1> QED
    BY <1>1, Invariance, PTL DEF Spec, CutsOnlyQuietBurst

-----------------------------------------------------------------------------
(* The estimator the learned waits come from (RttLearning).                *)

(* RFC 6298's truncating averages. *)

(* The smoothed value never leaves the interval its two inputs span, so
   rtt.zig's srtt_us is an average whatever the division truncates. *)
LEMMA SmoothedBetween ==
  ASSUME NEW a \in Nat, NEW b \in Nat, NEW x \in Nat, NEW y \in Nat,
         a <= x, x <= b, a <= y, y <= b
  PROVE  LET z == (7 * x + y) \div 8 IN z \in Nat /\ a <= z /\ z <= b
  OBVIOUS

(* The variation stays below any bound on the samples, so rtt.zig's
   rttvar_us never outgrows the slowest answer. *)
LEMMA VariationBelow ==
  ASSUME NEW b \in Nat, NEW v \in Nat, NEW x \in Nat, NEW y \in Nat,
         v <= b, x <= b, y <= b
  PROVE  LET z == (3 * v + Distance(x, y)) \div 4 IN z \in Nat /\ z <= b
  BY DEF Distance

(* Rounding up to whole milliseconds: the result covers n microseconds and
   is the least that does. *)
LEMMA RoundsUp ==
  ASSUME NEW n \in Nat, NEW d \in Nat \ {0}
  PROVE  LET q == (n + d - 1) \div d
         IN q \in Nat /\ n <= q * d /\ (q - 1) * d < n
  OBVIOUS

-----------------------------------------------------------------------------
(* The inductive invariant. The hull of the answers must itself be one:    *)
(* lo <= hi is what keeps a new sample on the right side of both.          *)

LearnIInv == LearnTypeOK /\ EstimateInHull /\ lo <= hi

(* Before the first answer there is no estimate to bound. *)
LEMMA LearnInitIInv == LearnInit => LearnIInv
  BY DEF LearnInit, LearnIInv, LearnTypeOK, EstimateInHull, Estimator, NoEstimate

(* observe keeps the estimate within the samples seen so far. *)
LEMMA LearnObserveIInv ==
  ASSUME NEW rtt \in Samples, LearnIInv, Observe(rtt)
  PROVE  LearnIInv'
  <1>1. rtt \in Nat
    BY SamplesAssumption
  <1>2. est.known \in BOOLEAN /\ est.srtt \in Nat /\ est.rttvar \in Nat
    BY DEF LearnIInv, LearnTypeOK, Estimator
  <1>3. CASE est.known
    <2>1. /\ lo' \in Nat /\ hi' \in Nat
          /\ lo' <= est.srtt /\ est.srtt <= hi' /\ est.rttvar <= hi'
          /\ lo' <= rtt /\ rtt <= hi' /\ lo' <= hi'
      BY <1>1, <1>2, <1>3 DEF LearnIInv, LearnTypeOK, EstimateInHull, Observe, Smaller, Larger
    <2>2. LET z == (7 * est.srtt + rtt) \div 8 IN z \in Nat /\ lo' <= z /\ z <= hi'
      BY <1>1, <1>2, <2>1, SmoothedBetween
    <2>3. LET z == (3 * est.rttvar + Distance(est.srtt, rtt)) \div 4 IN z \in Nat /\ z <= hi'
      BY <1>1, <1>2, <2>1, VariationBelow
    <2>4. est' = [known |-> TRUE,
                  srtt |-> (7 * est.srtt + rtt) \div 8,
                  rttvar |-> (3 * est.rttvar + Distance(est.srtt, rtt)) \div 4]
      BY <1>3 DEF Observe, ObserveRtt
    <2> QED
      BY <2>1, <2>2, <2>3, <2>4 DEF LearnIInv, LearnTypeOK, EstimateInHull, Estimator, Observe
  <1>4. CASE ~est.known
    <2>1. est' = [known |-> TRUE, srtt |-> rtt, rttvar |-> rtt \div 2] /\ lo' = rtt /\ hi' = rtt
      BY <1>4 DEF Observe, ObserveRtt
    <2>2. rtt \div 2 \in Nat /\ rtt \div 2 <= rtt
      BY <1>1
    <2> QED
      BY <1>1, <2>1, <2>2 DEF LearnIInv, LearnTypeOK, EstimateInHull, Estimator, Observe
  <1> QED
    BY <1>2, <1>3, <1>4

(* Every step of the estimator preserves the invariant. *)
LEMMA LearnNextIInv == LearnIInv /\ [LearnNext]_learnVars => LearnIInv'
  <1> SUFFICES ASSUME LearnIInv, [LearnNext]_learnVars PROVE LearnIInv'
    OBVIOUS
  <1>1. ASSUME NEW rtt \in Samples, Observe(rtt) PROVE LearnIInv'
    BY <1>1, LearnObserveIInv
  <1>2. ASSUME NEW rtt \in Samples, Settle(rtt) PROVE LearnIInv'
    BY <1>2 DEF LearnIInv, LearnTypeOK, EstimateInHull, Settle
  <1>3. CASE UNCHANGED learnVars
    BY <1>3 DEF LearnIInv, LearnTypeOK, EstimateInHull, learnVars
  <1> QED
    BY <1>1, <1>2, <1>3 DEF LearnNext

(* Every estimator a scan can reach is well-typed (rtt.zig). *)
THEOREM RttTypeCorrect == LearnSpec => []LearnTypeOK
  <1>1. LearnIInv => LearnTypeOK
    BY DEF LearnIInv
  <1> QED
    BY <1>1, LearnInitIInv, LearnNextIInv, PTL DEF LearnSpec

(* RttEstimator.observe keeps srtt between the fastest and the slowest
   answer and rttvar below the slowest, for all samples. *)
THEOREM HullTheorem == LearnSpec => []EstimateInHull
  <1>1. LearnIInv => EstimateInHull
    BY DEF LearnIInv
  <1> QED
    BY <1>1, LearnInitIInv, LearnNextIInv, PTL DEF LearnSpec

-----------------------------------------------------------------------------
(* What timeoutMs makes of it. *)

(* The wait derived from such an estimate fits the answers it has seen. *)
LEMMA WaitFits == LearnIInv => WaitFitsAnswers
  <1> SUFFICES ASSUME LearnIInv PROVE WaitFitsAnswers
    OBVIOUS
  <1> DEFINE head == HeadroomMs * UsPerMs
             room == Larger(4 * est.rttvar, head)
             wait == WaitMs(est)
  <1>1. /\ est.known \in BOOLEAN /\ est.srtt \in Nat /\ est.rttvar \in Nat
        /\ lo \in Nat /\ hi \in Nat
        /\ FloorMs \in Nat /\ CeilingMs \in Nat /\ UsPerMs \in Nat \ {0} /\ head \in Nat
        /\ FloorMs <= CeilingMs
    BY RttAssumption DEF LearnIInv, LearnTypeOK, Estimator
  <1>2. CASE ~est.known
    BY <1>1, <1>2 DEF WaitFitsAnswers, TimeoutMs
  <1>3. CASE est.known
    <2>1. room \in Nat /\ head <= room
      BY <1>1 DEF Larger
    <2>2. room <= Larger(4 * hi, head)
      BY <1>1, <1>3 DEF LearnIInv, EstimateInHull, Larger
    <2>3. /\ wait \in Nat
          /\ est.srtt + room <= wait * UsPerMs
          /\ (wait - 1) * UsPerMs < est.srtt + room
      <3>1. est.srtt + room \in Nat
        BY <1>1, <2>1
      <3>2. wait = ((est.srtt + room) + UsPerMs - 1) \div UsPerMs
        BY DEF WaitMs
      <3> HIDE DEF room, wait
      <3> QED
        BY <1>1, <3>1, <3>2, RoundsUp
    <2>4. lo + head <= wait * UsPerMs
      BY <1>1, <1>3, <2>1, <2>3 DEF LearnIInv, EstimateInHull
    <2>5. (wait - 1) * UsPerMs < hi + Larger(4 * hi, head)
      <3>1. Larger(4 * hi, head) \in Nat
        BY <1>1 DEF Larger
      <3>2. est.srtt <= hi
        BY <1>3 DEF LearnIInv, EstimateInHull
      <3> HIDE DEF room, wait, head
      <3> QED
        BY <1>1, <2>1, <2>2, <2>3, <3>1, <3>2
    <2>6. TimeoutMs(est) = Smaller(CeilingMs, Larger(FloorMs, wait))
      BY <1>3 DEF TimeoutMs
    <2> HIDE DEF room, wait, head
    <2>7. /\ FloorMs <= TimeoutMs(est) /\ TimeoutMs(est) <= CeilingMs
          /\ TimeoutMs(est) \in Nat
          /\ TimeoutMs(est) = CeilingMs \/ wait <= TimeoutMs(est)
          /\ TimeoutMs(est) = FloorMs \/ TimeoutMs(est) <= wait
      BY <1>1, <2>3, <2>6 DEF Smaller, Larger
    <2>8. TimeoutMs(est) = CeilingMs \/ TimeoutMs(est) * UsPerMs >= lo + head
      <3>1. SUFFICES ASSUME wait <= TimeoutMs(est)
                     PROVE  wait * UsPerMs <= TimeoutMs(est) * UsPerMs
        BY <1>1, <2>3, <2>4, <2>7
      <3> QED
        BY <1>1, <2>3, <2>7, <3>1
    <2>9. \/ TimeoutMs(est) = FloorMs
          \/ (TimeoutMs(est) - 1) * UsPerMs < hi + Larger(4 * hi, head)
      <3>1. SUFFICES ASSUME TimeoutMs(est) <= wait
                     PROVE  (TimeoutMs(est) - 1) * UsPerMs <= (wait - 1) * UsPerMs
        <4>1. Larger(4 * hi, head) \in Nat
          BY <1>1 DEF Larger
        <4> QED
          BY <1>1, <2>3, <2>5, <2>7, <4>1
      <3> QED
        BY <1>1, <2>3, <2>7, <3>1
    <2> QED
      BY <2>7, <2>8, <2>9 DEF WaitFitsAnswers, head
  <1> QED
    BY <1>1, <1>2, <1>3

(* RttEstimator.timeoutMs always clears the fastest answer by the headroom,
   or is the ceiling, and never exceeds what the slowest answer justifies
   or the floor. *)
THEOREM WaitTheorem == LearnSpec => []WaitFitsAnswers
  BY LearnInitIInv, LearnNextIInv, WaitFits, PTL DEF LearnSpec
==============================================================================
