------------------------ MODULE IcmpSweepWindows_proofs ------------------------
(***************************************************************************)
(* Proofs about the ICMP sweep, on either build, for any number of hosts,  *)
(* timeout, pace and number of echoes in flight: every host it gets to is  *)
(* reported once, up only on a reply of its own, down only once an echo    *)
(* left for it, the kernel refused it or patience ran out; no reply buffer *)
(* is lost or shared; and no wait outlives the first echo in flight.       *)
(***************************************************************************)
EXTENDS IcmpSweepWindows, FiniteSetTheorems, SequenceTheorems, WellFoundedInduction, TLAPS

(* The hosts waited for; the slots in the free list and those in use. *)
Air == {h \in Hosts : state[h] = "inFlight"}
Listed == {free[k] : k \in 1..Len(free)}
Held == Slots \ Listed

(* What the variables hold, inFlight apart. *)
LoopTypeOK ==
  /\ pc \in {"open", "look", "send", "poll", "done"}
  /\ result \in {"running", "done", "unavailable", "noMemory"}
  /\ now \in Nat /\ wake \in Nat /\ clock \in Nat
  /\ next \in 0..Count /\ oldest \in 0..next
  /\ stopped \in BOOLEAN /\ busy \in BOOLEAN /\ stopReq \in BOOLEAN
  /\ busySince \in Nat \cup {Unset} /\ fullFrom \in Nat \cup {Unset}

HostTypeOK ==
  /\ state \in [Hosts -> {"waiting", "inFlight", "reported"}]
  /\ sentAt \in [Hosts -> Nat \cup {Unset}]
  /\ alive \in [Hosts -> BOOLEAN] /\ reports \in [Hosts -> Nat]
  /\ inbox \subseteq Hosts \X {"own", "other"}
  /\ replied \subseteq Hosts /\ refused \subseteq Hosts

SlotTypeOK ==
  /\ platform \in {"posix", "windows"} /\ free \in Seq(Slots)
  /\ slotHost \in [Slots -> Hosts \cup {Unset}]
  /\ completed \in [Slots -> {"none", "reply", "other"}] /\ woken \in BOOLEAN

Types == LoopTypeOK /\ HostTypeOK /\ SlotTypeOK

(* Hosts are taken in order, each is waited for once its echo left, and
   reported once. *)
HostInv ==
  /\ \A h \in Hosts : h >= next => state[h] = "waiting" /\ sentAt[h] = Unset
  /\ \A h \in Hosts : h < next => state[h] # "waiting"
  /\ \A h \in Hosts : reports[h] = IF state[h] = "reported" THEN 1 ELSE 0
  /\ \A h \in Air : sentAt[h] # Unset
  /\ inFlight = Cardinality(Air)
  /\ platform = "posix" => inFlight <= MaxInFlight

(* A slot in use belongs to one host in flight, and only its completion can
   be due. *)
SlotInv ==
  /\ \A k, m \in 1..Len(free) : free[k] = free[m] => k = m
  /\ \A sl, r \in Held : slotHost[sl] = slotHost[r] => sl = r
  /\ platform = "windows" => {slotHost[sl] : sl \in Held} = Air
  /\ \A sl \in Slots : completed[sl] # "none" => sl \in Held

(* How the sweep ends. *)
EndInv ==
  /\ pc = "open" => next = 0
  /\ pc # "done" => result = "running"
  /\ pc = "done" => \/ result = "done" /\ inFlight = 0 /\ (stopped \/ next = Count)
                    \/ result # "done" /\ next = 0

(* What was heard was said. *)
ReplyInv ==
  /\ \A h \in Hosts : alive[h] => h \in replied /\ sentAt[h] # Unset
  /\ \A h \in Hosts : <<h, "own">> \in inbox => h \in replied
  /\ \A sl \in Slots : completed[sl] = "reply" => slotHost[sl] \in replied

(* Echoes leave in the order of the hosts. *)
OrderInv ==
  /\ now <= clock /\ (pc = "send" => now = clock)
  /\ \A h \in Hosts : sentAt[h] # Unset => sentAt[h] <= now
  /\ \A h, k \in Hosts : h < k /\ sentAt[h] # Unset /\ sentAt[k] # Unset => sentAt[h] <= sentAt[k]

(* So the first in flight is the first whose wait is over, and the sleep is
   cut to it; Windows ends each wait itself. *)
PosixTime ==
  /\ \A h \in Air : oldest <= h
  /\ pc = "send" => \A h \in Air : now < sentAt[h] + Timeout
  /\ pc = "poll" => /\ clock <= wake + 1
                    /\ \A h \in Air : sentAt[oldest] = Unset \/ wake <= sentAt[h] + Timeout

WindowsTime == \A h \in Air : clock <= sentAt[h] + Timeout + 1

TimeInv == OrderInv /\ (platform = "posix" => PosixTime) /\ (platform = "windows" => WindowsTime)

(* The patience of the code is the host's own. *)
BusyInv == busySince = fullFrom

-----------------------------------------------------------------------------
(* Operators. *)

LEMMA HostFacts ==
  /\ Count \in Nat /\ Timeout \in Nat /\ Timeout >= 1 /\ Unset \notin Nat
  /\ Hosts \subseteq Nat /\ IsFiniteSet(Hosts) /\ (\A h \in Hosts : h < Count)
  /\ \A n \in Nat : n < Count => n \in Hosts
  <1>1. Count \in Nat /\ Timeout \in Nat /\ Timeout >= 1
    BY SweepAssumption
  <1>2. IsFiniteSet(Hosts)
    BY <1>1, FS_Interval DEF Hosts
  <1> QED
    BY <1>1, <1>2 DEF Hosts, Unset

LEMMA SlotsFacts ==
  \E n \in Nat : Slots = 1..n /\ n <= MaxInFlight /\ IsFiniteSet(Slots) /\ Cardinality(Slots) = n
  <1>1. PICK n \in Nat : n = (IF MaxInFlight < Count THEN MaxInFlight ELSE Count) /\ n <= MaxInFlight
    BY SweepAssumption
  <1>2. Slots = 1..n
    BY <1>1 DEF Slots
  <1>3. IsFiniteSet(1..n) /\ Cardinality(1..n) = n
    BY FS_Interval
  <1> QED
    BY <1>1, <1>2, <1>3

(* A set of numbers that is not empty has a least. *)
LEMMA Least ==
  ASSUME NEW S \in SUBSET Nat, S # {}
  PROVE  \E m \in S : \A k \in S : m <= k
  <1> DEFINE R == {p \in Nat \X Nat : p[1] < p[2]}
  <1>1. IsWellFoundedOn(R, Nat)
    BY NatLessThanWellFounded DEF OpToRel
  <1>2. \A a, b \in Nat : a < b => <<a, b>> \in R
    OBVIOUS
  <1> HIDE DEF R
  <1>3. PICK m \in S : \A k \in S : ~(<<k, m>> \in R)
    BY <1>1, WFMin
  <1>4. m \in Nat /\ \A k \in S : k \in Nat /\ ~(k < m)
    BY <1>2, <1>3
  <1> QED
    BY <1>3, <1>4

(* oldest walks to the first host whose wait is not over. *)
LEMMA WalkedFacts ==
  ASSUME Types, NEW t \in Nat
  PROVE  /\ Walked(t) \in oldest..next
         /\ Walked(t) = next \/ (state[Walked(t)] = "inFlight" /\ t < sentAt[Walked(t)] + Timeout)
         /\ \A h \in oldest..(Walked(t) - 1) : state[h] # "inFlight" \/ t >= sentAt[h] + Timeout
  <1> DEFINE Stays(i) == i = next \/ (state[i] = "inFlight" /\ t < sentAt[i] + Timeout)
             Before(i) == \A h \in oldest..(i - 1) : state[h] # "inFlight" \/ t >= sentAt[h] + Timeout
             S == {i \in oldest..next : Stays(i)}
  <1>1. next \in 0..Count /\ oldest \in 0..next /\ Count \in Nat /\ oldest \in Nat /\ next \in Nat /\ oldest <= next
    BY HostFacts DEF Types, LoopTypeOK
  <1>2. S \in SUBSET Nat /\ next \in S
    BY <1>1
  <1>3. PICK m \in S : \A k \in S : m <= k
    BY <1>2, Least
  <1>4. Before(m)
    <2> SUFFICES ASSUME NEW h \in oldest..(m - 1) PROVE state[h] # "inFlight" \/ t >= sentAt[h] + Timeout
      OBVIOUS
    <2>1. h \in oldest..next /\ h \in Nat /\ h < m /\ m \in Nat
      BY <1>1, <1>3
    <2>2. ~Stays(h)
      BY <1>3, <2>1
    <2>3. h \in Hosts
      BY <1>1, <1>3, <2>1, HostFacts
    <2>4. sentAt[h] + Timeout \in Int
      <3>1. sentAt[h] \in Nat \cup {Unset}
        BY <2>3 DEF Types, HostTypeOK
      <3> QED
        BY <3>1, HostFacts DEF Unset
    <2> QED
      BY <2>2, <2>4
  <1>5. \E i \in oldest..next : Stays(i) /\ Before(i)
    BY <1>3, <1>4
  <1>6. Walked(t) = CHOOSE i \in oldest..next : Stays(i) /\ Before(i)
    BY DEF Walked
  <1> HIDE DEF Stays, Before
  <1>7. Walked(t) \in oldest..next /\ Stays(Walked(t)) /\ Before(Walked(t))
    BY <1>5, <1>6
  <1> QED
    BY <1>7 DEF Stays, Before

(* A report gives every host of S one more call. *)
LEMMA ReportFacts ==
  ASSUME HostTypeOK, NEW S, NEW up \in BOOLEAN, Report(S, up)
  PROVE  /\ state' \in [Hosts -> {"waiting", "inFlight", "reported"}]
         /\ alive' \in [Hosts -> BOOLEAN] /\ reports' \in [Hosts -> Nat]
         /\ \A h \in Hosts : h \in S => /\ state'[h] = "reported" /\ alive'[h] = up
                                        /\ reports'[h] = reports[h] + 1
         /\ \A h \in Hosts : h \notin S => /\ state'[h] = state[h] /\ alive'[h] = alive[h]
                                           /\ reports'[h] = reports[h]
  <1>1. /\ state \in [Hosts -> {"waiting", "inFlight", "reported"}]
        /\ alive \in [Hosts -> BOOLEAN] /\ reports \in [Hosts -> Nat]
    BY DEF HostTypeOK
  <1>2. /\ state' = [h \in Hosts |-> IF h \in S THEN "reported" ELSE state[h]]
        /\ alive' = [h \in Hosts |-> IF h \in S THEN up ELSE alive[h]]
        /\ reports' = [h \in Hosts |-> IF h \in S THEN reports[h] + 1 ELSE reports[h]]
    BY DEF Report
  <1>3. state' \in [Hosts -> {"waiting", "inFlight", "reported"}] /\ reports' \in [Hosts -> Nat]
    BY <1>1, <1>2
  <1>4. alive' \in [Hosts -> BOOLEAN]
    BY <1>1, <1>2, Zenon
  <1> QED
    BY <1>2, <1>3, <1>4

-----------------------------------------------------------------------------
(* Steps. *)

LEMMA NextCases ==
  ASSUME Types, [SweepNext]_bothVars
  PROVE  \/ /\ platform = "posix" /\ UNCHANGED winVars
            /\ \/ Look \/ SendOk \/ SendFailed \/ SendBusy \/ Leave \/ Sleep \/ PollEmpty \/ Drain
               \/ Tick \/ Reply \/ Stray
         \/ /\ platform = "windows"
            /\ \/ WinLook \/ WinSend \/ WinSendFinished \/ WinLeave \/ WinSleep \/ OnReply \/ WinWaitEnds
               \/ WinTick \/ Complete
         \/ Open /\ UNCHANGED winVars
         \/ StopRequest /\ UNCHANGED winVars
         \/ UNCHANGED vars /\ UNCHANGED winVars
  BY DEF SweepNext, SweepStep, LoopStep, WinStep, WinOpen, SweepTick, Network, Complete, Ends, Finished, bothVars

(* What a step does to the hosts: nothing, a report of hosts in flight, an
   echo sent, or a host reported without one being waited for. *)
Quiet ==
  /\ state' = state /\ alive' = alive /\ reports' = reports /\ inFlight' = inFlight
  /\ next' = next /\ sentAt' = sentAt

Lands(S, up) ==
  /\ S \subseteq Air /\ Report(S, up) /\ inFlight' = inFlight - Cardinality(S)
  /\ next' = next /\ sentAt' = sentAt

Sends ==
  /\ next < Count /\ pc = "send" /\ (platform = "posix" => inFlight < MaxInFlight)
  /\ state' = [state EXCEPT ![next] = "inFlight"] /\ sentAt' = [sentAt EXCEPT ![next] = now]
  /\ inFlight' = inFlight + 1 /\ next' = next + 1 /\ alive' = alive /\ reports' = reports

Skips(up) ==
  /\ next < Count /\ pc = "send" /\ Report({next}, up) /\ next' = next + 1 /\ inFlight' = inFlight
  /\ sentAt' = [sentAt EXCEPT ![next] = now] \/ (sentAt' = sentAt /\ up = FALSE)

LEMMA LookLands ==
  ASSUME Types, Look
  PROVE  /\ Lands(Flying(oldest..(Walked(clock) - 1)), FALSE)
         /\ oldest' = Walked(clock) /\ Walked(clock) \in oldest..next /\ now' = clock /\ pc' = "send"
  <1>1. clock \in Nat /\ next \in 0..Count /\ oldest \in 0..next /\ Count \in Nat
    BY HostFacts DEF Types, LoopTypeOK
  <1>2. Walked(clock) \in oldest..next
    BY <1>1, WalkedFacts
  <1>3. \A h \in oldest..(Walked(clock) - 1) : h \in Hosts
    BY <1>1, <1>2, HostFacts
  <1>4. Flying(oldest..(Walked(clock) - 1)) \subseteq Air
    BY <1>3 DEF Flying, Air
  <1>5. /\ Report(Flying(oldest..(Walked(clock) - 1)), FALSE)
        /\ inFlight' = inFlight - Cardinality(Flying(oldest..(Walked(clock) - 1)))
        /\ next' = next /\ sentAt' = sentAt /\ oldest' = Walked(clock) /\ now' = clock /\ pc' = "send"
    BY Zenon DEF Look
  <1> QED
    BY <1>2, <1>4, <1>5 DEF Lands

(* A slot's completion lands its host. *)
LEMMA CompletedHost ==
  ASSUME Types, SlotInv, platform = "windows", NEW sl \in Slots, completed[sl] # "none"
  PROVE  sl \in Held /\ slotHost[sl] \in Air /\ slotHost[sl] \in Hosts
  <1>1. sl \in Held
    BY DEF SlotInv
  <1>2. slotHost[sl] \in Air
    BY <1>1 DEF SlotInv
  <1> QED
    BY <1>1, <1>2 DEF Air

LEMMA ReplyLands ==
  ASSUME Types, SlotInv, platform = "windows", OnReply
  PROVE  \E sl \in Slots :
           /\ completed[sl] # "none" /\ sl \in Held /\ slotHost[sl] \in Air /\ slotHost[sl] \in Hosts
           /\ Lands({slotHost[sl]}, completed[sl] = "reply")
           /\ free' = <<sl>> \o free /\ completed' = [completed EXCEPT ![sl] = "none"]
  <1>1. PICK sl \in Slots : /\ completed[sl] # "none" /\ Report({slotHost[sl]}, completed[sl] = "reply")
                            /\ free' = <<sl>> \o free /\ inFlight' = inFlight - 1
                            /\ completed' = [completed EXCEPT ![sl] = "none"]
    BY Zenon DEF OnReply, Release
  <1>2. sl \in Held /\ slotHost[sl] \in Air /\ slotHost[sl] \in Hosts
    BY <1>1, CompletedHost
  <1>3. Cardinality({slotHost[sl]}) = 1
    BY FS_Singleton
  <1>4. next' = next /\ sentAt' = sentAt
    BY DEF OnReply, sendVars
  <1>5. Lands({slotHost[sl]}, completed[sl] = "reply")
    BY <1>1, <1>2, <1>3, <1>4 DEF Lands
  <1> QED
    BY <1>1, <1>2, <1>5

LEMMA DrainLands ==
  ASSUME Drain
  PROVE  \E heard \in SUBSET inbox :
           Lands(Flying(Matched(heard)), TRUE) /\ inbox' = inbox \ heard
  <1>1. PICK heard \in SUBSET inbox :
          /\ Report(Flying(Matched(heard)), TRUE)
          /\ inFlight' = inFlight - Cardinality(Flying(Matched(heard))) /\ inbox' = inbox \ heard
    BY Zenon DEF Drain
  <1>2. Flying(Matched(heard)) \subseteq Air
    BY DEF Flying, Matched, Air
  <1>3. next' = next /\ sentAt' = sentAt
    BY DEF Drain, sendVars
  <1> QED
    BY <1>1, <1>2, <1>3 DEF Lands

LEMMA StepKinds ==
  ASSUME Types, SlotInv, [SweepNext]_bothVars
  PROVE  /\ platform' = platform
         /\ Quiet \/ (\E S : \E up \in BOOLEAN : Lands(S, up)) \/ Sends \/ \E up \in BOOLEAN : Skips(up)
  <1> USE DEF sweepVars, sendVars, worldVars, winVars, posixOnly
  <1>0. UNCHANGED winVars => platform' = platform
    OBVIOUS
  <1>1. CASE platform = "posix" /\ UNCHANGED winVars /\ Look
    BY <1>0, <1>1, LookLands
  <1>2. CASE platform = "posix" /\ UNCHANGED winVars /\ Drain
    BY <1>0, <1>2, DrainLands
  <1>3. CASE platform = "windows" /\ OnReply
    <2>1. \A sl : (completed[sl] = "reply") \in BOOLEAN
      OBVIOUS
    <2>2. platform' = platform
      BY <1>3 DEF OnReply
    <2> QED
      BY <1>3, <2>1, <2>2, ReplyLands
  <1>4. CASE platform = "posix" /\ UNCHANGED winVars /\ SendOk
    BY <1>0, <1>4 DEF SendOk, MaySend, Advance, Sends
  <1>5. CASE platform = "windows" /\ WinSend
    BY <1>5 DEF WinSend, WinMaySend, Sends
  <1>6. CASE platform = "posix" /\ UNCHANGED winVars /\ SendFailed
    <2>1. Skips(FALSE)
      BY <1>6, Zenon DEF SendFailed, MaySend, Advance, Skips
    <2> QED
      BY <1>0, <1>6, <2>1
  <1>7. CASE platform = "posix" /\ UNCHANGED winVars /\ SendBusy
    <2>1. pc = "send" /\ next < Count /\ inFlight' = inFlight /\ sentAt' = sentAt
      BY <1>7 DEF SendBusy, MaySend
    <2>2. \/ UNCHANGED <<next, alive, reports, state>>
          \/ Report({next}, FALSE) /\ next' = next + 1
      BY <1>7, Zenon DEF SendBusy, Advance
    <2>3. CASE UNCHANGED <<next, alive, reports, state>>
      BY <1>0, <1>7, <2>1, <2>3 DEF Quiet
    <2>4. CASE Report({next}, FALSE) /\ next' = next + 1
      <3>1. Skips(FALSE)
        BY <2>1, <2>4, Zenon DEF Skips
      <3> QED
        BY <1>0, <1>7, <3>1
    <2> QED
      BY <2>2, <2>3, <2>4
  <1>8. CASE platform = "windows" /\ WinSendFinished
    <2>1. /\ pc = "send" /\ next < Count /\ inFlight' = inFlight /\ next' = next + 1 /\ platform' = platform
      BY <1>8 DEF WinSendFinished, WinMaySend
    <2>2. \/ Report({next}, TRUE) /\ sentAt' = [sentAt EXCEPT ![next] = now]
          \/ Report({next}, FALSE) /\ sentAt' = sentAt
      BY <1>8, Zenon DEF WinSendFinished
    <2>3. Skips(TRUE) \/ Skips(FALSE)
      BY <2>1, <2>2, Zenon DEF Skips
    <2> QED
      BY <2>1, <2>3
  <1>9. CASE \/ Open /\ UNCHANGED winVars
             \/ platform = "posix" /\ UNCHANGED winVars /\ (Leave \/ Sleep \/ PollEmpty \/ Tick \/ Reply \/ Stray)
             \/ StopRequest /\ UNCHANGED winVars
    BY <1>0, <1>9 DEF Open, Leave, Sleep, PollEmpty, Tick, Reply, Stray, StopRequest, Quiet
  <1>10. CASE platform = "windows" /\ (WinLook \/ WinLeave \/ WinSleep \/ WinWaitEnds \/ WinTick \/ Complete)
    BY <1>10 DEF WinLook, WinLeave, WinSleep, WinWaitEnds, WinTick, Tick, Complete, Quiet
  <1>11. CASE UNCHANGED vars /\ UNCHANGED winVars
    BY <1>0, <1>11 DEF vars, Quiet
  <1> QED
    BY <1>1, <1>2, <1>3, <1>4, <1>5, <1>6, <1>7, <1>8, <1>9, <1>10, <1>11, NextCases

-----------------------------------------------------------------------------
(* Hosts. *)

LEMMA AirFinite == IsFiniteSet(Air) /\ Cardinality(Air) \in Nat
  <1>1. Air \in SUBSET Hosts
    BY DEF Air
  <1>2. IsFiniteSet(Air)
    BY <1>1, HostFacts, FS_Subset
  <1> QED
    BY <1>2, FS_CardinalityType

LEMMA LandsFacts ==
  ASSUME Types, NEW S, NEW up \in BOOLEAN, Lands(S, up)
  PROVE  /\ S \subseteq Air /\ Air' = Air \ S /\ next' = next /\ sentAt' = sentAt
         /\ Cardinality(Air') = Cardinality(Air) - Cardinality(S) /\ Cardinality(S) \in Nat
         /\ inFlight' = inFlight - Cardinality(S)
         /\ \A h \in Hosts : h \in S => /\ state[h] = "inFlight" /\ state'[h] = "reported" /\ alive'[h] = up
                                        /\ reports'[h] = reports[h] + 1
         /\ \A h \in Hosts : h \notin S => /\ state'[h] = state[h] /\ alive'[h] = alive[h]
                                           /\ reports'[h] = reports[h]
  <1>1. /\ S \subseteq Air /\ Report(S, up) /\ next' = next /\ sentAt' = sentAt
        /\ inFlight' = inFlight - Cardinality(S)
    BY DEF Lands
  <1>2. /\ \A h \in Hosts : h \in S => /\ state'[h] = "reported" /\ alive'[h] = up
                                       /\ reports'[h] = reports[h] + 1
        /\ \A h \in Hosts : h \notin S => /\ state'[h] = state[h] /\ alive'[h] = alive[h]
                                          /\ reports'[h] = reports[h]
    BY <1>1, ReportFacts DEF Types
  <1>3. Air' = Air \ S
    BY <1>1, <1>2 DEF Air
  <1>4. IsFiniteSet(Air) /\ IsFiniteSet(S) /\ Air \cap S = S
    BY <1>1, AirFinite, FS_Subset
  <1>5. Cardinality(Air \ S) = Cardinality(Air) - Cardinality(Air \cap S)
    BY <1>4, FS_Difference
  <1>6. Cardinality(S) \in Nat
    BY <1>4, FS_CardinalityType
  <1>7. \A h \in Hosts : h \in S => state[h] = "inFlight"
    BY <1>1 DEF Air
  <1> QED
    BY <1>1, <1>2, <1>3, <1>4, <1>5, <1>6, <1>7

LEMMA SendsFacts ==
  ASSUME Types, HostInv, Sends
  PROVE  /\ next \in Hosts /\ next' = next + 1 /\ next \notin Air /\ Air' = Air \cup {next}
         /\ Cardinality(Air') = Cardinality(Air) + 1 /\ inFlight' = inFlight + 1
         /\ state[next] = "waiting" /\ sentAt[next] = Unset
         /\ state'[next] = "inFlight" /\ sentAt'[next] = now
         /\ (\A h \in Hosts : h # next => state'[h] = state[h] /\ sentAt'[h] = sentAt[h])
         /\ alive' = alive /\ reports' = reports
  <1>1. next \in Hosts /\ next' = next + 1 /\ inFlight' = inFlight + 1 /\ alive' = alive /\ reports' = reports
    BY HostFacts DEF Sends, Types, LoopTypeOK
  <1>2. state[next] = "waiting" /\ sentAt[next] = Unset
    BY <1>1, HostFacts DEF HostInv
  <1>3. /\ state'[next] = "inFlight" /\ sentAt'[next] = now
        /\ \A h \in Hosts : h # next => state'[h] = state[h] /\ sentAt'[h] = sentAt[h]
    BY <1>1 DEF Sends, Types, HostTypeOK
  <1>4. next \notin Air /\ Air' = Air \cup {next}
    BY <1>1, <1>2, <1>3 DEF Air
  <1>5. Cardinality(Air') = Cardinality(Air) + 1
    BY <1>4, AirFinite, FS_AddElement
  <1> QED
    BY <1>1, <1>2, <1>3, <1>4, <1>5

LEMMA SkipsFacts ==
  ASSUME Types, HostInv, NEW up \in BOOLEAN, Skips(up)
  PROVE  /\ next \in Hosts /\ next' = next + 1 /\ next \notin Air /\ Air' = Air /\ inFlight' = inFlight
         /\ state[next] = "waiting" /\ sentAt[next] = Unset /\ reports[next] = 0
         /\ state'[next] = "reported" /\ alive'[next] = up /\ reports'[next] = 1
         /\ sentAt'[next] = now \/ (sentAt'[next] = Unset /\ up = FALSE)
         /\ \A h \in Hosts : h # next => /\ state'[h] = state[h] /\ sentAt'[h] = sentAt[h]
                                         /\ alive'[h] = alive[h] /\ reports'[h] = reports[h]
  <1>1. next \in Hosts /\ next' = next + 1 /\ inFlight' = inFlight /\ Report({next}, up)
    BY HostFacts DEF Skips, Types, LoopTypeOK
  <1>2. state[next] = "waiting" /\ sentAt[next] = Unset /\ reports[next] = 0
    BY <1>1, HostFacts DEF HostInv
  <1>3. /\ state'[next] = "reported" /\ alive'[next] = up /\ reports'[next] = 1
        /\ \A h \in Hosts : h # next => /\ state'[h] = state[h] /\ alive'[h] = alive[h]
                                        /\ reports'[h] = reports[h]
    BY <1>1, <1>2, ReportFacts DEF Types
  <1>4. /\ sentAt'[next] = now \/ (sentAt'[next] = Unset /\ up = FALSE)
        /\ \A h \in Hosts : h # next => sentAt'[h] = sentAt[h]
    BY <1>1, <1>2 DEF Skips, Types, HostTypeOK
  <1>5. next \notin Air /\ Air' = Air
    BY <1>1, <1>2, <1>3 DEF Air
  <1> QED
    BY <1>1, <1>2, <1>3, <1>4, <1>5

LEMMA HostNext == ASSUME Types, HostInv, SlotInv, [SweepNext]_bothVars PROVE HostInv'
  <1>0. /\ platform' = platform /\ next \in Nat /\ now \in Nat /\ Hosts \subseteq Nat /\ Unset \notin Nat
        /\ MaxInFlight \in Nat /\ inFlight \in Nat /\ inFlight = Cardinality(Air)
    BY StepKinds, HostFacts, SweepAssumption, AirFinite DEF Types, LoopTypeOK, HostInv
  <1>1. CASE Quiet
    BY <1>0, <1>1 DEF Quiet, HostInv, Air
  <1>2. ASSUME NEW S, NEW up \in BOOLEAN, Lands(S, up) PROVE HostInv'
    <2>1. /\ S \subseteq Air /\ Air' = Air \ S /\ next' = next /\ sentAt' = sentAt
          /\ Cardinality(Air') = Cardinality(Air) - Cardinality(S) /\ Cardinality(S) \in Nat
          /\ inFlight' = inFlight - Cardinality(S)
      BY <1>2, LandsFacts
    <2>2. /\ \A h \in Hosts : h \in S => /\ state[h] = "inFlight" /\ state'[h] = "reported"
                                         /\ reports'[h] = reports[h] + 1
          /\ \A h \in Hosts : h \notin S => state'[h] = state[h] /\ reports'[h] = reports[h]
      BY <1>2, LandsFacts
    <2>3. /\ \A h \in Hosts : h >= next' => state'[h] = "waiting" /\ sentAt'[h] = Unset
          /\ \A h \in Hosts : h < next' => state'[h] # "waiting"
      BY <2>1, <2>2 DEF HostInv
    <2>4. \A h \in Hosts : reports'[h] = IF state'[h] = "reported" THEN 1 ELSE 0
      BY <2>2 DEF HostInv
    <2>5. inFlight' = Cardinality(Air') /\ inFlight' <= inFlight
      BY <1>0, <2>1
    <2>6. platform' = "posix" => inFlight' <= MaxInFlight
      <3>1. inFlight' \in Int
        BY <1>0, <2>1
      <3> QED
        BY <1>0, <2>5, <3>1 DEF HostInv
    <2> QED
      BY <2>1, <2>3, <2>4, <2>5, <2>6 DEF HostInv
  <1>3. CASE Sends
    <2>1. /\ next \in Hosts /\ next' = next + 1 /\ Air' = Air \cup {next}
          /\ Cardinality(Air') = Cardinality(Air) + 1 /\ inFlight' = inFlight + 1
          /\ state[next] = "waiting" /\ state'[next] = "inFlight" /\ sentAt'[next] = now
          /\ (\A h \in Hosts : h # next => state'[h] = state[h] /\ sentAt'[h] = sentAt[h]) /\ reports' = reports
      BY <1>3, SendsFacts
    <2>2. platform' = "posix" => inFlight' <= MaxInFlight
      BY <1>0, <1>3, <2>1 DEF Sends
    <2>3. /\ \A h \in Hosts : h >= next' => h >= next /\ h # next
          /\ \A h \in Hosts : h < next' => h < next \/ h = next
      BY <1>0, <2>1
    <2>4. /\ \A h \in Hosts : h >= next' => state'[h] = "waiting" /\ sentAt'[h] = Unset
          /\ \A h \in Hosts : h < next' => state'[h] # "waiting"
      BY <2>1, <2>3 DEF HostInv
    <2>5. \A h \in Hosts : reports'[h] = IF state'[h] = "reported" THEN 1 ELSE 0
      BY <2>1 DEF HostInv
    <2>6. \A h \in Air' : sentAt'[h] # Unset
      <3>1. \A h \in Air : h \in Hosts
        BY DEF Air
      <3> QED
        BY <1>0, <2>1, <3>1 DEF HostInv
    <2> QED
      BY <1>0, <2>1, <2>2, <2>4, <2>5, <2>6 DEF HostInv
  <1>4. ASSUME NEW up \in BOOLEAN, Skips(up) PROVE HostInv'
    <2>1. /\ next \in Hosts /\ next' = next + 1 /\ next \notin Air /\ Air' = Air /\ inFlight' = inFlight
          /\ state'[next] = "reported" /\ reports'[next] = 1
          /\ \A h \in Hosts : h # next => state'[h] = state[h] /\ sentAt'[h] = sentAt[h] /\ reports'[h] = reports[h]
      BY <1>4, SkipsFacts
    <2>2. /\ \A h \in Hosts : h >= next' => h >= next /\ h # next
          /\ \A h \in Hosts : h < next' => h < next \/ h = next
      BY <1>0, <2>1
    <2>3. /\ \A h \in Hosts : h >= next' => state'[h] = "waiting" /\ sentAt'[h] = Unset
          /\ \A h \in Hosts : h < next' => state'[h] # "waiting"
      BY <2>1, <2>2 DEF HostInv
    <2>4. \A h \in Hosts : reports'[h] = IF state'[h] = "reported" THEN 1 ELSE 0
      BY <2>1 DEF HostInv
    <2>5. \A h \in Air' : sentAt'[h] # Unset
      <3>1. \A h \in Air : h \in Hosts /\ h # next
        BY <2>1 DEF Air
      <3> QED
        BY <2>1, <3>1 DEF HostInv
    <2> QED
      BY <1>0, <2>1, <2>3, <2>4, <2>5 DEF HostInv
  <1> QED
    BY <1>1, <1>2, <1>3, <1>4, StepKinds

-----------------------------------------------------------------------------
(* Types. *)

(* An echo Windows has not finished is one of a slot in use. *)
LEMMA PendingHost ==
  ASSUME Types, SlotInv, platform = "windows", NEW sl \in Slots, Pending(sl)
  PROVE  sl \in Held /\ slotHost[sl] \in Air /\ slotHost[sl] \in Hosts
  <1>1. DOMAIN free = 1..Len(free)
    BY DEF Types, SlotTypeOK
  <1>2. sl \in Held
    BY <1>1 DEF Pending, Held, Listed
  <1>3. slotHost[sl] \in Air
    BY <1>2 DEF SlotInv
  <1> QED
    BY <1>2, <1>3 DEF Air

LEMMA HostTypesNext ==
  ASSUME Types, HostInv, SlotInv, [SweepNext]_bothVars
  PROVE  HostTypeOK'
  <1> USE DEF sweepVars, sendVars, worldVars, winVars, posixOnly
  <1>0. HostTypeOK /\ now \in Nat /\ next \in Nat
    BY DEF Types, LoopTypeOK
  <1> DEFINE Typed == /\ state' \in [Hosts -> {"waiting", "inFlight", "reported"}]
                      /\ alive' \in [Hosts -> BOOLEAN] /\ reports' \in [Hosts -> Nat]
                      /\ sentAt' \in [Hosts -> Nat \cup {Unset}]
  <1>1. Typed
    <2>0. /\ state \in [Hosts -> {"waiting", "inFlight", "reported"}]
          /\ alive \in [Hosts -> BOOLEAN] /\ reports \in [Hosts -> Nat]
          /\ sentAt \in [Hosts -> Nat \cup {Unset}]
      BY <1>0 DEF HostTypeOK
    <2>1. ASSUME Quiet PROVE Typed
      BY <2>0, <2>1, Zenon DEF Quiet
    <2>2. ASSUME NEW S, NEW up \in BOOLEAN, Lands(S, up) PROVE Typed
      <3>1. Report(S, up) /\ sentAt' = sentAt
        BY <2>2 DEF Lands
      <3>2. /\ state' \in [Hosts -> {"waiting", "inFlight", "reported"}]
            /\ alive' \in [Hosts -> BOOLEAN] /\ reports' \in [Hosts -> Nat]
        BY <1>0, <3>1, ReportFacts
      <3> QED
        BY <2>0, <3>1, <3>2, Zenon
    <2>3. ASSUME Sends PROVE Typed
      <3>1. state' \in [Hosts -> {"waiting", "inFlight", "reported"}] /\ sentAt' \in [Hosts -> Nat \cup {Unset}]
        BY <1>0, <2>0, <2>3 DEF Sends
      <3>2. alive' = alive /\ reports' = reports
        BY <2>3 DEF Sends
      <3> QED
        BY <2>0, <3>1, <3>2, Zenon
    <2>4. ASSUME NEW up \in BOOLEAN, Skips(up) PROVE Typed
      <3>1. Report({next}, up) /\ (sentAt' = [sentAt EXCEPT ![next] = now] \/ sentAt' = sentAt)
        BY <2>4 DEF Skips
      <3>2. /\ state' \in [Hosts -> {"waiting", "inFlight", "reported"}]
            /\ alive' \in [Hosts -> BOOLEAN] /\ reports' \in [Hosts -> Nat]
        BY <1>0, <3>1, ReportFacts
      <3>3. sentAt' \in [Hosts -> Nat \cup {Unset}]
        BY <1>0, <2>0, <3>1
      <3> QED
        BY <3>2, <3>3, Zenon
    <2> QED
      BY <2>1, <2>2, <2>3, <2>4, StepKinds
  <1> DEFINE Rest == /\ inbox' \subseteq Hosts \X {"own", "other"} /\ replied' \subseteq Hosts /\ refused' \subseteq Hosts
  <1>2. inbox \subseteq Hosts \X {"own", "other"} /\ replied \subseteq Hosts /\ refused \subseteq Hosts
    BY <1>0 DEF HostTypeOK
  <1>3. next < Count => next \in Hosts
    BY <1>0, HostFacts
  <1>4. ASSUME platform = "posix",
               Look \/ SendOk \/ SendFailed \/ SendBusy \/ Leave \/ Sleep \/ PollEmpty \/ Tick
        PROVE  Rest
    BY <1>2, <1>3, <1>4 DEF Look, SendOk, SendFailed, SendBusy, Leave, Sleep, PollEmpty, Tick, MaySend
  <1>5. ASSUME Drain \/ Reply \/ Stray PROVE Rest
    <2>1. CASE Drain
      BY <1>2, <2>1, DrainLands DEF Drain
    <2>2. CASE Reply
      BY <1>2, <2>2 DEF Reply
    <2>3. CASE Stray
      BY <1>2, <2>3 DEF Stray
    <2> QED
      BY <1>5, <2>1, <2>2, <2>3
  <1>6. ASSUME WinLook \/ WinSend \/ WinSendFinished \/ WinLeave \/ WinSleep \/ OnReply \/ WinWaitEnds \/ WinTick
        PROVE  Rest
    BY <1>2, <1>3, <1>6 DEF WinLook, WinSend, WinSendFinished, WinLeave, WinSleep, OnReply, WinWaitEnds, WinTick,
                           Tick, WinMaySend
  <1>7. ASSUME platform = "windows", Complete PROVE Rest
    <2>1. PICK sl \in Slots : Pending(sl) /\ (replied' = replied \cup {slotHost[sl]} \/ replied' = replied)
      BY <1>7 DEF Complete
    <2>2. inbox' = inbox /\ refused' = refused
      BY <1>7 DEF Complete
    <2> QED
      BY <1>2, <1>7, <2>1, <2>2, PendingHost
  <1>8. ASSUME Open \/ StopRequest \/ UNCHANGED vars PROVE Rest
    BY <1>2, <1>8 DEF Open, StopRequest, vars
  <1>9. Rest
    BY <1>4, <1>5, <1>6, <1>7, <1>8, NextCases
  <1> QED
    BY <1>1, <1>9, Zenon DEF HostTypeOK

LEMMA LoopTypesNext ==
  ASSUME Types, HostInv, SlotInv, [SweepNext]_bothVars
  PROVE  LoopTypeOK'
  <1> USE DEF sweepVars, sendVars, worldVars, winVars, posixOnly
  <1>0. /\ LoopTypeOK /\ now \in Nat /\ next \in Nat /\ oldest \in Nat /\ oldest <= next /\ Count \in Nat
        /\ clock \in Nat /\ Unset \notin Nat
    BY HostFacts DEF Types, LoopTypeOK
  <1>1. CASE Look
    <2>1. Walked(clock) \in oldest..next
      BY <1>0, WalkedFacts
    <2>2. /\ pc' = "send" /\ oldest' = Walked(clock) /\ now' = clock /\ stopped' = (stopped \/ stopReq)
          /\ busy' = FALSE /\ UNCHANGED <<result, wake, clock, next, stopReq, busySince, fullFrom>>
      BY <1>1 DEF Look
    <2>3. stopped' \in BOOLEAN /\ busy' \in BOOLEAN
      BY <2>2
    <2> QED
      BY <1>0, <2>1, <2>2, <2>3 DEF LoopTypeOK
  <1>2. CASE SendOk \/ SendFailed
    <2>1. /\ next < Count /\ next' = next + 1 /\ fullFrom' = Unset /\ busySince' = Unset
          /\ UNCHANGED <<pc, result, now, oldest, stopped, wake, clock, stopReq, busy>>
      BY <1>2 DEF SendOk, SendFailed, MaySend, Advance
    <2> QED
      BY <1>0, <2>1 DEF LoopTypeOK
  <1>3. CASE SendBusy
    <2>1. next < Count /\ UNCHANGED <<pc, result, now, oldest, stopped, wake, clock, stopReq>>
      BY <1>3 DEF SendBusy, MaySend
    <2>2. \/ /\ busy' = TRUE /\ busySince' \in {now, busySince} /\ fullFrom' \in {now, fullFrom} /\ next' = next
          \/ next' = next + 1 /\ fullFrom' = Unset /\ busySince' = Unset /\ busy' = busy
      BY <1>3 DEF SendBusy, Advance
    <2>3. busy' \in BOOLEAN /\ busySince' \in Nat \cup {Unset} /\ fullFrom' \in Nat \cup {Unset}
      BY <1>0, <2>2 DEF LoopTypeOK
    <2> QED
      BY <1>0, <2>1, <2>2, <2>3 DEF LoopTypeOK
  <1>4. CASE Leave \/ PollEmpty \/ Drain \/ Tick \/ Reply \/ Stray \/ Open \/ StopRequest \/ UNCHANGED vars
    <2>1. UNCHANGED <<now, oldest, stopped, wake, next, busy, busySince, fullFrom>>
      BY <1>4 DEF Leave, PollEmpty, Drain, Tick, Reply, Stray, Open, StopRequest, vars
    <2>2. /\ pc' \in {pc, "done", "look"} /\ result' \in {result, "done", "unavailable", "noMemory"}
          /\ clock' \in {clock, clock + 1}
      BY <1>4 DEF Leave, PollEmpty, Drain, Tick, Reply, Stray, Open, StopRequest, vars
    <2>3. stopReq' = stopReq \/ stopReq' = TRUE
      BY <1>4 DEF Leave, PollEmpty, Drain, Tick, Reply, Stray, Open, StopRequest, vars
    <2>4. stopReq' \in BOOLEAN
      BY <1>0, <2>3 DEF LoopTypeOK
    <2> QED
      BY <1>0, <2>1, <2>2, <2>4 DEF LoopTypeOK
  <1>5. CASE Sleep
    <2>1. PICK wait \in Waits : wake' = now + wait
      BY <1>5 DEF Sleep
    <2>2. wait \in Nat
      <3>1. \A h \in Hosts : sentAt[h] \in Nat \cup {Unset}
        BY DEF Types, HostTypeOK
      <3>2. oldest # next => oldest \in Hosts
        BY <1>0, HostFacts DEF LoopTypeOK
      <3> QED
        BY <1>0, <2>1, <3>1, <3>2, SweepAssumption, HostFacts DEF Waits
    <2> QED
      BY <1>0, <1>5, <2>1, <2>2 DEF Sleep, LoopTypeOK
  <1>6. CASE WinLook
    <2>1. /\ pc' = "send" /\ now' = clock /\ stopped' = (stopped \/ stopReq)
          /\ UNCHANGED <<oldest, busy, result, wake, clock, next, stopReq, busySince, fullFrom>>
      BY <1>6 DEF WinLook
    <2>2. stopped' \in BOOLEAN
      BY <2>1
    <2> QED
      BY <1>0, <2>1, <2>2 DEF LoopTypeOK
  <1>7. CASE WinSend \/ WinSendFinished
    <2>1. /\ next < Count /\ next' = next + 1
          /\ UNCHANGED <<pc, result, now, oldest, stopped, wake, clock, stopReq, busy, busySince, fullFrom>>
      BY <1>7 DEF WinSend, WinSendFinished, WinMaySend
    <2> QED
      BY <1>0, <2>1 DEF LoopTypeOK
  <1>8. CASE WinLeave \/ OnReply \/ WinWaitEnds \/ WinTick \/ Complete
    BY <1>0, <1>8 DEF WinLeave, OnReply, WinWaitEnds, WinTick, Tick, Complete, LoopTypeOK
  <1>9. CASE WinSleep
    <2>1. wake' \in Nat
      BY <1>0, <1>9, WindowsAssumption DEF WinSleep
    <2> QED
      BY <1>0, <1>9, <2>1 DEF WinSleep, LoopTypeOK
  <1> QED
    BY <1>1, <1>2, <1>3, <1>4, <1>5, <1>6, <1>7, <1>8, <1>9, NextCases

-----------------------------------------------------------------------------
(* Slots. *)

LEMMA TailFacts ==
  ASSUME NEW S, NEW f \in Seq(S), f # <<>>
  PROVE  /\ Len(f) \in Nat /\ Len(f) >= 1 /\ Head(f) = f[1] /\ Head(f) \in S
         /\ Tail(f) \in Seq(S) /\ Len(Tail(f)) = Len(f) - 1
         /\ \A k \in 1..(Len(f) - 1) : Tail(f)[k] = f[k + 1]
  OBVIOUS

LEMMA PushFacts ==
  ASSUME NEW S, NEW f \in Seq(S), NEW a \in S
  PROVE  /\ Len(f) \in Nat /\ <<a>> \o f \in Seq(S) /\ Len(<<a>> \o f) = Len(f) + 1 /\ (<<a>> \o f)[1] = a
         /\ \A k \in 2..(Len(f) + 1) : (<<a>> \o f)[k] = f[k - 1]
  OBVIOUS

(* Taking the first slot of a list without repetitions takes it off the list. *)
LEMMA TakeSlot ==
  ASSUME free \in Seq(Slots), free # <<>>, free' = Tail(free),
         \A k, m \in 1..Len(free) : free[k] = free[m] => k = m
  PROVE  /\ free' \in Seq(Slots) /\ Head(free) \in Slots /\ Head(free) \in Listed
         /\ \A k, m \in 1..Len(free') : free'[k] = free'[m] => k = m
         /\ Listed' = Listed \ {Head(free)} /\ Held' = Held \cup {Head(free)}
  <1>1. /\ Len(free) \in Nat /\ Len(free) >= 1 /\ Head(free) = free[1] /\ Head(free) \in Slots
        /\ free' \in Seq(Slots) /\ Len(free') = Len(free) - 1
        /\ \A k \in 1..(Len(free) - 1) : free'[k] = free[k + 1]
    BY TailFacts, Zenon
  <1>2. PICK n \in Nat : n = Len(free)
    BY <1>1
  <1>3. n >= 1 /\ Len(free') = n - 1 /\ (\A k \in 1..(n - 1) : free'[k] = free[k + 1])
    BY <1>1, <1>2
  <1>4. \A k, m \in 1..n : free[k] = free[m] => k = m
    BY <1>2
  <1>5. \A k, m \in 1..Len(free') : free'[k] = free'[m] => k = m
    BY <1>3, <1>4
  <1>6. Listed = {free[k] : k \in 1..n} /\ Listed' = {free'[k] : k \in 1..(n - 1)}
    BY <1>2, <1>3 DEF Listed
  <1>7. \A k \in 1..n : k = 1 \/ (k - 1 \in 1..(n - 1) /\ free[k] = free'[k - 1])
    BY <1>3
  <1>8. \A k \in 1..(n - 1) : k + 1 \in 1..n /\ k + 1 # 1 /\ 1 \in 1..n
    BY <1>3
  <1>9. Listed' = Listed \ {Head(free)}
    <2>1. ASSUME NEW k \in 1..(n - 1) PROVE free'[k] \in Listed \ {Head(free)}
      <3>1. free'[k] = free[k + 1] /\ k + 1 \in 1..n /\ k + 1 # 1 /\ 1 \in 1..n
        BY <1>3, <1>8
      <3>2. free[k + 1] # free[1]
        BY <1>4, <3>1
      <3> QED
        BY <1>1, <1>6, <3>1, <3>2
    <2>2. ASSUME NEW k \in 1..n, free[k] # Head(free) PROVE free[k] \in Listed'
      <3>1. k - 1 \in 1..(n - 1) /\ free[k] = free'[k - 1]
        BY <1>1, <1>7, <2>2
      <3> QED
        BY <1>6, <3>1
    <2>3. \A x \in Listed' : x \in Listed \ {Head(free)}
      BY <1>6, <2>1, Zenon
    <2>4. \A x \in Listed \ {Head(free)} : x \in Listed'
      BY <1>6, <2>2, Zenon
    <2> QED
      BY <2>3, <2>4
  <1>10. Head(free) \in Listed
    BY <1>1, <1>3, <1>6
  <1> QED
    BY <1>1, <1>5, <1>9, <1>10 DEF Held

(* Giving back a slot in use puts it on the list once. *)
LEMMA GiveSlot ==
  ASSUME free \in Seq(Slots), NEW sl \in Held, free' = <<sl>> \o free,
         \A k, m \in 1..Len(free) : free[k] = free[m] => k = m
  PROVE  /\ free' \in Seq(Slots)
         /\ \A k, m \in 1..Len(free') : free'[k] = free'[m] => k = m
         /\ Listed' = Listed \cup {sl} /\ Held' = Held \ {sl}
  <1>0. sl \in Slots /\ sl \notin Listed
    BY DEF Held
  <1>1. /\ Len(free) \in Nat /\ free' \in Seq(Slots) /\ Len(free') = Len(free) + 1 /\ free'[1] = sl
        /\ \A k \in 2..(Len(free) + 1) : free'[k] = free[k - 1]
    <2>1. /\ Len(free) \in Nat /\ <<sl>> \o free \in Seq(Slots) /\ Len(<<sl>> \o free) = Len(free) + 1
          /\ (<<sl>> \o free)[1] = sl
          /\ \A k \in 2..(Len(free) + 1) : (<<sl>> \o free)[k] = free[k - 1]
      BY <1>0, PushFacts, SMT
    <2> QED
      BY <2>1, Zenon
  <1>2. PICK n \in Nat : n = Len(free)
    BY <1>1
  <1>3. Len(free') = n + 1 /\ (\A k \in 2..(n + 1) : free'[k] = free[k - 1] /\ k - 1 \in 1..n)
    BY <1>1, <1>2
  <1>4. \A k, m \in 1..n : free[k] = free[m] => k = m
    BY <1>2
  <1>5. Listed = {free[k] : k \in 1..n} /\ Listed' = {free'[k] : k \in 1..(n + 1)}
    BY <1>2, <1>3 DEF Listed
  <1>6. \A k \in 1..(n + 1) : k = 1 \/ k \in 2..(n + 1)
    OBVIOUS
  <1>7. \A k \in 2..(n + 1) : free'[k] # sl
    BY <1>0, <1>3, <1>5
  <1>8. \A k, m \in 1..Len(free') : free'[k] = free'[m] => k = m
    <2> SUFFICES ASSUME NEW k \in 1..(n + 1), NEW m \in 1..(n + 1), free'[k] = free'[m] PROVE k = m
      BY <1>3
    <2>1. CASE k = 1 \/ m = 1
      BY <1>1, <1>6, <1>7, <2>1
    <2>2. CASE k \in 2..(n + 1) /\ m \in 2..(n + 1)
      <3>1. k - 1 = m - 1
        BY <1>3, <1>4, <2>2
      <3> QED
        BY <2>2, <3>1
    <2> QED
      BY <1>6, <2>1, <2>2
  <1>9. Listed' = Listed \cup {sl}
    <2>1. \A k \in 1..n : k + 1 \in 1..(n + 1) /\ k + 1 \in 2..(n + 1) /\ (k + 1) - 1 = k
      OBVIOUS
    <2>2. \A k \in 1..n : free'[k + 1] = free[k]
      BY <1>3, <2>1
    <2>3. 1 \in 1..(n + 1)
      OBVIOUS
    <2>4. ASSUME NEW k \in 1..(n + 1) PROVE free'[k] \in Listed \cup {sl}
      BY <1>1, <1>3, <1>5, <1>6
    <2>5. ASSUME NEW k \in 1..n PROVE free[k] \in Listed'
      BY <1>5, <2>1, <2>2
    <2>6. sl \in Listed'
      BY <1>1, <1>5, <2>3
    <2>7. \A x \in Listed' : x \in Listed \cup {sl}
      BY <1>5, <2>4, Zenon
    <2>8. \A x \in Listed : x \in Listed'
      BY <1>5, <2>5, Zenon
    <2> QED
      BY <2>6, <2>7, <2>8
  <1> QED
    BY <1>1, <1>8, <1>9 DEF Held

LEMMA SlotsNext ==
  ASSUME Types, HostInv, SlotInv, [SweepNext]_bothVars
  PROVE  SlotTypeOK' /\ SlotInv'
  <1> USE DEF sweepVars, sendVars, worldVars, winVars, posixOnly
  <1>0. /\ SlotTypeOK /\ free \in Seq(Slots) /\ next \in Nat
        /\ slotHost \in [Slots -> Hosts \cup {Unset}] /\ completed \in [Slots -> {"none", "reply", "other"}]
        /\ \A k, m \in 1..Len(free) : free[k] = free[m] => k = m
    BY HostFacts DEF Types, LoopTypeOK, SlotTypeOK, SlotInv
  <1>1. CASE UNCHANGED winVars /\ (platform = "posix" \/ UNCHANGED state)
    <2>1. free' = free /\ slotHost' = slotHost /\ completed' = completed /\ woken' = woken /\ platform' = platform
      BY <1>1
    <2>2. Held' = Held
      BY <2>1 DEF Held, Listed
    <2>3. platform = "posix" \/ Air' = Air
      BY <1>1 DEF Air
    <2>4. SlotTypeOK'
      BY <1>0, <2>1 DEF SlotTypeOK
    <2>5. platform' = "windows" => {slotHost'[sl] : sl \in Held'} = Air'
      BY <2>1, <2>2, <2>3 DEF SlotInv
    <2>6. /\ \A k, m \in 1..Len(free') : free'[k] = free'[m] => k = m
          /\ \A sl, r \in Held' : slotHost'[sl] = slotHost'[r] => sl = r
          /\ \A sl \in Slots : completed'[sl] # "none" => sl \in Held'
      BY <2>1, <2>2 DEF SlotInv
    <2> QED
      BY <2>4, <2>5, <2>6 DEF SlotInv
  <1>2. CASE platform = "windows" /\ WinSend
    <2>1. /\ free # <<>> /\ free' = Tail(free) /\ slotHost' = [slotHost EXCEPT ![Head(free)] = next]
          /\ completed' = completed /\ platform' = platform /\ woken' = woken
      BY <1>2 DEF WinSend, WinMaySend
    <2>2. next \in Hosts /\ next \notin Air /\ Air' = Air \cup {next}
      <3>1. Sends
        BY <1>2 DEF WinSend, WinMaySend, Sends
      <3> QED
        BY <3>1, SendsFacts
    <2>3. PICK hd : hd = Head(free)
      OBVIOUS
    <2>4. /\ free' \in Seq(Slots) /\ hd \in Slots /\ hd \notin Held
          /\ \A k, m \in 1..Len(free') : free'[k] = free'[m] => k = m
          /\ Held' = Held \cup {hd}
      BY <1>0, <2>1, <2>3, TakeSlot DEF Held
    <2>5. /\ slotHost' \in [Slots -> Hosts \cup {Unset}] /\ slotHost'[hd] = next
          /\ \A sl \in Held : sl \in Slots /\ slotHost'[sl] = slotHost[sl] /\ slotHost[sl] \in Air
      <3>1. \A sl \in Held : sl \in Slots /\ sl # hd
        BY <2>4 DEF Held
      <3>2. \A sl \in Held : slotHost[sl] \in Air
        BY <1>2 DEF SlotInv
      <3> QED
        BY <1>0, <2>1, <2>2, <2>3, <2>4, <3>1, <3>2
    <2>6. \A sl, r \in Held' : slotHost'[sl] = slotHost'[r] => sl = r
      <3>1. \A sl, r \in Held : slotHost[sl] = slotHost[r] => sl = r
        BY DEF SlotInv
      <3> QED
        BY <2>2, <2>4, <2>5, <3>1
    <2>7. {slotHost'[sl] : sl \in Held'} = Air'
      <3>1. {slotHost[sl] : sl \in Held} = Air
        BY <1>2 DEF SlotInv
      <3>2. \A x \in Air : \E sl \in Held' : x = slotHost'[sl]
        BY <2>4, <2>5, <3>1
      <3>3. \E sl \in Held' : next = slotHost'[sl]
        BY <2>4, <2>5
      <3>4. \A sl \in Held' : slotHost'[sl] \in Air'
        BY <2>2, <2>4, <2>5
      <3> QED
        BY <2>2, <3>2, <3>3, <3>4
    <2>8. \A sl \in Slots : completed'[sl] # "none" => sl \in Held'
      BY <2>1, <2>4 DEF SlotInv
    <2>9. SlotTypeOK'
      BY <1>0, <2>1, <2>4, <2>5 DEF SlotTypeOK
    <2> QED
      BY <2>4, <2>6, <2>7, <2>8, <2>9 DEF SlotInv
  <1>3. CASE platform = "windows" /\ WinSendFinished
    <2>1. /\ free # <<>> /\ free' = free /\ slotHost' = [slotHost EXCEPT ![Head(free)] = next]
          /\ completed' = completed /\ platform' = platform /\ woken' = woken /\ next < Count /\ pc = "send"
          /\ next' = next + 1 /\ inFlight' = inFlight
      BY <1>3 DEF WinSendFinished, WinMaySend
    <2>2. next \in Hosts /\ Air' = Air
      <3>1. \/ Report({next}, TRUE) /\ sentAt' = [sentAt EXCEPT ![next] = now]
            \/ Report({next}, FALSE) /\ sentAt' = sentAt
        BY <1>3, Zenon DEF WinSendFinished
      <3>2. Skips(TRUE) \/ Skips(FALSE)
        BY <2>1, <3>1, Zenon DEF Skips
      <3> QED
        BY <3>2, SkipsFacts
    <2>3. PICK hd : hd = Head(free)
      OBVIOUS
    <2>4. hd \in Slots /\ hd \notin Held /\ Held' = Held
      <3>1. Len(free) \in Nat /\ Len(free) >= 1 /\ Head(free) = free[1] /\ Head(free) \in Slots
        BY <1>0, <2>1, TailFacts, Zenon
      <3>2. 1 \in 1..Len(free)
        BY <3>1
      <3>3. hd \in Listed
        BY <2>3, <3>1, <3>2 DEF Listed
      <3> QED
        BY <2>1, <2>3, <3>1, <3>3 DEF Held, Listed
    <2>5. /\ slotHost' \in [Slots -> Hosts \cup {Unset}]
          /\ \A sl \in Held : slotHost'[sl] = slotHost[sl]
      <3>1. \A sl \in Held : sl \in Slots /\ sl # hd
        BY <2>4 DEF Held
      <3> QED
        BY <1>0, <2>1, <2>2, <2>3, <3>1
    <2>6. {slotHost'[sl] : sl \in Held'} = Air'
      <3>1. {slotHost[sl] : sl \in Held} = Air
        BY <1>3 DEF SlotInv
      <3> QED
        BY <2>2, <2>4, <2>5, <3>1
    <2>7. SlotTypeOK'
      BY <1>0, <2>1, <2>5 DEF SlotTypeOK
    <2>8. /\ \A k, m \in 1..Len(free') : free'[k] = free'[m] => k = m
          /\ \A sl, r \in Held' : slotHost'[sl] = slotHost'[r] => sl = r
          /\ \A sl \in Slots : completed'[sl] # "none" => sl \in Held'
      BY <2>1, <2>4, <2>5 DEF SlotInv
    <2> QED
      BY <2>6, <2>7, <2>8 DEF SlotInv
  <1>4. CASE platform = "windows" /\ OnReply
    <2>1. PICK sl \in Slots :
            /\ completed[sl] # "none" /\ sl \in Held /\ slotHost[sl] \in Air /\ slotHost[sl] \in Hosts
            /\ Lands({slotHost[sl]}, completed[sl] = "reply")
            /\ free' = <<sl>> \o free /\ completed' = [completed EXCEPT ![sl] = "none"]
      BY <1>4, ReplyLands, Zenon
    <2>2. slotHost' = slotHost /\ platform' = platform /\ woken' = TRUE
      BY <1>4 DEF OnReply
    <2>3. /\ free' \in Seq(Slots) /\ Held' = Held \ {sl}
          /\ \A k, m \in 1..Len(free') : free'[k] = free'[m] => k = m
      BY <1>0, <2>1, GiveSlot
    <2>4. Air' = Air \ {slotHost[sl]}
      <3>1. (completed[sl] = "reply") \in BOOLEAN
        OBVIOUS
      <3> QED
        BY <2>1, <3>1, LandsFacts, Zenon
    <2>5. \A q, r \in Held : slotHost[q] = slotHost[r] => q = r
      BY DEF SlotInv
    <2>6. {slotHost'[r] : r \in Held'} = Air'
      <3>1. {slotHost[r] : r \in Held} = Air
        BY <1>4 DEF SlotInv
      <3> QED
        BY <2>1, <2>2, <2>3, <2>4, <2>5, <3>1
    <2>7. \A r \in Slots : completed'[r] # "none" => r \in Held'
      <3>1. \A r \in Slots : completed'[r] = IF r = sl THEN "none" ELSE completed[r]
        BY <1>0, <2>1
      <3> QED
        BY <2>3, <3>1 DEF SlotInv
    <2>8. completed' \in [Slots -> {"none", "reply", "other"}]
      BY <1>0, <2>1
    <2>9. SlotTypeOK'
      BY <1>0, <2>2, <2>3, <2>8 DEF SlotTypeOK
    <2> QED
      BY <2>2, <2>3, <2>5, <2>6, <2>7, <2>9 DEF SlotInv
  <1>5. CASE platform = "windows" /\ Complete
    <2>1. PICK sl \in Slots : Pending(sl) /\ \E o \in {"reply", "other"} : completed' = [completed EXCEPT ![sl] = o]
      BY <1>5 DEF Complete
    <2>2. free' = free /\ slotHost' = slotHost /\ platform' = platform /\ woken' = woken /\ state' = state
      BY <1>5 DEF Complete
    <2>3. sl \in Held
      BY <1>5, <2>1, PendingHost
    <2>4. Held' = Held /\ Air' = Air
      BY <2>2 DEF Held, Listed, Air
    <2>5. completed' \in [Slots -> {"none", "reply", "other"}] /\ \A r \in Slots : r # sl => completed'[r] = completed[r]
      BY <1>0, <2>1
    <2>6. SlotTypeOK'
      BY <1>0, <2>2, <2>5 DEF SlotTypeOK
    <2> QED
      BY <2>2, <2>3, <2>4, <2>5, <2>6 DEF SlotInv
  <1>6. CASE platform = "windows" /\ (WinLook \/ WinLeave \/ WinSleep \/ WinWaitEnds \/ WinTick)
    <2>1. /\ free' = free /\ slotHost' = slotHost /\ completed' = completed /\ platform' = platform
          /\ state' = state /\ woken' \in {woken, FALSE}
      BY <1>6 DEF WinLook, WinLeave, WinSleep, WinWaitEnds, WinTick, Tick
    <2>2. Held' = Held /\ Air' = Air
      BY <2>1 DEF Held, Listed, Air
    <2>3. woken' \in BOOLEAN
      BY <1>0, <2>1 DEF SlotTypeOK
    <2>4. SlotTypeOK'
      BY <1>0, <2>1, <2>3 DEF SlotTypeOK
    <2>5. SlotInv'
      BY <2>1, <2>2 DEF SlotInv
    <2> QED
      BY <2>4, <2>5
  <1>7. CASE UNCHANGED winVars /\ (Open \/ StopRequest \/ UNCHANGED vars)
    <2>1. UNCHANGED winVars /\ UNCHANGED state
      BY <1>7 DEF Open, StopRequest, vars
    <2> QED
      BY <1>1, <2>1
  <1> QED
    BY <1>1, <1>2, <1>3, <1>4, <1>5, <1>6, <1>7, NextCases

-----------------------------------------------------------------------------
(* The end, replies and patience. *)

LEMMA EndNext ==
  ASSUME Types, EndInv, [SweepNext]_bothVars
  PROVE  EndInv'
  <1> USE DEF sweepVars, sendVars, worldVars, winVars, posixOnly
  <1>1. CASE Look \/ SendOk \/ SendFailed \/ SendBusy \/ Sleep \/ PollEmpty \/ Drain \/ Tick \/ Reply \/ Stray
             \/ WinLook \/ WinSend \/ WinSendFinished \/ WinSleep \/ OnReply \/ WinWaitEnds \/ WinTick \/ Complete
    <2>1. pc \in {"look", "send", "poll"} /\ pc' \in {"look", "send", "poll"} /\ result' = result
      BY <1>1 DEF Look, SendOk, SendFailed, SendBusy, Sleep, PollEmpty, Drain, Tick, Reply, Stray,
                  WinLook, WinSend, WinSendFinished, WinSleep, OnReply, WinWaitEnds, WinTick, Complete
    <2> QED
      BY <2>1 DEF EndInv
  <1>2. CASE Leave \/ WinLeave
    <2>1. /\ pc' = "done" /\ result' = "done" /\ inFlight = 0 /\ (stopped \/ next = Count)
          /\ UNCHANGED <<inFlight, stopped, next>>
      BY <1>2 DEF Leave, WinLeave, Over
    <2> QED
      BY <2>1 DEF EndInv
  <1>3. CASE Open
    <2>1. /\ pc = "open" /\ next' = next
          /\ (pc' = "look" /\ result' = result) \/ (pc' = "done" /\ result' \in {"unavailable", "noMemory"})
      BY <1>3 DEF Open
    <2> QED
      BY <2>1 DEF EndInv
  <1>4. CASE StopRequest \/ UNCHANGED vars
    BY <1>4 DEF StopRequest, vars, EndInv
  <1> QED
    BY <1>1, <1>2, <1>3, <1>4, NextCases

(* The patience the code keeps restarts with every host, as the history does. *)
LEMMA BusyNext ==
  ASSUME Types, BusyInv, [SweepNext]_bothVars
  PROVE  BusyInv'
  <1> USE DEF sweepVars, sendVars, worldVars, winVars, posixOnly
  <1>1. CASE Look \/ Leave \/ Sleep \/ PollEmpty \/ Drain \/ Tick \/ Reply \/ Stray \/ Open \/ StopRequest
             \/ UNCHANGED vars \/ WinLook \/ WinSend \/ WinSendFinished \/ WinLeave \/ WinSleep \/ OnReply
             \/ WinWaitEnds \/ WinTick \/ Complete
    <2>1. busySince' = busySince /\ fullFrom' = fullFrom
      BY <1>1 DEF Look, Leave, Sleep, PollEmpty, Drain, Tick, Reply, Stray, Open, StopRequest, vars,
                  WinLook, WinSend, WinSendFinished, WinLeave, WinSleep, OnReply, WinWaitEnds, WinTick, Complete
    <2> QED
      BY <2>1 DEF BusyInv
  <1>2. CASE SendOk \/ SendFailed
    BY <1>2 DEF SendOk, SendFailed, Advance, BusyInv
  <1>3. CASE SendBusy
    <2>1. \/ /\ busySince' = IF busySince = Unset THEN now ELSE busySince
             /\ fullFrom' = IF fullFrom = Unset THEN now ELSE fullFrom
          \/ busySince' = Unset /\ fullFrom' = Unset
      BY <1>3 DEF SendBusy, Advance
    <2> QED
      BY <2>1 DEF BusyInv
  <1> QED
    BY <1>1, <1>2, <1>3, NextCases

LEMMA ReplyNext ==
  ASSUME Types, HostInv, SlotInv, ReplyInv, [SweepNext]_bothVars
  PROVE  ReplyInv'
  <1> USE DEF sweepVars, sendVars, worldVars, winVars, posixOnly
  <1>0. /\ now \in Nat /\ now # Unset /\ next \in Nat /\ slotHost \in [Slots -> Hosts \cup {Unset}]
        /\ completed \in [Slots -> {"none", "reply", "other"}] /\ free \in Seq(Slots)
    BY HostFacts DEF Types, LoopTypeOK, SlotTypeOK
  <1>a. /\ \A h \in Hosts : alive[h] => h \in replied /\ sentAt[h] # Unset
        /\ \A h \in Hosts : <<h, "own">> \in inbox => h \in replied
        /\ \A sl \in Slots : completed[sl] = "reply" => slotHost[sl] \in replied
    BY DEF ReplyInv
  <1>1. CASE Quiet /\ UNCHANGED <<inbox, replied, completed, slotHost>>
    BY <1>1 DEF ReplyInv, Quiet
  <1>2. CASE platform = "posix" /\ UNCHANGED winVars /\ Look
    <2>1. Lands(Flying(oldest..(Walked(clock) - 1)), FALSE) /\ inbox' = inbox /\ replied' = replied
      BY <1>2, LookLands DEF Look
    <2>2. sentAt' = sentAt /\ \A h \in Hosts : alive'[h] => alive[h]
      BY <2>1, LandsFacts
    <2> QED
      BY <1>2, <1>a, <2>1, <2>2 DEF ReplyInv
  <1>3. CASE platform = "posix" /\ UNCHANGED winVars /\ Drain
    <2>1. PICK heard \in SUBSET inbox : Lands(Flying(Matched(heard)), TRUE) /\ inbox' = inbox \ heard
      BY <1>3, DrainLands
    <2>2. replied' = replied
      BY <1>3 DEF Drain
    <2>3. \A h \in Hosts : h \in Flying(Matched(heard)) => h \in replied /\ h \in Air
      BY <1>a, <2>1 DEF Flying, Matched, Air
    <2>4. \A h \in Hosts : h \in Air => sentAt[h] # Unset
      BY DEF HostInv
    <2>5. /\ sentAt' = sentAt
          /\ \A h \in Hosts : h \notin Flying(Matched(heard)) => alive'[h] = alive[h]
      BY <2>1, LandsFacts
    <2>6. \A h \in Hosts : alive'[h] => h \in replied' /\ sentAt'[h] # Unset
      BY <1>a, <2>2, <2>3, <2>4, <2>5
    <2> QED
      BY <1>3, <1>a, <2>1, <2>2, <2>6 DEF ReplyInv
  <1>4. CASE platform = "windows" /\ OnReply
    <2>1. PICK sl \in Slots :
            /\ completed[sl] # "none" /\ sl \in Held /\ slotHost[sl] \in Air /\ slotHost[sl] \in Hosts
            /\ Lands({slotHost[sl]}, completed[sl] = "reply")
            /\ free' = <<sl>> \o free /\ completed' = [completed EXCEPT ![sl] = "none"]
      BY <1>4, ReplyLands, Zenon
    <2>2. slotHost' = slotHost /\ inbox' = inbox /\ replied' = replied
      BY <1>4 DEF OnReply
    <2>3. (completed[sl] = "reply") \in BOOLEAN
      OBVIOUS
    <2>4. /\ sentAt' = sentAt
          /\ \A h \in Hosts : h \in {slotHost[sl]} => alive'[h] = (completed[sl] = "reply")
          /\ \A h \in Hosts : h \notin {slotHost[sl]} => alive'[h] = alive[h]
      BY <2>1, <2>3, LandsFacts, Zenon
    <2>5. sentAt[slotHost[sl]] # Unset
      BY <2>1 DEF HostInv
    <2>6. \A h \in Hosts : alive'[h] => h \in replied' /\ sentAt'[h] # Unset
      BY <1>a, <2>1, <2>2, <2>4, <2>5
    <2>7. \A r \in Slots : completed'[r] = "reply" => completed[r] = "reply"
      BY <1>0, <2>1
    <2> QED
      BY <1>a, <2>2, <2>6, <2>7 DEF ReplyInv
  <1>5. CASE Sends /\ UNCHANGED <<inbox, replied, completed>> /\ (UNCHANGED slotHost \/ WinSend)
    <2>1. alive' = alive /\ sentAt'[next] = now /\ \A h \in Hosts : h # next => sentAt'[h] = sentAt[h]
      BY <1>5, SendsFacts
    <2>2. \A h \in Hosts : alive'[h] => h \in replied' /\ sentAt'[h] # Unset
      BY <1>0, <1>5, <1>a, <2>1
    <2>3. \A sl \in Slots : completed[sl] # "none" => slotHost'[sl] = slotHost[sl]
      <3>1. CASE UNCHANGED slotHost
        BY <3>1
      <3>2. CASE WinSend
        <4>1. free # <<>> /\ slotHost' = [slotHost EXCEPT ![Head(free)] = next]
          BY <3>2 DEF WinSend, WinMaySend
        <4>2. Len(free) \in Nat /\ Len(free) >= 1 /\ Head(free) = free[1]
          BY <1>0, <4>1, TailFacts, Zenon
        <4>3. Head(free) \notin Held
          BY <4>2 DEF Held, Listed
        <4> QED
          BY <1>0, <4>1, <4>3 DEF SlotInv
      <3> QED
        BY <1>5, <3>1, <3>2
    <2> QED
      BY <1>5, <1>a, <2>2, <2>3 DEF ReplyInv
  <1>6. CASE platform = "posix" /\ UNCHANGED winVars /\ (SendFailed \/ SendBusy)
    <2>1. inbox' = inbox /\ replied' = replied /\ sentAt' = sentAt /\ next < Count
      BY <1>6 DEF SendFailed, SendBusy, MaySend
    <2>2. Report({next}, FALSE) \/ alive' = alive
      BY <1>6, Zenon DEF SendFailed, SendBusy
    <2>3. \A h \in Hosts : alive'[h] => alive[h]
      BY <2>2, ReportFacts DEF Types
    <2> QED
      BY <1>6, <1>a, <2>1, <2>3 DEF ReplyInv
  <1>7. CASE platform = "windows" /\ WinSendFinished
    <2>1. /\ free # <<>> /\ slotHost' = [slotHost EXCEPT ![Head(free)] = next] /\ completed' = completed
          /\ inbox' = inbox /\ pc = "send" /\ next < Count /\ next' = next + 1 /\ inFlight' = inFlight
      BY <1>7 DEF WinSendFinished, WinMaySend
    <2>2. PICK up \in BOOLEAN : Skips(up) /\ (up => replied' = replied \cup {next}) /\ (~up => replied' = replied)
      <3>1. \/ Report({next}, TRUE) /\ sentAt' = [sentAt EXCEPT ![next] = now] /\ replied' = replied \cup {next}
            \/ Report({next}, FALSE) /\ sentAt' = sentAt /\ replied' = replied
        BY <1>7, Zenon DEF WinSendFinished
      <3> QED
        BY <2>1, <3>1, Zenon DEF Skips
    <2>3. /\ next \in Hosts /\ alive'[next] = up
          /\ sentAt'[next] = now \/ (sentAt'[next] = Unset /\ up = FALSE)
          /\ \A h \in Hosts : h # next => sentAt'[h] = sentAt[h] /\ alive'[h] = alive[h]
      BY <2>2, SkipsFacts
    <2>4. \A h \in Hosts : alive'[h] => h \in replied' /\ sentAt'[h] # Unset
      BY <1>0, <1>a, <2>2, <2>3
    <2>5. \A sl \in Slots : completed[sl] # "none" => slotHost'[sl] = slotHost[sl]
      <3>1. Len(free) \in Nat /\ Len(free) >= 1 /\ Head(free) = free[1]
        BY <1>0, <2>1, TailFacts, Zenon
      <3>2. Head(free) \notin Held
        BY <3>1 DEF Held, Listed
      <3> QED
        BY <1>0, <2>1, <3>2 DEF SlotInv
    <2> QED
      BY <1>a, <2>1, <2>2, <2>4, <2>5 DEF ReplyInv
  <1>8. CASE platform = "posix" /\ UNCHANGED winVars /\ (Reply \/ Stray)
    <2>1. /\ UNCHANGED <<alive, sentAt, completed, slotHost>>
          /\ \/ \E h \in Hosts : inbox' = inbox \cup {<<h, "own">>} /\ replied' = replied \cup {h}
             \/ \E h \in Hosts : inbox' = inbox \cup {<<h, "other">>} /\ replied' = replied
      BY <1>8 DEF Reply, Stray
    <2>2. \A h \in Hosts : <<h, "own">> \in inbox' => h \in replied'
      BY <1>a, <2>1
    <2>3. replied \subseteq replied'
      BY <2>1
    <2> QED
      BY <1>a, <2>1, <2>2, <2>3 DEF ReplyInv
  <1>9. CASE platform = "windows" /\ Complete
    <2>1. PICK sl \in Slots :
            \/ completed' = [completed EXCEPT ![sl] = "reply"] /\ replied' = replied \cup {slotHost[sl]}
            \/ completed' = [completed EXCEPT ![sl] = "other"] /\ replied' = replied
      BY <1>9, Zenon DEF Complete
    <2>2. UNCHANGED <<alive, sentAt, inbox, slotHost>>
      BY <1>9 DEF Complete
    <2>3. \A r \in Slots : completed'[r] = "reply" => slotHost[r] \in replied'
      BY <1>0, <1>a, <2>1
    <2> QED
      BY <1>a, <2>1, <2>2, <2>3 DEF ReplyInv
  <1>10. CASE UNCHANGED winVars /\ (Open \/ Leave \/ Sleep \/ PollEmpty \/ Tick \/ StopRequest \/ UNCHANGED vars)
    <2>1. Quiet /\ UNCHANGED <<inbox, replied, completed, slotHost>>
      BY <1>10 DEF Open, Leave, Sleep, PollEmpty, Tick, StopRequest, vars, Quiet
    <2> QED
      BY <1>1, <2>1
  <1>11. CASE WinLook \/ WinLeave \/ WinSleep \/ WinWaitEnds \/ WinTick
    <2>1. Quiet /\ UNCHANGED <<inbox, replied, completed, slotHost>>
      BY <1>11 DEF WinLook, WinLeave, WinSleep, WinWaitEnds, WinTick, Tick, Quiet
    <2> QED
      BY <1>1, <2>1
  <1>12. CASE platform = "posix" /\ UNCHANGED winVars /\ SendOk
    <2>1. Sends /\ UNCHANGED <<inbox, replied, completed, slotHost>>
      BY <1>12 DEF SendOk, MaySend, Advance, Sends
    <2> QED
      BY <1>5, <1>12, <2>1
  <1>13. CASE platform = "windows" /\ WinSend
    <2>1. Sends /\ UNCHANGED <<inbox, replied, completed>>
      BY <1>13 DEF WinSend, WinMaySend, Sends
    <2> QED
      BY <1>5, <1>13, <2>1
  <1> QED
    BY <1>2, <1>3, <1>4, <1>6, <1>7, <1>8, <1>9, <1>10, <1>11, <1>12, <1>13, NextCases

-----------------------------------------------------------------------------
(* Time. *)

LEMMA AirFacts ==
  ASSUME Types, HostInv
  PROVE  /\ \A h \in Hosts : sentAt[h] \in Nat \cup {Unset}
         /\ \A h \in Air : h \in Hosts /\ h \in Nat /\ sentAt[h] # Unset /\ sentAt[h] \in Nat /\ h < next
  <1>1. next \in Nat /\ \A h \in Hosts : h \in Nat /\ sentAt[h] \in Nat \cup {Unset}
    BY HostFacts DEF Types, LoopTypeOK, HostTypeOK
  <1>2. \A h \in Air : h \in Hosts /\ sentAt[h] # Unset /\ state[h] = "inFlight"
    BY DEF Air, HostInv
  <1>3. \A h \in Air : ~(h >= next)
    BY <1>2 DEF HostInv
  <1> QED
    BY <1>1, <1>2, <1>3

(* Which host's sentAt a step writes, and how the clock moves. *)
LEMMA TimeSteps ==
  ASSUME Types, HostInv, SlotInv, OrderInv, [SweepNext]_bothVars
  PROVE  \/ sentAt' = sentAt /\ now' = now /\ clock' \in {clock, clock + 1} /\ pc # "send" /\ pc' # "send"
         \/ sentAt' = sentAt /\ now' = clock /\ clock' = clock
         \/ /\ next < Count /\ pc = "send" /\ now' = now /\ clock' = clock
            /\ sentAt' = [sentAt EXCEPT ![next] = now] \/ sentAt' = sentAt
  <1> USE DEF sweepVars, sendVars, worldVars, winVars, posixOnly
  <1>1. CASE Look \/ WinLook
    BY <1>1 DEF Look, WinLook
  <1>2. CASE SendOk \/ SendFailed \/ SendBusy \/ WinSend \/ WinSendFinished
    <2>1. next < Count /\ pc = "send" /\ now' = now /\ clock' = clock
      BY <1>2 DEF SendOk, SendFailed, SendBusy, WinSend, WinSendFinished, MaySend, WinMaySend
    <2>2. sentAt' = [sentAt EXCEPT ![next] = now] \/ sentAt' = sentAt
      BY <1>2 DEF SendOk, SendFailed, SendBusy, WinSend, WinSendFinished
    <2> QED
      BY <2>1, <2>2
  <1>3. CASE Leave \/ Sleep \/ WinLeave \/ WinSleep
    BY <1>3 DEF Leave, Sleep, WinLeave, WinSleep, OrderInv
  <1>4. CASE PollEmpty \/ Drain \/ Tick \/ Reply \/ Stray \/ OnReply \/ WinWaitEnds \/ WinTick \/ Complete \/ Open
    BY <1>4 DEF PollEmpty, Drain, Tick, Reply, Stray, OnReply, WinWaitEnds, WinTick, Complete, Open
  <1>5. CASE StopRequest \/ UNCHANGED vars
    <2>1. sentAt' = sentAt /\ now' = now /\ clock' = clock /\ pc' = pc
      BY <1>5 DEF StopRequest, vars
    <2> QED
      BY <2>1 DEF OrderInv
  <1> QED
    BY <1>1, <1>2, <1>3, <1>4, <1>5, NextCases

LEMMA OrderNext ==
  ASSUME Types, HostInv, SlotInv, OrderInv, [SweepNext]_bothVars
  PROVE  OrderInv'
  <1>0. /\ now \in Nat /\ clock \in Nat /\ next \in Nat /\ now <= clock /\ now # Unset
        /\ \A h \in Hosts : h \in Nat /\ sentAt[h] \in Nat \cup {Unset}
        /\ \A h \in Hosts : sentAt[h] # Unset => sentAt[h] <= now
        /\ \A h, k \in Hosts : h < k /\ sentAt[h] # Unset /\ sentAt[k] # Unset => sentAt[h] <= sentAt[k]
        /\ sentAt \in [Hosts -> Nat \cup {Unset}]
    <2>1. /\ now \in Nat /\ clock \in Nat /\ next \in Nat /\ now # Unset /\ \A h \in Hosts : h \in Nat
      BY HostFacts DEF Types, LoopTypeOK
    <2>2. sentAt \in [Hosts -> Nat \cup {Unset}]
      BY DEF Types, HostTypeOK
    <2>3. /\ now <= clock
          /\ \A h \in Hosts : sentAt[h] # Unset => sentAt[h] <= now
          /\ \A h, k \in Hosts : h < k /\ sentAt[h] # Unset /\ sentAt[k] # Unset => sentAt[h] <= sentAt[k]
      BY DEF OrderInv
    <2> QED
      BY <2>1, <2>2, <2>3
  <1>1. CASE sentAt' = sentAt /\ now' = now /\ clock' \in {clock, clock + 1} /\ pc # "send" /\ pc' # "send"
    BY <1>0, <1>1 DEF OrderInv
  <1>2. CASE sentAt' = sentAt /\ now' = clock /\ clock' = clock
    <2>1. \A h \in Hosts : sentAt[h] # Unset => sentAt[h] <= clock
      BY <1>0
    <2> QED
      BY <1>0, <1>2, <2>1 DEF OrderInv
  <1>3. CASE /\ next < Count /\ pc = "send" /\ now' = now /\ clock' = clock
             /\ sentAt' = [sentAt EXCEPT ![next] = now]
    <2>1. next \in Hosts /\ sentAt'[next] = now /\ \A h \in Hosts : h # next => sentAt'[h] = sentAt[h]
      BY <1>0, <1>3, HostFacts
    <2>2. \A h \in Hosts : h > next => sentAt[h] = Unset
      BY <1>0 DEF HostInv
    <2>3. \A h \in Hosts : sentAt'[h] # Unset => sentAt'[h] <= now
      BY <1>0, <2>1
    <2>4. ASSUME NEW h \in Hosts, NEW k \in Hosts, h < k, sentAt'[h] # Unset, sentAt'[k] # Unset
          PROVE  sentAt'[h] <= sentAt'[k]
      <3>1. h # next
        BY <2>1, <2>2, <2>4, <1>0
      <3>2. CASE k = next
        BY <1>0, <2>1, <2>3, <2>4, <3>1, <3>2
      <3>3. CASE k # next
        BY <1>0, <2>1, <2>4, <3>1, <3>3
      <3> QED
        BY <3>2, <3>3
    <2>5. now' <= clock' /\ now' = clock'
      BY <1>0, <1>3 DEF OrderInv
    <2> QED
      BY <1>3, <2>3, <2>4, <2>5 DEF OrderInv
  <1>4. CASE sentAt' = sentAt /\ pc = "send" /\ now' = now /\ clock' = clock
    BY <1>0, <1>4 DEF OrderInv
  <1> QED
    BY <1>1, <1>2, <1>3, <1>4, TimeSteps

LEMMA PosixTimeNext ==
  ASSUME Types, HostInv, SlotInv, OrderInv, platform = "posix", PosixTime, [SweepNext]_bothVars
  PROVE  PosixTime'
  <1> USE DEF sweepVars, sendVars, worldVars, winVars, posixOnly
  <1>0. /\ now \in Nat /\ clock \in Nat /\ wake \in Nat /\ next \in Nat /\ oldest \in Nat /\ oldest <= next
        /\ Timeout \in Nat /\ Timeout >= 1
    BY HostFacts DEF Types, LoopTypeOK
  <1>1. \A h \in Air : h \in Hosts /\ h \in Nat /\ sentAt[h] # Unset /\ sentAt[h] \in Nat /\ h < next /\ oldest <= h
    BY AirFacts DEF PosixTime
  <1>2. CASE Look
    <2>0. PICK w : w = Walked(clock)
      OBVIOUS
    <2>1. /\ w \in oldest..next
          /\ w = next \/ (state[w] = "inFlight" /\ clock < sentAt[w] + Timeout)
      BY <1>0, <2>0, WalkedFacts, Zenon
    <2>2. Lands(Flying(oldest..(w - 1)), FALSE) /\ oldest' = w /\ now' = clock /\ pc' = "send"
      BY <1>2, <2>0, LookLands
    <2>3. Air' = Air \ Flying(oldest..(w - 1)) /\ sentAt' = sentAt
      BY <2>2, LandsFacts
    <2>4. ASSUME NEW h \in Air' PROVE w <= h /\ clock < sentAt[h] + Timeout
      <3>1. h \in Air /\ h \notin Flying(oldest..(w - 1)) /\ state[h] = "inFlight"
        BY <2>3 DEF Air
      <3>2. h \in Nat /\ h < next /\ oldest <= h /\ h \in Hosts /\ sentAt[h] \in Nat /\ sentAt[h] # Unset
        BY <1>1, <3>1
      <3>3. h \notin oldest..(w - 1)
        BY <3>1 DEF Flying
      <3>4. w <= h
        BY <1>0, <2>1, <3>2, <3>3
      <3>5. w < next /\ w \in Nat
        BY <1>0, <2>1, <3>2, <3>4
      <3>6. w \in Hosts
        BY <3>2, <3>4, <3>5, HostFacts
      <3>7. w \in Air /\ clock < sentAt[w] + Timeout
        BY <1>0, <2>1, <3>5, <3>6 DEF Air
      <3>8. sentAt[w] \in Nat /\ sentAt[w] # Unset
        BY <1>1, <3>7
      <3>9. sentAt[w] <= sentAt[h]
        <4>1. CASE w = h
          BY <3>2, <4>1
        <4>2. CASE w < h
          BY <3>2, <3>6, <3>8, <4>2 DEF OrderInv
        <4> QED
          BY <3>2, <3>4, <3>5, <4>1, <4>2
      <3> QED
        BY <1>0, <3>2, <3>4, <3>7, <3>8, <3>9
    <2> QED
      BY <2>2, <2>3, <2>4 DEF PosixTime
  <1>3. CASE SendOk
    <2>1. Sends /\ oldest' = oldest /\ now' = now /\ pc' = "send" /\ pc = "send"
      BY <1>3 DEF SendOk, MaySend, Advance, Sends
    <2>2. /\ next \in Hosts /\ next \notin Air /\ Air' = Air \cup {next} /\ sentAt'[next] = now
          /\ \A h \in Hosts : h # next => sentAt'[h] = sentAt[h]
      BY <2>1, SendsFacts
    <2>3. \A h \in Air : now < sentAt'[h] + Timeout /\ oldest <= h
      BY <1>1, <2>1, <2>2 DEF PosixTime
    <2> QED
      BY <1>0, <2>1, <2>2, <2>3 DEF PosixTime
  <1>4. CASE SendFailed \/ SendBusy
    <2>1. pc = "send" /\ pc' = "send" /\ oldest' = oldest /\ now' = now /\ sentAt' = sentAt /\ next < Count /\ inFlight' = inFlight
      BY <1>4 DEF SendFailed, SendBusy, MaySend
    <2>2. \/ state' = state
          \/ Report({next}, FALSE) /\ next' = next + 1
      BY <1>4, Zenon DEF SendFailed, SendBusy, Advance
    <2>3. Air' = Air
      <3>1. CASE state' = state
        BY <3>1 DEF Air
      <3>2. CASE Report({next}, FALSE) /\ next' = next + 1
        <4>1. Skips(FALSE)
          BY <2>1, <3>2, Zenon DEF Skips
        <4> QED
          BY <4>1, SkipsFacts
      <3> QED
        BY <2>2, <3>1, <3>2
    <2> QED
      BY <2>1, <2>3 DEF PosixTime
  <1>5. CASE Sleep
    <2>1. PICK wait \in Waits : wake' = now + wait
      BY <1>5 DEF Sleep
    <2>2. pc = "send" /\ pc' = "poll" /\ UNCHANGED <<now, clock, oldest, state, sentAt>>
      BY <1>5 DEF Sleep
    <2>3. Air' = Air
      BY <2>2 DEF Air
    <2>4. now = clock /\ \A h \in Air : now < sentAt[h] + Timeout
      BY <2>2 DEF OrderInv, PosixTime
    <2>5. oldest < next => oldest \in Hosts /\ sentAt[oldest] \in Nat \cup {Unset}
      <3>1. next <= Count
        BY <1>0, HostFacts DEF Types, LoopTypeOK
      <3> QED
        BY <1>0, <3>1, HostFacts, AirFacts
    <2>6. wait \in Nat
      BY <1>0, <2>1, <2>5, SweepAssumption DEF Waits
    <2>7. ASSUME NEW h \in Air, sentAt[oldest] # Unset PROVE now + wait <= sentAt[h] + Timeout
      <3>1. h \in Hosts /\ h \in Nat /\ sentAt[h] \in Nat /\ sentAt[h] # Unset /\ h < next /\ oldest <= h /\ oldest < next
        BY <1>0, <1>1
      <3>2. sentAt[oldest] \in Nat /\ oldest \in Hosts
        BY <2>5, <2>7, <3>1
      <3>3. sentAt[oldest] <= sentAt[h]
        <4>1. CASE oldest = h
          BY <3>1, <4>1
        <4>2. CASE oldest < h
          BY <2>7, <3>1, <3>2, <4>2 DEF OrderInv
        <4> QED
          BY <1>0, <3>1, <4>1, <4>2
      <3>4. wait = 1 \/ wait = IF sentAt[oldest] + Timeout > now THEN sentAt[oldest] + Timeout - now ELSE 0
        BY <1>0, <2>1, <2>7, <3>1 DEF Waits
      <3> QED
        BY <1>0, <2>4, <3>1, <3>2, <3>3, <3>4
    <2>8. clock' <= wake' + 1
      BY <1>0, <2>1, <2>2, <2>4, <2>6
    <2>9. \A h \in Air' : sentAt'[oldest'] = Unset \/ wake' <= sentAt'[h] + Timeout
      BY <2>1, <2>2, <2>3, <2>7
    <2> QED
      BY <1>1, <2>2, <2>3, <2>8, <2>9 DEF PosixTime
  <1>6. CASE Drain
    <2>1. PICK heard \in SUBSET inbox : Lands(Flying(Matched(heard)), TRUE)
      BY <1>6, DrainLands
    <2>2. Air' \subseteq Air
      BY <2>1, LandsFacts
    <2>3. pc' = "look" /\ oldest' = oldest
      BY <1>6 DEF Drain
    <2> QED
      BY <1>1, <2>2, <2>3 DEF PosixTime
  <1>7. CASE PollEmpty \/ Leave \/ Open
    <2>1. pc' \in {"look", "done"} /\ oldest' = oldest /\ state' = state
      BY <1>7 DEF PollEmpty, Leave, Open
    <2>2. Air' = Air
      BY <2>1 DEF Air
    <2> QED
      BY <1>1, <2>1, <2>2 DEF PosixTime
  <1>8. CASE Tick
    <2>1. pc' = "poll" /\ pc = "poll" /\ clock <= wake /\ clock' = clock + 1 /\ UNCHANGED <<wake, oldest, state, sentAt>>
      BY <1>8 DEF Tick
    <2>2. Air' = Air
      BY <2>1 DEF Air
    <2> QED
      BY <1>0, <2>1, <2>2 DEF PosixTime
  <1>9. CASE Reply \/ Stray \/ StopRequest \/ UNCHANGED vars
    <2>1. UNCHANGED <<pc, now, clock, wake, oldest, state, sentAt>>
      BY <1>9 DEF Reply, Stray, StopRequest, vars
    <2>2. Air' = Air
      BY <2>1 DEF Air
    <2> QED
      BY <2>1, <2>2 DEF PosixTime
  <1> QED
    BY <1>2, <1>3, <1>4, <1>5, <1>6, <1>7, <1>8, <1>9, NextCases

LEMMA WindowsTimeNext ==
  ASSUME Types, HostInv, SlotInv, OrderInv, platform = "windows", WindowsTime, [SweepNext]_bothVars
  PROVE  WindowsTime'
  <1> USE DEF sweepVars, sendVars, worldVars, winVars, posixOnly
  <1>0. clock \in Nat /\ now \in Nat /\ Timeout \in Nat /\ next \in Nat /\ completed \in [Slots -> {"none", "reply", "other"}]
    BY HostFacts DEF Types, LoopTypeOK, SlotTypeOK
  <1>1. \A h \in Air : h \in Hosts /\ sentAt[h] \in Nat /\ clock <= sentAt[h] + Timeout + 1
    BY AirFacts DEF WindowsTime
  <1>2. CASE WinSend
    <2>1. Sends /\ pc = "send" /\ clock' = clock
      BY <1>2 DEF WinSend, WinMaySend, Sends
    <2>2. /\ next \in Hosts /\ next \notin Air /\ Air' = Air \cup {next} /\ sentAt'[next] = now
          /\ \A h \in Hosts : h # next => sentAt'[h] = sentAt[h]
      BY <2>1, SendsFacts
    <2>3. now = clock
      BY <2>1 DEF OrderInv
    <2>4. clock <= sentAt'[next] + Timeout + 1
      BY <1>0, <2>2, <2>3
    <2> QED
      BY <1>1, <2>1, <2>2, <2>4 DEF WindowsTime
  <1>3. CASE WinSendFinished
    <2>1. clock' = clock /\ pc = "send" /\ next < Count /\ next' = next + 1 /\ inFlight' = inFlight
      BY <1>3 DEF WinSendFinished, WinMaySend
    <2>2. \/ Report({next}, TRUE) /\ sentAt' = [sentAt EXCEPT ![next] = now]
          \/ Report({next}, FALSE) /\ sentAt' = sentAt
      BY <1>3, Zenon DEF WinSendFinished
    <2>3. Skips(TRUE) \/ Skips(FALSE)
      BY <2>1, <2>2, Zenon DEF Skips
    <2>4. next \notin Air /\ Air' = Air /\ \A h \in Hosts : h # next => sentAt'[h] = sentAt[h]
      BY <2>3, SkipsFacts
    <2>5. \A h \in Air : sentAt'[h] = sentAt[h]
      BY <1>1, <2>4
    <2> QED
      BY <1>1, <2>1, <2>4, <2>5 DEF WindowsTime
  <1>4. CASE OnReply
    <2>1. PICK sl \in Slots : Lands({slotHost[sl]}, completed[sl] = "reply")
      BY <1>4, ReplyLands, Zenon
    <2>2. (completed[sl] = "reply") \in BOOLEAN
      OBVIOUS
    <2>3. Air' \subseteq Air /\ sentAt' = sentAt
      <3>1. Air' = Air \ {slotHost[sl]} /\ sentAt' = sentAt
        BY <2>1, <2>2, LandsFacts, Zenon
      <3> QED
        BY <3>1
    <2>4. clock' = clock
      BY <1>4 DEF OnReply
    <2> QED
      BY <1>1, <2>3, <2>4 DEF WindowsTime
  <1>5. CASE WinTick
    <2>1. /\ clock' = clock + 1 /\ UNCHANGED <<state, sentAt>>
          /\ \A sl \in Slots : completed[sl] = "none"
          /\ \A sl \in Slots : Pending(sl) => clock <= sentAt[slotHost[sl]] + Timeout
      BY <1>5 DEF WinTick, Tick
    <2>2. Air' = Air
      BY <2>1 DEF Air
    <2>3. ASSUME NEW h \in Air PROVE clock + 1 <= sentAt[h] + Timeout + 1
      <3>1. PICK sl \in Held : slotHost[sl] = h
        BY DEF SlotInv
      <3>2. sl \in Slots /\ sl \notin Listed
        BY DEF Held
      <3>3. DOMAIN free = 1..Len(free)
        BY DEF Types, SlotTypeOK
      <3>4. Pending(sl)
        BY <2>1, <3>2, <3>3 DEF Pending, Listed
      <3>5. clock <= sentAt[h] + Timeout
        BY <2>1, <3>1, <3>2, <3>4
      <3> QED
        BY <1>0, <1>1, <3>5
    <2> QED
      BY <2>1, <2>2, <2>3 DEF WindowsTime
  <1>6. CASE WinLook \/ WinLeave \/ WinSleep \/ WinWaitEnds \/ Complete \/ Open \/ StopRequest \/ UNCHANGED vars
    <2>1. UNCHANGED <<clock, state, sentAt>>
      BY <1>6 DEF WinLook, WinLeave, WinSleep, WinWaitEnds, Complete, Open, StopRequest, vars
    <2>2. Air' = Air
      BY <2>1 DEF Air
    <2> QED
      BY <2>1, <2>2 DEF WindowsTime
  <1> QED
    BY <1>2, <1>3, <1>4, <1>5, <1>6, NextCases

-----------------------------------------------------------------------------
(* The inductive invariant. *)

IInv == Types /\ HostInv /\ SlotInv /\ EndInv /\ ReplyInv /\ TimeInv /\ BusyInv

LEMMA InitIInv == WinInit => IInv
  <1> SUFFICES ASSUME WinInit PROVE IInv
    OBVIOUS
  <1>1. PICK n \in Nat : Slots = 1..n /\ Cardinality(Slots) = n
    BY SlotsFacts
  <1>2. /\ free = [k \in Slots |-> Cardinality(Slots) + 1 - k] /\ slotHost = [sl \in Slots |-> Unset]
        /\ completed = [sl \in Slots |-> "none"] /\ woken = FALSE /\ platform \in Platforms
    BY DEF WinInit
  <1>3. free = [k \in 1..n |-> n + 1 - k]
    BY <1>1, <1>2
  <1>4. free \in Seq(1..n) /\ Len(free) = n /\ (\A k \in 1..n : free[k] = n + 1 - k)
    <2>1. \A k \in 1..n : n + 1 - k \in 1..n
      OBVIOUS
    <2>2. free \in [1..n -> 1..n]
      BY <1>3, <2>1
    <2> QED
      BY <1>3, <2>2
  <1>5. SlotTypeOK
    <2>1. platform \in {"posix", "windows"}
      BY <1>2, WindowsAssumption
    <2>2. /\ slotHost \in [Slots -> Hosts \cup {Unset}] /\ completed \in [Slots -> {"none", "reply", "other"}]
          /\ woken \in BOOLEAN
      BY <1>2
    <2> QED
      BY <1>1, <1>4, <2>1, <2>2 DEF SlotTypeOK
  <1>6. /\ pc = "open" /\ result = "running" /\ now = 0 /\ wake = 0 /\ clock = 0 /\ next = 0 /\ oldest = 0
        /\ inFlight = 0 /\ stopped = FALSE /\ busy = FALSE /\ stopReq = FALSE
        /\ busySince = Unset /\ fullFrom = Unset
    BY DEF WinInit, Init
  <1>7. LoopTypeOK
    <2>1. next \in 0..Count /\ oldest \in 0..next
      BY <1>6, HostFacts
    <2>2. stopped \in BOOLEAN /\ busy \in BOOLEAN /\ stopReq \in BOOLEAN
      BY <1>6
    <2> QED
      BY <1>6, <2>1, <2>2 DEF LoopTypeOK
  <1>8. /\ state = [h \in Hosts |-> "waiting"] /\ sentAt = [h \in Hosts |-> Unset]
        /\ reports = [h \in Hosts |-> 0] /\ inbox = {} /\ replied = {} /\ refused = {}
    BY DEF WinInit, Init
  <1>9. alive = [h \in Hosts |-> FALSE] /\ alive \in [Hosts -> BOOLEAN] /\ \A h \in Hosts : ~alive[h]
    BY Zenon DEF WinInit, Init
  <1>10. HostTypeOK
    BY <1>8, <1>9 DEF HostTypeOK
  <1>11. Air = {}
    BY <1>8 DEF Air
  <1>12. HostInv
    <2>1. Cardinality(Air) = 0
      BY <1>11, FS_EmptySet
    <2>2. \A h \in Hosts : h \in Nat /\ ~(h < 0)
      BY HostFacts
    <2> QED
      BY <1>6, <1>8, <1>11, <2>1, <2>2, SweepAssumption DEF HostInv
  <1>13. Held = {}
    <2>1. \A sl \in 1..n : n + 1 - sl \in 1..n /\ n + 1 - (n + 1 - sl) = sl
      OBVIOUS
    <2>2. \A sl \in 1..n : free[n + 1 - sl] = sl /\ n + 1 - sl \in 1..Len(free)
      BY <1>4, <2>1
    <2>3. \A sl \in 1..n : sl \in Listed
      BY <2>2 DEF Listed
    <2> QED
      BY <1>1, <2>3 DEF Held
  <1>14. SlotInv
    <2>1. \A k, m \in 1..Len(free) : free[k] = free[m] => k = m
      BY <1>4
    <2>2. {slotHost[sl] : sl \in Held} = Air
      BY <1>11, <1>13
    <2> QED
      BY <1>2, <1>13, <2>1, <2>2 DEF SlotInv
  <1>15. EndInv /\ BusyInv
    BY <1>6 DEF EndInv, BusyInv
  <1>16. ReplyInv
    BY <1>2, <1>8, <1>9 DEF ReplyInv
  <1>17. TimeInv
    BY <1>6, <1>8, <1>11 DEF TimeInv, OrderInv, PosixTime, WindowsTime
  <1> QED
    BY <1>5, <1>7, <1>10, <1>12, <1>14, <1>15, <1>16, <1>17 DEF IInv, Types

LEMMA StepIInv == IInv /\ [SweepNext]_bothVars => IInv'
  <1> SUFFICES ASSUME IInv, [SweepNext]_bothVars PROVE IInv'
    OBVIOUS
  <1>1. Types /\ HostInv /\ SlotInv /\ EndInv /\ ReplyInv /\ TimeInv /\ BusyInv
    BY DEF IInv
  <1>2. LoopTypeOK' /\ HostTypeOK'
    BY <1>1, LoopTypesNext, HostTypesNext
  <1>3. SlotTypeOK' /\ SlotInv'
    BY <1>1, SlotsNext
  <1>4. HostInv' /\ EndInv' /\ ReplyInv' /\ BusyInv'
    BY <1>1, HostNext, EndNext, ReplyNext, BusyNext
  <1>5. OrderInv'
    BY <1>1, OrderNext DEF TimeInv
  <1>6. platform' = platform
    BY <1>1, StepKinds
  <1>7. (platform = "posix" => PosixTime') /\ (platform = "windows" => WindowsTime')
    BY <1>1, PosixTimeNext, WindowsTimeNext DEF TimeInv
  <1>8. TimeInv'
    BY <1>5, <1>6, <1>7 DEF TimeInv
  <1> QED
    BY <1>2, <1>3, <1>4, <1>8 DEF IInv, Types

(* The inductive invariant holds throughout. *)
LEMMA Invariance == SweepSpec => []IInv
  BY InitIInv, StepIInv, PTL DEF SweepSpec

-----------------------------------------------------------------------------
(* The properties. *)

(* As many slots are in use as the free list is short of, and as many as
   hosts are in flight. *)
LEMMA HeldCount ==
  ASSUME Types, SlotInv, platform = "windows"
  PROVE  /\ Cardinality(Held) = Cardinality(Slots) - Len(free) /\ Cardinality(Air) = Cardinality(Held)
         /\ Cardinality(Held) <= MaxInFlight
  <1>1. PICK n \in Nat : Slots = 1..n /\ n <= MaxInFlight /\ IsFiniteSet(Slots) /\ Cardinality(Slots) = n
    BY SlotsFacts
  <1>2. free \in Seq(Slots) /\ Len(free) \in Nat /\ \A k \in 1..Len(free) : free[k] \in Slots
    BY DEF Types, SlotTypeOK
  <1>3. Listed \subseteq Slots
    BY <1>2 DEF Listed
  <1>4. Cardinality(Listed) = Len(free)
    <2> DEFINE f == [k \in 1..Len(free) |-> free[k]]
    <2>1. f \in Bijection(1..Len(free), Listed)
      <3>1. f \in [1..Len(free) -> Listed] /\ \A x \in Listed : \E k \in 1..Len(free) : f[k] = x
        BY DEF Listed
      <3>2. \A k, m \in 1..Len(free) : f[k] = f[m] => k = m
        BY DEF SlotInv
      <3> QED
        BY <3>1, <3>2 DEF Bijection, Injection, Surjection, IsInjective
    <2>2. ExistsBijection(1..Len(free), Listed)
      BY <2>1 DEF ExistsBijection
    <2> QED
      BY <1>2, <2>2, FS_CountingElements
  <1>5. /\ IsFiniteSet(Held) /\ Cardinality(Held) = Cardinality(Slots) - Cardinality(Listed)
    <2>1. Slots \cap Listed = Listed
      BY <1>3
    <2>2. IsFiniteSet(Slots \ Listed) /\ Cardinality(Slots \ Listed) = Cardinality(Slots) - Cardinality(Slots \cap Listed)
      BY <1>1, FS_Difference
    <2> QED
      BY <2>1, <2>2 DEF Held
  <1>6. Cardinality(Air) = Cardinality(Held)
    <2> DEFINE f == [sl \in Held |-> slotHost[sl]]
    <2>1. f \in Bijection(Held, Air)
      <3>1. f \in [Held -> Air] /\ \A x \in Air : \E sl \in Held : f[sl] = x
        BY DEF SlotInv
      <3>2. \A sl, r \in Held : f[sl] = f[r] => sl = r
        BY DEF SlotInv
      <3> QED
        BY <3>1, <3>2 DEF Bijection, Injection, Surjection, IsInjective
    <2>2. ExistsBijection(Held, Air)
      BY <2>1 DEF ExistsBijection
    <2> QED
      BY <1>5, <2>2, FS_Bijection
  <1>7. Cardinality(Held) <= MaxInFlight
    BY <1>1, <1>2, <1>4, <1>5, SweepAssumption
  <1> QED
    BY <1>4, <1>5, <1>6, <1>7

(* The variables keep their types, and no more echoes are in flight than
   max_in_flight. *)
THEOREM TypeCorrect == SweepSpec => []TypeOK
  <1>1. IInv => TypeOK
    <2> SUFFICES ASSUME IInv PROVE TypeOK
      OBVIOUS
    <2>1. Types /\ HostInv /\ SlotInv
      BY DEF IInv
    <2>2. inFlight = Cardinality(Air) /\ inFlight \in Nat /\ (platform = "posix" => inFlight <= MaxInFlight)
      BY <2>1, AirFinite DEF HostInv
    <2>3. platform = "windows" => inFlight <= MaxInFlight
      BY <2>1, <2>2, HeldCount
    <2>4. inFlight \in Int /\ inFlight <= MaxInFlight
      BY <2>1, <2>2, <2>3 DEF Types, SlotTypeOK
    <2> QED
      BY <2>1, <2>4 DEF Types, LoopTypeOK, HostTypeOK, TypeOK
  <1> QED
    BY <1>1, Invariance, PTL

(* in_flight counts the echoes waited for, and on Windows every slot is in
   the free list once or the reply buffer of one host in flight. *)
THEOREM SlotsTheorem == SweepSpec => []SlotsIntact
  <1>1. IInv => SlotsIntact
    <2> SUFFICES ASSUME IInv PROVE SlotsIntact
      OBVIOUS
    <2>1. Types /\ HostInv /\ SlotInv
      BY DEF IInv
    <2>2. inFlight = Cardinality(Air)
      BY <2>1 DEF HostInv
    <2>3. DOMAIN free = 1..Len(free)
      BY <2>1 DEF Types, SlotTypeOK
    <2>4. Held = Slots \ {free[k] : k \in DOMAIN free}
      BY <2>3 DEF Held, Listed
    <2>5. platform = "windows" =>
            /\ Cardinality(Held) = Cardinality(Slots) - Len(free) /\ inFlight = Cardinality(Held)
            /\ Air = {slotHost[sl] : sl \in Held}
      BY <2>1, <2>2, HeldCount DEF SlotInv
    <2> QED
      BY <2>2, <2>4, <2>5 DEF SlotsIntact, Air
  <1> QED
    BY <1>1, Invariance, PTL

(* pinged is called once for every host the sweep got to, for no other, and
   the sweep gets to all of them unless stopped or never started. *)
THEOREM OnceTheorem == SweepSpec => []EachHostOnce
  <1>1. IInv => EachHostOnce
    <2> SUFFICES ASSUME IInv PROVE EachHostOnce
      OBVIOUS
    <2>1. Types /\ HostInv /\ EndInv
      BY DEF IInv
    <2>2. next \in Nat /\ Count \in Nat /\ \A h \in Hosts : h \in Nat
      BY <2>1, HostFacts DEF Types, LoopTypeOK
    <2>3. /\ \A h \in Hosts : reports[h] = IF state[h] = "reported" THEN 1 ELSE 0
          /\ \A h \in Hosts : h >= next => state[h] = "waiting"
          /\ \A h \in Hosts : h < next => state[h] # "waiting"
      BY <2>1 DEF HostInv
    <2>4. \A h \in Hosts : state[h] \in {"waiting", "inFlight", "reported"}
      BY <2>1 DEF Types, HostTypeOK
    <2>5. \A h \in Hosts : reports[h] <= 1 /\ (reports[h] = 1 => h < next)
      BY <2>2, <2>3
    <2>6. ASSUME pc = "done"
          PROVE  /\ \A h \in Hosts : reports[h] = 1 <=> h < next
                 /\ next = Count \/ stopped \/ (result # "done" /\ next = 0)
      <3>1. CASE result # "done" /\ next = 0
        BY <2>2, <2>5, <3>1
      <3>2. CASE result = "done" /\ inFlight = 0 /\ (stopped \/ next = Count)
        <4>1. Air = {}
          BY <2>1, <3>2, AirFinite, FS_EmptySet DEF HostInv
        <4>2. \A h \in Hosts : state[h] # "inFlight"
          BY <4>1 DEF Air
        <4> QED
          BY <2>3, <2>4, <2>5, <3>2, <4>2
      <3> QED
        BY <2>1, <2>6, <3>1, <3>2 DEF EndInv
    <2> QED
      BY <2>5, <2>6 DEF EachHostOnce
  <1> QED
    BY <1>1, Invariance, PTL

(* A host counts as up only if it answered an echo of this very sweep. *)
THEOREM AliveTheorem == SweepSpec => []AliveMeansReplied
  <1>1. IInv => AliveMeansReplied
    BY DEF IInv, ReplyInv, AliveMeansReplied
  <1> QED
    BY <1>1, Invariance, PTL

(* Only behind a host no echo left for may the loop sleep past the end of a
   wait. *)
THEOREM OversleepTheorem == SweepSpec => []OversleepsOnlyBehindUnsent
  <1>1. IInv => OversleepsOnlyBehindUnsent
    <2> SUFFICES ASSUME IInv, NEW h \in Hosts, pc = "poll", state[h] = "inFlight",
                        clock > sentAt[h] + Timeout + 1
                 PROVE  sentAt[oldest] = Unset
      BY DEF OversleepsOnlyBehindUnsent
    <2>1. Types /\ HostInv /\ TimeInv /\ h \in Air
      BY DEF IInv, Air
    <2>2. clock \in Nat /\ wake \in Nat /\ Timeout \in Nat /\ sentAt[h] \in Nat
      BY <2>1, AirFacts, HostFacts DEF Types, LoopTypeOK
    <2>3. CASE platform = "posix"
      <3>1. clock <= wake + 1 /\ (sentAt[oldest] = Unset \/ wake <= sentAt[h] + Timeout)
        BY <2>1, <2>3 DEF TimeInv, PosixTime
      <3> QED
        BY <2>2, <3>1
    <2>4. CASE platform = "windows"
      <3>1. clock <= sentAt[h] + Timeout + 1
        BY <2>1, <2>4 DEF TimeInv, WindowsTime
      <3> QED
        BY <2>2, <3>1
    <2> QED
      BY <2>1, <2>3, <2>4 DEF Types, SlotTypeOK
  <1> QED
    BY <1>1, Invariance, PTL

LEMMA DownStep ==
  ASSUME Types, HostInv, SlotInv, BusyInv, [SweepNext]_bothVars,
         NEW h \in Hosts, reports'[h] # reports[h], ~alive'[h], sentAt[h] = Unset, h \notin refused'
  PROVE  h = next /\ fullFrom # Unset /\ now - fullFrom >= GiveUp
  <1> USE DEF sweepVars, sendVars, worldVars, winVars, posixOnly
  <1>0. now \in Nat /\ GiveUp \in Nat /\ GiveUp >= 1 /\ busySince = fullFrom /\ HostTypeOK
    BY SweepAssumption DEF Types, LoopTypeOK, BusyInv
  <1>1. ASSUME NEW S, NEW up \in BOOLEAN, Lands(S, up) PROVE FALSE
    <2>1. S \subseteq Air /\ (h \notin S => reports'[h] = reports[h])
      BY <1>1, LandsFacts
    <2> QED
      BY <2>1 DEF HostInv
  <1>2. CASE platform = "posix" /\ UNCHANGED winVars /\ Look
    BY <1>1, <1>2, LookLands
  <1>3. CASE platform = "posix" /\ UNCHANGED winVars /\ Drain
    BY <1>1, <1>3, DrainLands
  <1>4. CASE platform = "windows" /\ OnReply
    <2>1. \A sl : (completed[sl] = "reply") \in BOOLEAN
      OBVIOUS
    <2> QED
      BY <1>1, <1>4, <2>1, ReplyLands
  <1>5. ASSUME NEW up \in BOOLEAN, Report({next}, up) PROVE h = next /\ alive'[h] = up
    <2>1. h \notin {next} => reports'[h] = reports[h]
      BY <1>0, <1>5, ReportFacts
    <2>2. h \in {next} => alive'[h] = up
      BY <1>0, <1>5, ReportFacts
    <2> QED
      BY <2>1, <2>2
  <1>6. CASE SendFailed
    <2>1. Report({next}, FALSE) /\ refused' = refused \cup {next}
      BY <1>6, Zenon DEF SendFailed
    <2> QED
      BY <1>5, <2>1
  <1>7. CASE SendBusy
    <2>1. \/ reports' = reports
          \/ Report({next}, FALSE) /\ ~(now - (IF busySince = Unset THEN now ELSE busySince) < GiveUp)
      BY <1>7, Zenon DEF SendBusy
    <2>2. Report({next}, FALSE) /\ ~(now - (IF busySince = Unset THEN now ELSE busySince) < GiveUp)
      BY <2>1
    <2>3. busySince # Unset
      BY <1>0, <2>2
    <2>4. busySince \in Nat
      BY <2>3 DEF Types, LoopTypeOK
    <2>5. h = next
      BY <1>5, <2>2
    <2>6. now - busySince >= GiveUp
      BY <1>0, <2>2, <2>3, <2>4
    <2> QED
      BY <1>0, <2>3, <2>5, <2>6
  <1>8. CASE WinSendFinished
    <2>1. \/ Report({next}, TRUE)
          \/ Report({next}, FALSE) /\ refused' = refused \cup {next}
      BY <1>8, Zenon DEF WinSendFinished
    <2> QED
      BY <1>5, <2>1
  <1>9. CASE \/ SendOk \/ Leave \/ Sleep \/ PollEmpty \/ Tick \/ Reply \/ Stray \/ Open \/ StopRequest
             \/ UNCHANGED vars \/ WinLook \/ WinSend \/ WinLeave \/ WinSleep \/ WinWaitEnds \/ WinTick \/ Complete
    <2>1. reports' = reports
      BY <1>9 DEF SendOk, Leave, Sleep, PollEmpty, Tick, Reply, Stray, Open, StopRequest, vars,
                  WinLook, WinSend, WinLeave, WinSleep, WinWaitEnds, WinTick, Complete
    <2> QED
      BY <2>1
  <1> QED
    BY <1>2, <1>3, <1>4, <1>6, <1>7, <1>8, <1>9, NextCases

(* Without an echo a host is reported down only when the kernel refuses it,
   or after this very host has found every socket full for the whole
   patience. *)
THEOREM DownTheorem == SweepSpec => DownWithoutEcho
  <1>1. IInv /\ [SweepNext]_bothVars =>
          [\A h \in Hosts :
             reports'[h] # reports[h] /\ ~alive'[h] /\ sentAt[h] = Unset /\ h \notin refused'
               => h = next /\ fullFrom # Unset /\ now - fullFrom >= GiveUp]_vars
    BY DownStep DEF IInv
  <1> QED
    BY <1>1, Invariance, PTL DEF SweepSpec, DownWithoutEcho
==============================================================================
