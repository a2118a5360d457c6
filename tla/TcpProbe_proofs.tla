--------------------------- MODULE TcpProbe_proofs ---------------------------
(***************************************************************************)
(* Proofs about the Windows connects, for any number of targets, handles   *)
(* and connects in flight: handles are neither leaked nor closed under     *)
(* another connect, every verdict was earned by the job it is of, and each *)
(* job is reported once.                                                   *)
(***************************************************************************)
EXTENDS TcpProbe, FiniteSetTheorems, TLAPS

(* The arrays are parallel, no longer than Flight allows, and the walk
   stands within them. *)
Slotted ==
  /\ Len(jobs) <= Capacity /\ (pc = "collect" => k <= Len(jobs))

(* Each slot has the handle of its own job's connect, no job has two slots,
   and every open handle is in a slot. *)
Wired ==
  /\ \A i \in 1..Len(jobs) : conn[socks[i]] = jobs[i]
  /\ \A i, m \in 1..Len(jobs) : jobs[i] = jobs[m] => i = m
  /\ \A h \in Handles : conn[h] # NoJob => \E i \in 1..Len(jobs) : socks[i] = h

(* A job is to be started, in flight or reported; only a shortage is said
   of one that is not done. *)
Unreported ==
  /\ \A i \in 1..Len(jobs) : jobs[i] \notin todo /\ verdict[jobs[i]] = "none"
  /\ \A j \in todo : verdict[j] \in {"none", "noSocket", "noAddress"} /\ j \notin seen

(* What select marked has an end, and what it saw succeed is marked. *)
Marked ==
  \A i \in 1..Len(jobs) :
    /\ settled[i] => state[jobs[i]] \in {"connected", "refused", "failed"}
    /\ jobs[i] \in seen => settled[i] /\ state[jobs[i]] = "connected"

(* Away from this machine a connect that succeeds has met a listener. *)
Met == \A j \in Jobs : state[j] = "connected" /\ ~own => met[j] = "listener"

(* The inductive invariant. *)
IInv == TypeOK /\ Slotted /\ Wired /\ Unreported /\ Marked /\ Met /\ VerdictEarned

-----------------------------------------------------------------------------
(* Sequences. *)

(* Where the element now in place m was before slot d of n was removed. *)
Source(m, d, n) == IF m = d THEN n ELSE m

(* Swap-remove: one shorter, and the last element in the freed place. *)
LEMMA SwapRemoveFacts ==
  ASSUME NEW T, NEW s \in Seq(T), NEW d \in 1..Len(s)
  PROVE  /\ SwapRemove(s, d) \in Seq(T) /\ Len(SwapRemove(s, d)) = Len(s) - 1
         /\ \A m \in 1..(Len(s) - 1) : SwapRemove(s, d)[m] = s[Source(m, d, Len(s))]
  <1> DEFINE n == Len(s)
             t == [s EXCEPT ![d] = s[n]]
  <1>1. /\ n \in Nat /\ t \in Seq(T) /\ Len(t) = n
        /\ \A m \in 1..n : t[m] = IF m = d THEN s[n] ELSE s[m]
    OBVIOUS
  <1>2. SwapRemove(s, d) = SubSeq(t, 1, n - 1)
    BY DEF SwapRemove
  <1> HIDE DEF t
  <1>3. /\ SubSeq(t, 1, n - 1) \in Seq(T) /\ Len(SubSeq(t, 1, n - 1)) = n - 1
        /\ \A m \in 1..(n - 1) : SubSeq(t, 1, n - 1)[m] = t[m]
    BY <1>1
  <1> QED
    BY <1>1, <1>2, <1>3 DEF Source

(* Every slot but the removed one is the source of exactly one. *)
LEMMA SourceFacts ==
  ASSUME NEW n \in Nat, NEW d \in 1..n
  PROVE  /\ \A i \in 1..(n - 1) : Source(i, d, n) \in 1..n /\ Source(i, d, n) # d
         /\ \A i, m \in 1..(n - 1) : Source(i, d, n) = Source(m, d, n) => i = m
         /\ \A m \in 1..n : m # d => \E i \in 1..(n - 1) : Source(i, d, n) = m
  <1>1. ASSUME NEW m \in 1..n, m # d PROVE \E i \in 1..(n - 1) : Source(i, d, n) = m
    <2>1. CASE m = n
      BY <1>1, <2>1 DEF Source
    <2>2. CASE m # n
      BY <1>1, <2>2 DEF Source
    <2> QED
      BY <2>1, <2>2
  <1> QED
    BY <1>1 DEF Source

(* Append: one longer, the old elements in place. *)
LEMMA AppendFacts ==
  ASSUME NEW T, NEW s \in Seq(T), NEW e \in T
  PROVE  /\ Append(s, e) \in Seq(T) /\ Len(Append(s, e)) = Len(s) + 1
         /\ Append(s, e)[Len(s) + 1] = e
         /\ \A m \in 1..Len(s) : Append(s, e)[m] = s[m]
  OBVIOUS

-----------------------------------------------------------------------------
(* Steps. *)

(* Nothing is in flight, nothing reported. *)
LEMMA InitIInv == Init => IInv
  <1> SUFFICES ASSUME Init PROVE IInv
    OBVIOUS
  <1>1. Len(jobs) = 0 /\ Len(socks) = 0 /\ Len(settled) = 0
    BY DEF Init
  <1>2. TypeOK
    <2>1. own \in BOOLEAN
      BY DEF Init
    <2>2. settled \in Seq(BOOLEAN) /\ socks \in Seq(Handles) /\ jobs \in Seq(Jobs)
      BY DEF Init
    <2>3. verdict \in [Jobs -> Verdicts]
      BY DEF Init, Verdicts
    <2> QED
      BY <1>1, <2>1, <2>2, <2>3, ProbeAssumption DEF Init, TypeOK
  <1>3. Slotted /\ Wired /\ Marked
    BY <1>1, ProbeAssumption DEF Init, Slotted, Wired, Marked
  <1>4. Unreported /\ Met /\ VerdictEarned
    BY <1>1 DEF Init, Unreported, Met, VerdictEarned
  <1> QED
    BY <1>2, <1>3, <1>4 DEF IInv

(* The handles open are the slots': one each. *)
LEMMA WiredConserves == TypeOK /\ Wired => HandlesConserved
  <1> SUFFICES ASSUME TypeOK, Wired PROVE HandlesConserved
    OBVIOUS
  <1> DEFINE n == Len(jobs)
             open == Handles \ Free
             f == [i \in 1..n |-> socks[i]]
  <1>1. /\ n \in Nat /\ DOMAIN jobs = 1..n /\ Len(socks) = n
        /\ \A i \in 1..n : jobs[i] \in Jobs /\ socks[i] \in Handles
    BY DEF TypeOK
  <1>2. \A i \in 1..n : conn[socks[i]] = jobs[i] /\ socks[i] \in open
    BY <1>1, ProbeAssumption DEF Wired, Free
  <1>3. f \in Injection(1..n, open)
    <2>1. f \in [1..n -> open]
      BY <1>2
    <2>2. \A a, b \in 1..n : f[a] = f[b] => a = b
      BY <1>2 DEF Wired
    <2> QED
      BY <2>1, <2>2 DEF Injection, IsInjective
  <1>4. f \in Surjection(1..n, open)
    <2>1. f \in [1..n -> open]
      BY <1>2
    <2>2. \A h \in open : \E i \in 1..n : f[i] = h
      BY DEF Wired, Free
    <2> QED
      BY <2>1, <2>2 DEF Surjection
  <1>5. Cardinality(open) = n
    <2>1. ExistsBijection(1..n, open)
      BY <1>3, <1>4 DEF ExistsBijection, Bijection
    <2> QED
      BY <1>1, <2>1, FS_CountingElements
  <1> QED
    BY <1>1, <1>2, <1>5 DEF HandlesConserved

(* What start does with a socket it closes again. *)
LEMMA ClosedAgain ==
  ASSUME TypeOK, NEW h \in Free, NEW j
  PROVE  Closed([conn EXCEPT ![h] = j], h, j) = conn
  BY DEF TypeOK, Free, Closed

(* Every end has a state and whom it met; away from this machine only a
   listener is met. *)
LEMMA EndsFacts ==
  ASSUME NEW j, NEW e \in Ends(j)
  PROVE  /\ e[1] \in {"connected", "refused", "failed"}
         /\ e[2] \in {"nobody", "listener", "itself", "other"}
         /\ e[1] = "connected" /\ ~own => e[2] = "listener"
         /\ e[1] = "connected" => e[2] \in {"listener", "itself", "other"}
  BY DEF Ends

(* A shortage says nothing final and leaves no handle open. *)
LEMMA StartShortStep == ASSUME IInv, NEW j \in Jobs, StartShort(j) PROVE IInv'
  <1>1. conn' = conn
    BY ClosedAgain DEF IInv, StartShort
  <1>2. PICK short \in {"noSocket", "noAddress"} : verdict' = [verdict EXCEPT ![j] = short]
    BY DEF StartShort
  <1>3. /\ UNCHANGED <<pc, todo, jobs, socks, settled, k, expired, own, listens, state, met, seen>>
        /\ j \in todo
    BY DEF StartShort, flight, MayStart
  <1>4. /\ verdict' \in [Jobs -> Verdicts] /\ verdict'[j] = short
        /\ \A m \in Jobs : m # j => verdict'[m] = verdict[m]
    BY <1>2 DEF IInv, TypeOK, Verdicts
  <1>5. TypeOK'
    BY <1>1, <1>3, <1>4 DEF IInv, TypeOK
  <1>6. Slotted' /\ Wired' /\ Marked' /\ Met'
    BY <1>1, <1>3 DEF IInv, Slotted, Wired, Marked, Met
  <1>7. Unreported'
    <2>1. \A i \in 1..Len(jobs) : jobs[i] \in Jobs /\ jobs[i] # j
      BY <1>3 DEF IInv, TypeOK, Unreported
    <2>2. \A m \in todo : m \in Jobs
      BY DEF IInv, TypeOK
    <2> QED
      BY <1>3, <1>4, <2>1, <2>2 DEF IInv, Unreported
  <1>8. VerdictEarned'
    BY <1>3, <1>4 DEF IInv, VerdictEarned
  <1> QED
    BY <1>5, <1>6, <1>7, <1>8 DEF IInv

(* A connect that settles at once is reported by what it came to, and its
   handle is free again. *)
LEMMA StartDoneStep == ASSUME IInv, NEW j \in Jobs, StartDone(j) PROVE IInv'
  <1>1. PICK h \in Free, e \in Ends(j) :
          /\ state' = [state EXCEPT ![j] = e[1]] /\ met' = [met EXCEPT ![j] = e[2]]
          /\ verdict' = [verdict EXCEPT ![j] = IF e[1] = "connected" THEN Connected(e[1], e[2])
                                                                     ELSE Classify(e[1])]
          /\ conn' = Closed([conn EXCEPT ![h] = j], h, j)
    BY DEF StartDone
  <1>2. /\ UNCHANGED <<pc, jobs, socks, settled, k, expired, own, listens, seen>>
        /\ j \in todo /\ todo' = todo \ {j}
    BY DEF StartDone, flight, MayStart
  <1>3. conn' = conn
    BY <1>1, ClosedAgain DEF IInv
  <1>4. /\ e[1] \in {"connected", "refused", "failed"}
        /\ e[2] \in {"nobody", "listener", "itself", "other"}
        /\ e[1] = "connected" /\ ~own => e[2] = "listener"
        /\ e[1] = "connected" => e[2] \in {"listener", "itself", "other"}
    BY <1>1, EndsFacts
  <1>5. /\ state'[j] = e[1] /\ met'[j] = e[2]
        /\ \A m \in Jobs : m # j => state'[m] = state[m] /\ met'[m] = met[m]
    BY <1>1 DEF IInv, TypeOK
  <1>6. /\ e[1] = "connected" => verdict'[j] = Connected(e[1], e[2])
        /\ e[1] # "connected" => verdict'[j] = Classify(e[1])
        /\ \A m \in Jobs : m # j => verdict'[m] = verdict[m]
    BY <1>1 DEF IInv, TypeOK
  <1>7. verdict'[j] \in {"open", "refused", "filtered", "unconfirmed"}
    BY <1>6 DEF Connected, Classify
  <1>8. TypeOK'
    <2>1. verdict' \in [Jobs -> Verdicts]
      BY <1>1, <1>6, <1>7 DEF IInv, TypeOK, Verdicts
    <2>2. /\ state' \in [Jobs -> {"idle", "connecting", "connected", "refused", "failed"}]
          /\ met' \in [Jobs -> {"nobody", "listener", "itself", "other"}]
      BY <1>1, <1>4 DEF IInv, TypeOK
    <2> QED
      BY <1>2, <1>3, <2>1, <2>2 DEF IInv, TypeOK
  <1>9. \A i \in 1..Len(jobs) : jobs[i] \in Jobs /\ jobs[i] # j
    BY <1>2 DEF IInv, TypeOK, Unreported
  <1>10. Slotted' /\ Wired'
    BY <1>2, <1>3 DEF IInv, Slotted, Wired
  <1>11. Marked'
    BY <1>2, <1>5, <1>9 DEF IInv, Marked
  <1>12. Unreported'
    BY <1>2, <1>6, <1>9 DEF IInv, TypeOK, Unreported
  <1>13. Met'
    BY <1>2, <1>4, <1>5 DEF IInv, Met
  <1>14. VerdictEarned'
    <2>1. ASSUME NEW m \in Jobs, m # j
          PROVE  VerdictEarned!(m)'
      BY <1>2, <1>5, <1>6, <2>1 DEF IInv, VerdictEarned
    <2>2. /\ verdict'[j] = "open" => state'[j] = "connected" /\ met'[j] = "listener" /\ ~own
          /\ verdict'[j] = "refused" => state'[j] = "refused" \/ met'[j] = "itself"
          /\ verdict'[j] = "filtered" => state'[j] # "refused"
      BY <1>4, <1>5, <1>6 DEF Connected, Classify
    <2>3. j \notin seen
      BY <1>2 DEF IInv, Unreported
    <2> QED
      BY <1>2, <2>1, <2>2, <2>3 DEF VerdictEarned
  <1> QED
    BY <1>8, <1>10, <1>11, <1>12, <1>13, <1>14 DEF IInv

(* A connect in flight gets the slot after the last and a handle no other
   has. *)
LEMMA StartPendingStep == ASSUME IInv, NEW j \in Jobs, StartPending(j) PROVE IInv'
  <1>1. PICK h \in Free : conn' = [conn EXCEPT ![h] = j] /\ socks' = Append(socks, h)
    BY DEF StartPending
  <1>2. /\ UNCHANGED <<pc, k, expired, own, listens, met, seen>>
        /\ pc = "fill" /\ j \in todo /\ todo' = todo \ {j} /\ Len(jobs) < Capacity
        /\ jobs' = Append(jobs, j) /\ settled' = Append(settled, FALSE)
        /\ state' = [state EXCEPT ![j] = "connecting"]
        /\ verdict' = [verdict EXCEPT ![j] = "none"]
    BY DEF StartPending, MayStart
  <1>3. h \in Handles /\ conn[h] = NoJob
    BY DEF Free
  <1> DEFINE n == Len(jobs)
  <1>4. /\ n \in Nat /\ Len(socks) = n /\ Len(settled) = n
        /\ \A i \in 1..n : jobs[i] \in Jobs /\ jobs[i] # j /\ socks[i] \in Handles
    BY <1>2 DEF IInv, TypeOK, Unreported
  <1>5. /\ jobs' \in Seq(Jobs) /\ Len(jobs') = n + 1 /\ jobs'[n + 1] = j
        /\ \A i \in 1..n : jobs'[i] = jobs[i]
    BY <1>2, AppendFacts DEF IInv, TypeOK
  <1>6. /\ socks' \in Seq(Handles) /\ Len(socks') = n + 1 /\ socks'[n + 1] = h
        /\ \A i \in 1..n : socks'[i] = socks[i]
    BY <1>1, <1>3, <1>4, AppendFacts DEF IInv, TypeOK
  <1>7. /\ settled' \in Seq(BOOLEAN) /\ Len(settled') = n + 1 /\ settled'[n + 1] = FALSE
        /\ \A i \in 1..n : settled'[i] = settled[i]
    <2>1. PICK no : no = FALSE
      OBVIOUS
    <2>2. no \in BOOLEAN /\ settled' = Append(settled, no)
      BY <1>2, <2>1
    <2>3. /\ settled' \in Seq(BOOLEAN) /\ Len(settled') = n + 1 /\ settled'[n + 1] = no
          /\ \A i \in 1..n : settled'[i] = settled[i]
      BY <1>4, <2>2, AppendFacts DEF IInv, TypeOK
    <2> QED
      BY <2>1, <2>3
  <1>8. /\ conn' \in [Handles -> Jobs \cup {NoJob}] /\ conn'[h] = j
        /\ \A g \in Handles : g # h => conn'[g] = conn[g]
    BY <1>1, <1>3 DEF IInv, TypeOK
  <1>9. /\ state' \in [Jobs -> {"idle", "connecting", "connected", "refused", "failed"}]
        /\ state'[j] = "connecting" /\ \A m \in Jobs : m # j => state'[m] = state[m]
    BY <1>2 DEF IInv, TypeOK
  <1>10. /\ verdict' \in [Jobs -> Verdicts]
         /\ verdict'[j] = "none" /\ \A m \in Jobs : m # j => verdict'[m] = verdict[m]
    BY <1>2 DEF IInv, TypeOK, Verdicts
  <1>11. TypeOK'
    BY <1>2, <1>5, <1>6, <1>7, <1>8, <1>9, <1>10 DEF IInv, TypeOK
  <1>12. Slotted'
    BY <1>2, <1>4, <1>5, ProbeAssumption DEF Slotted
  <1>13. \A i \in 1..n : socks[i] # h
    BY <1>3, <1>4, ProbeAssumption DEF IInv, Wired
  <1>14. Wired'
    <2>1. \A i \in 1..(n + 1) : conn'[socks'[i]] = jobs'[i]
      BY <1>4, <1>5, <1>6, <1>8, <1>13 DEF IInv, Wired
    <2>2. \A i, m \in 1..(n + 1) : jobs'[i] = jobs'[m] => i = m
      BY <1>4, <1>5 DEF IInv, Wired
    <2>3. ASSUME NEW g \in Handles, conn'[g] # NoJob
          PROVE  \E i \in 1..(n + 1) : socks'[i] = g
      <3>1. CASE g = h
        BY <1>4, <1>6, <3>1
      <3>2. CASE g # h
        BY <1>4, <1>6, <1>8, <2>3, <3>2 DEF IInv, Wired
      <3> QED
        BY <3>1, <3>2
    <2> QED
      BY <1>5, <2>1, <2>2, <2>3 DEF Wired
  <1>15. Unreported'
    <2>1. \A i \in 1..(n + 1) : jobs'[i] \notin todo' /\ verdict'[jobs'[i]] = "none"
      BY <1>2, <1>4, <1>5, <1>10 DEF IInv, Unreported
    <2>2. \A m \in todo' : verdict'[m] \in {"none", "noSocket", "noAddress"} /\ m \notin seen
      BY <1>2, <1>10 DEF IInv, TypeOK, Unreported
    <2> QED
      BY <1>2, <1>5, <2>1, <2>2 DEF Unreported
  <1>16. Marked'
    <2>1. j \notin seen
      BY <1>2 DEF IInv, Unreported
    <2>2. ASSUME NEW i \in 1..(n + 1)
          PROVE  /\ settled'[i] => state'[jobs'[i]] \in {"connected", "refused", "failed"}
                 /\ jobs'[i] \in seen => settled'[i] /\ state'[jobs'[i]] = "connected"
      <3>1. CASE i = n + 1
        BY <1>5, <1>7, <2>1, <3>1
      <3>2. CASE i \in 1..n
        BY <1>4, <1>5, <1>7, <1>9, <3>2 DEF IInv, Marked
      <3> QED
        BY <1>4, <3>1, <3>2
    <2> QED
      BY <1>2, <1>5, <2>2 DEF Marked
  <1>17. Met'
    BY <1>2, <1>9 DEF IInv, Met
  <1>18. VerdictEarned'
    BY <1>2, <1>9, <1>10 DEF IInv, VerdictEarned
  <1> QED
    BY <1>11, <1>12, <1>14, <1>15, <1>16, <1>17, <1>18 DEF IInv

(* The loop goes on to wait, or round; a deadline passes. *)
LEMMA ControlStep ==
  ASSUME IInv, Filled \/ Collected \/ Expire \/ UNCHANGED vars
  PROVE  IInv'
  <1>1. /\ UNCHANGED <<todo, jobs, socks, settled, k, verdict, own, listens, conn, state, met, seen>>
        /\ pc' = pc \/ (pc' \in {"wait", "fill"})
        /\ expired' \subseteq Jobs
    BY DEF Filled, Collected, Expire, vars, flight, kernel, IInv, TypeOK
  <1>2. TypeOK'
    BY <1>1 DEF IInv, TypeOK
  <1>3. Slotted'
    BY <1>1 DEF IInv, Slotted
  <1>4. Wired' /\ Unreported' /\ Marked' /\ Met' /\ VerdictEarned'
    BY <1>1 DEF IInv, Wired, Unreported, Marked, Met, VerdictEarned
  <1> QED
    BY <1>2, <1>3, <1>4 DEF IInv

(* select's answer, or none, is about the connects in flight. *)
LEMMA WaitStep == ASSUME IInv, WaitReady \/ WaitNothing PROVE IInv'
  <1> DEFINE n == Len(jobs)
  <1>1. /\ UNCHANGED <<todo, jobs, socks, verdict, expired, own, listens, conn, state, met>>
        /\ pc' = "collect" /\ k' = n
    BY DEF WaitReady, WaitNothing, Collecting, kernel
  <1>2. /\ n \in Nat /\ n <= Capacity /\ Len(socks) = n
        /\ \A i \in 1..n : /\ jobs[i] \in Jobs /\ socks[i] \in Handles
                           /\ conn[socks[i]] = jobs[i]
    BY DEF IInv, TypeOK, Slotted, Wired
  <1>3. /\ settled' \in Seq(BOOLEAN) /\ Len(settled') = n
        /\ \A i \in 1..n : settled'[i] => state[jobs[i]] \in {"connected", "refused", "failed"}
        /\ \A i \in 1..n : jobs[i] \in seen' => settled'[i] /\ state[jobs[i]] = "connected"
        /\ \A m \in seen' : \E i \in 1..n : m = jobs[i]
    <2>0. DOMAIN socks = 1..n /\ \A h \in Range(socks) : \E i \in 1..n : h = socks[i]
      BY <1>2 DEF IInv, TypeOK, Range
    <2>1. CASE WaitReady
      <3>1. /\ settled' = [i \in 1..n |-> socks[i] \in Writable \cup Failed]
            /\ seen' = {conn[h] : h \in Writable}
        BY <2>0, <2>1 DEF WaitReady
      <3>2. settled' \in Seq(BOOLEAN) /\ Len(settled') = n
        <4> DEFINE mark(i) == socks[i] \in Writable \cup Failed
        <4>1. \A i \in 1..n : mark(i) \in BOOLEAN
          OBVIOUS
        <4>2. settled' = [i \in 1..n |-> mark(i)]
          BY <3>1
        <4> HIDE DEF mark
        <4> QED
          BY <1>2, <4>1, <4>2
      <3>3. \A i \in 1..n : settled'[i] <=> socks[i] \in Writable \cup Failed
        BY <3>1
      <3>4. \A i \in 1..n : settled'[i] => state[jobs[i]] \in {"connected", "refused", "failed"}
        BY <1>2, <3>3 DEF Writable, Failed
      <3>5. \A h \in Writable : \E i \in 1..n : h = socks[i] /\ conn[h] = jobs[i] /\ state[jobs[i]] = "connected"
        BY <1>2, <2>0 DEF Writable
      <3>6. ASSUME NEW i \in 1..n, jobs[i] \in seen' PROVE settled'[i] /\ state[jobs[i]] = "connected"
        <4>1. PICK h \in Writable : jobs[i] = conn[h]
          BY <3>1, <3>6
        <4>2. PICK m \in 1..n : h = socks[m] /\ conn[h] = jobs[m] /\ state[jobs[m]] = "connected"
          BY <3>5
        <4>3. m = i
          BY <4>1, <4>2 DEF IInv, Wired
        <4> QED
          BY <3>3, <4>1, <4>2, <4>3
      <3> QED
        BY <3>1, <3>2, <3>4, <3>5, <3>6
    <2>2. CASE WaitNothing
      <3>1. settled' = [i \in 1..n |-> FALSE] /\ seen' = {}
        BY <2>0, <2>2 DEF WaitNothing
      <3>2. settled' \in Seq(BOOLEAN) /\ Len(settled') = n /\ \A i \in 1..n : ~settled'[i]
        <4>1. PICK no : no = FALSE
          OBVIOUS
        <4>2. no \in BOOLEAN /\ settled' = [i \in 1..n |-> no]
          BY <3>1, <4>1
        <4>3. settled' \in Seq(BOOLEAN) /\ Len(settled') = n /\ \A i \in 1..n : settled'[i] = no
          BY <1>2, <4>2
        <4> QED
          BY <4>1, <4>3
      <3> QED
        BY <3>1, <3>2
    <2> QED
      BY <2>1, <2>2
  <1>4. TypeOK'
    <2>1. seen' \subseteq Jobs
      BY <1>2, <1>3
    <2>2. k' \in 0..Capacity
      BY <1>1, <1>2, ProbeAssumption
    <2> QED
      BY <1>1, <1>3, <2>1, <2>2 DEF IInv, TypeOK
  <1>5. Slotted' /\ Wired' /\ Met'
    BY <1>1, <1>2 DEF IInv, Slotted, Wired, Met
  <1>6. Marked'
    BY <1>1, <1>3 DEF Marked
  <1>7. \A m \in seen' : m \notin todo /\ verdict[m] = "none"
    BY <1>3 DEF IInv, Unreported
  <1>8. Unreported'
    BY <1>1, <1>7 DEF IInv, Unreported
  <1>9. VerdictEarned'
    BY <1>1, <1>7 DEF IInv, VerdictEarned
  <1> QED
    BY <1>4, <1>5, <1>6, <1>8, <1>9 DEF IInv

(* The kernel settles a connect whose handle is open, hence in a slot and
   not reported. *)
LEMMA SettleStep == ASSUME IInv, Settle PROVE IInv'
  <1>0. PICK h \in Handles \ Free : \E e \in Ends(conn[h]) :
          /\ state[conn[h]] = "connecting"
          /\ state' = [state EXCEPT ![conn[h]] = e[1]]
          /\ met' = [met EXCEPT ![conn[h]] = e[2]]
    BY DEF Settle
  <1>1. PICK e \in Ends(conn[h]) :
          /\ state[conn[h]] = "connecting"
          /\ state' = [state EXCEPT ![conn[h]] = e[1]]
          /\ met' = [met EXCEPT ![conn[h]] = e[2]]
    BY <1>0
  <1>2. UNCHANGED <<pc, todo, jobs, socks, settled, k, verdict, expired, own, listens, conn, seen>>
    BY DEF Settle, flight
  <1>3. PICK i \in 1..Len(jobs) : socks[i] = h /\ conn[h] = jobs[i]
    BY <1>1 DEF IInv, Wired, Free
  <1> DEFINE j == jobs[i]
  <1>4. j \in Jobs /\ j \notin todo /\ verdict[j] = "none"
    BY DEF IInv, TypeOK, Unreported
  <1>5. /\ e[1] \in {"connected", "refused", "failed"}
        /\ e[2] \in {"nobody", "listener", "itself", "other"}
        /\ e[1] = "connected" /\ ~own => e[2] = "listener"
    BY <1>1, EndsFacts
  <1>6. /\ state' \in [Jobs -> {"idle", "connecting", "connected", "refused", "failed"}]
        /\ met' \in [Jobs -> {"nobody", "listener", "itself", "other"}]
        /\ state'[j] = e[1] /\ met'[j] = e[2]
        /\ \A m \in Jobs : m # j => state'[m] = state[m] /\ met'[m] = met[m]
    BY <1>1, <1>3, <1>4, <1>5 DEF IInv, TypeOK
  <1>7. TypeOK'
    BY <1>2, <1>6 DEF IInv, TypeOK
  <1>8. Slotted' /\ Wired' /\ Unreported'
    BY <1>2 DEF IInv, Slotted, Wired, Unreported
  <1>9. Marked'
    <2>1. ~settled[i] /\ j \notin seen
      BY <1>1, <1>3 DEF IInv, Marked
    <2>2. \A m \in 1..Len(jobs) : m # i => jobs[m] \in Jobs /\ jobs[m] # j
      BY DEF IInv, TypeOK, Wired
    <2> QED
      BY <1>2, <1>6, <2>1, <2>2 DEF IInv, Marked
  <1>10. Met'
    BY <1>2, <1>5, <1>6 DEF IInv, Met
  <1>11. VerdictEarned'
    BY <1>2, <1>4, <1>6 DEF IInv, VerdictEarned
  <1> QED
    BY <1>7, <1>8, <1>9, <1>10, <1>11 DEF IInv

(* Removing slot d, whose handle is closed, leaves the others wired: the
   last slot moves into its place with its job, its handle and its mark. *)
LEMMA RemoveSlot ==
  ASSUME IInv, NEW d \in 1..Len(jobs),
         jobs' = SwapRemove(jobs, d), socks' = SwapRemove(socks, d),
         settled' = SwapRemove(settled, d), conn' = Closed(conn, socks[d], jobs[d])
  PROVE  /\ jobs' \in Seq(Jobs) /\ socks' \in Seq(Handles) /\ settled' \in Seq(BOOLEAN)
         /\ Len(jobs') = Len(jobs) - 1 /\ Len(socks') = Len(jobs') /\ Len(settled') = Len(jobs')
         /\ conn' \in [Handles -> Jobs \cup {NoJob}] /\ Wired'
         /\ \A i \in 1..Len(jobs') : \E m \in 1..Len(jobs) :
              m # d /\ jobs'[i] = jobs[m] /\ settled'[i] = settled[m]
  <1>1. PICK n \in Nat :
          /\ n > 0 /\ d \in 1..n /\ Len(jobs) = n /\ Len(socks) = n
          /\ Len(settled) = n /\ jobs \in Seq(Jobs) /\ socks \in Seq(Handles)
          /\ settled \in Seq(BOOLEAN)
    BY DEF IInv, TypeOK
  <1>2. /\ jobs' \in Seq(Jobs) /\ Len(jobs') = n - 1
        /\ \A i \in 1..(n - 1) : jobs'[i] = jobs[Source(i, d, n)]
    <2>1. jobs \in Seq(Jobs) /\ d \in 1..Len(jobs)
      BY <1>1
    <2>2. /\ SwapRemove(jobs, d) \in Seq(Jobs) /\ Len(SwapRemove(jobs, d)) = Len(jobs) - 1
          /\ \A i \in 1..(Len(jobs) - 1) : SwapRemove(jobs, d)[i] = jobs[Source(i, d, Len(jobs))]
      BY <2>1, SwapRemoveFacts
    <2> QED
      BY <1>1, <2>2
  <1>3. /\ socks' \in Seq(Handles) /\ Len(socks') = n - 1
        /\ \A i \in 1..(n - 1) : socks'[i] = socks[Source(i, d, n)]
    <2>1. socks \in Seq(Handles) /\ d \in 1..Len(socks)
      BY <1>1
    <2>2. /\ SwapRemove(socks, d) \in Seq(Handles) /\ Len(SwapRemove(socks, d)) = Len(socks) - 1
          /\ \A i \in 1..(Len(socks) - 1) : SwapRemove(socks, d)[i] = socks[Source(i, d, Len(socks))]
      BY <2>1, SwapRemoveFacts
    <2> QED
      BY <1>1, <2>2
  <1>4. /\ settled' \in Seq(BOOLEAN) /\ Len(settled') = n - 1
        /\ \A i \in 1..(n - 1) : settled'[i] = settled[Source(i, d, n)]
    <2>1. settled \in Seq(BOOLEAN) /\ d \in 1..Len(settled)
      BY <1>1
    <2>2. /\ SwapRemove(settled, d) \in Seq(BOOLEAN) /\ Len(SwapRemove(settled, d)) = Len(settled) - 1
          /\ \A i \in 1..(Len(settled) - 1) : SwapRemove(settled, d)[i] = settled[Source(i, d, Len(settled))]
      BY <2>1, SwapRemoveFacts
    <2> QED
      BY <1>1, <2>2
  <1>5. \A i \in 1..(n - 1) : Source(i, d, n) \in 1..n /\ Source(i, d, n) # d
    BY <1>1, SourceFacts
  <1>6. \A i, m \in 1..(n - 1) : Source(i, d, n) = Source(m, d, n) => i = m
    BY <1>1, SourceFacts
  <1>7. \A m \in 1..n : m # d => \E i \in 1..(n - 1) : Source(i, d, n) = m
    BY <1>1, SourceFacts
  <1>8. /\ conn' \in [Handles -> Jobs \cup {NoJob}] /\ conn'[socks[d]] = NoJob
        /\ \A h \in Handles : h # socks[d] => conn'[h] = conn[h]
    BY <1>1 DEF IInv, TypeOK, Closed
  <1>9. \A i, m \in 1..n : /\ socks[i] \in Handles /\ conn[socks[i]] = jobs[i]
                           /\ jobs[i] = jobs[m] => i = m
    BY <1>1 DEF IInv, Wired
  <1>10. Wired'
    <2>1. \A i \in 1..(n - 1) : conn'[socks'[i]] = jobs'[i]
      <3> SUFFICES ASSUME NEW i \in 1..(n - 1) PROVE conn'[socks'[i]] = jobs'[i]
        OBVIOUS
      <3>1. PICK m \in 1..n : m = Source(i, d, n) /\ m # d
        BY <1>5
      <3>2. jobs'[i] = jobs[m] /\ socks'[i] = socks[m]
        BY <1>2, <1>3, <3>1
      <3>3. socks[m] \in Handles /\ socks[m] # socks[d]
        BY <1>1, <1>9, <3>1
      <3> QED
        BY <1>8, <1>9, <3>2, <3>3
    <2>2. \A i, m \in 1..(n - 1) : jobs'[i] = jobs'[m] => i = m
      BY <1>2, <1>5, <1>6, <1>9
    <2>3. ASSUME NEW h \in Handles, conn'[h] # NoJob
          PROVE  \E i \in 1..(n - 1) : socks'[i] = h
      <3>1. h # socks[d] /\ conn[h] # NoJob
        BY <1>8, <2>3
      <3>2. PICK m \in 1..n : socks[m] = h
        BY <1>1, <3>1 DEF IInv, Wired
      <3>3. PICK i \in 1..(n - 1) : Source(i, d, n) = m
        BY <1>7, <3>1, <3>2
      <3> QED
        BY <1>3, <3>2, <3>3
    <2> QED
      BY <1>2, <2>1, <2>2, <2>3 DEF Wired
  <1>11. ASSUME NEW i \in 1..(n - 1)
         PROVE  \E m \in 1..n : m # d /\ jobs'[i] = jobs[m] /\ settled'[i] = settled[m]
    <2>1. Source(i, d, n) \in 1..n /\ Source(i, d, n) # d
      BY <1>5
    <2>2. jobs'[i] = jobs[Source(i, d, n)] /\ settled'[i] = settled[Source(i, d, n)]
      BY <1>2, <1>4
    <2> QED
      BY <2>1, <2>2
  <1> QED
    BY <1>1, <1>2, <1>3, <1>4, <1>8, <1>10, <1>11

(* A slot that is done reports its own job's verdict and is removed. *)
LEMMA CollectStep == ASSUME IInv, Collect PROVE IInv'
  <1>1. /\ UNCHANGED <<pc, todo, expired, own, listens, state, met, seen>>
        /\ pc = "collect" /\ k > 0 /\ k' = k - 1
    BY DEF Collect
  <1>2. k \in 1..Len(jobs) /\ Len(jobs) <= Capacity /\ k' \in 0..Capacity /\ Len(jobs) \in Nat
    BY <1>1, ProbeAssumption DEF IInv, TypeOK, Slotted
  <1>3. CASE ~(settled[k] \/ jobs[k] \in expired)
    <2>1. UNCHANGED <<verdict, conn, jobs, socks, settled>>
      BY <1>3 DEF Collect, flight
    <2>2. TypeOK'
      BY <1>1, <1>2, <2>1 DEF IInv, TypeOK
    <2>3. Slotted'
      BY <1>1, <1>2, <2>1 DEF IInv, Slotted
    <2>4. Wired' /\ Unreported' /\ Marked' /\ Met' /\ VerdictEarned'
      BY <1>1, <2>1 DEF IInv, Wired, Unreported, Marked, Met, VerdictEarned
    <2> QED
      BY <2>2, <2>3, <2>4 DEF IInv
  <1>4. CASE settled[k] \/ jobs[k] \in expired
    <2> DEFINE j == jobs[k]
               v == Finish(j, settled[k])
    <2>1. j \in Jobs /\ conn[socks[k]] = j /\ j \notin todo /\ state[j] \in DOMAIN [s \in
            {"idle", "connecting", "connected", "refused", "failed"} |-> s]
      BY <1>2 DEF IInv, TypeOK, Wired, Unreported
    <2>2. /\ verdict' = [verdict EXCEPT ![j] = v]
          /\ conn' = Closed(conn, socks[k], jobs[k])
          /\ jobs' = SwapRemove(jobs, k) /\ socks' = SwapRemove(socks, k)
          /\ settled' = SwapRemove(settled, k)
      BY <1>4, <2>1 DEF Collect
    <2>3. /\ jobs' \in Seq(Jobs) /\ socks' \in Seq(Handles) /\ settled' \in Seq(BOOLEAN)
          /\ Len(jobs') = Len(jobs) - 1 /\ Len(socks') = Len(jobs') /\ Len(settled') = Len(jobs')
          /\ conn' \in [Handles -> Jobs \cup {NoJob}] /\ Wired'
          /\ \A i \in 1..Len(jobs') : \E m \in 1..Len(jobs) :
               m # k /\ jobs'[i] = jobs[m] /\ settled'[i] = settled[m]
      BY <1>2, <2>2, RemoveSlot
    <2>4. /\ settled[k] => state[j] \in {"connected", "refused", "failed"}
          /\ j \in seen => settled[k] /\ state[j] = "connected"
          /\ state[j] = "connected" /\ ~own => met[j] = "listener"
      BY <1>2, <2>1 DEF IInv, Marked, Met
    <2>5. /\ v \in {"open", "refused", "filtered", "unconfirmed"}
          /\ v = "open" => state[j] = "connected" /\ met[j] = "listener" /\ ~own
          /\ v = "refused" => state[j] = "refused" \/ met[j] = "itself"
          /\ v = "filtered" => state[j] # "refused" /\ j \notin seen
      BY <2>4 DEF Finish, Connected, Classify
    <2>6. /\ verdict' \in [Jobs -> Verdicts] /\ verdict'[j] = v
          /\ \A m \in Jobs : m # j => verdict'[m] = verdict[m]
      BY <2>1, <2>2, <2>5 DEF IInv, TypeOK, Verdicts
    <2> HIDE DEF v
    <2>7. TypeOK'
      BY <1>1, <1>2, <2>3, <2>6 DEF IInv, TypeOK
    <2>8. Slotted'
      BY <1>1, <1>2, <2>3, ProbeAssumption DEF Slotted
    <2>9. \A i \in 1..Len(jobs') : \E m \in 1..Len(jobs) :
            /\ jobs'[i] = jobs[m] /\ settled'[i] = settled[m]
            /\ jobs[m] \in Jobs /\ jobs[m] # j
      <3>1. \A m \in 1..Len(jobs) : m # k => jobs[m] \in Jobs /\ jobs[m] # j
        BY <1>2 DEF IInv, TypeOK, Wired
      <3> QED
        BY <2>3, <3>1
    <2>10. Unreported'
      <3>1. \A i \in 1..Len(jobs') : jobs'[i] \notin todo' /\ verdict'[jobs'[i]] = "none"
        BY <1>1, <2>6, <2>9 DEF IInv, Unreported
      <3>2. \A m \in todo' : verdict'[m] \in {"none", "noSocket", "noAddress"} /\ m \notin seen'
        BY <1>1, <2>1, <2>6 DEF IInv, TypeOK, Unreported
      <3> QED
        BY <3>1, <3>2 DEF Unreported
    <2>11. Marked' /\ Met'
      BY <1>1, <2>9 DEF IInv, Marked, Met
    <2>12. VerdictEarned'
      BY <1>1, <2>1, <2>5, <2>6 DEF IInv, VerdictEarned
    <2> QED
      BY <2>3, <2>7, <2>8, <2>10, <2>11, <2>12 DEF IInv
  <1> QED
    BY <1>3, <1>4

(* Every step keeps the invariant. *)
LEMMA NextIInv == IInv /\ [Next]_vars => IInv'
  BY StartShortStep, StartDoneStep, StartPendingStep, ControlStep, WaitStep, CollectStep,
     SettleStep DEF Next, Finished

(* So it holds throughout. *)
LEMMA Invariance == Spec => []IInv
  BY InitIInv, NextIInv, PTL DEF Spec

-----------------------------------------------------------------------------
(* Results. *)

(* The arrays behind tcp_probe.c's three calls keep their types, within the
   capacity of Flight, for any targets and handles. *)
THEOREM TypeCorrect == Spec => []TypeOK
  <1>1. IInv => TypeOK
    BY DEF IInv
  <1> QED
    BY <1>1, Invariance, PTL

(* No handle is leaked and none is closed under another connect, however
   Winsock reuses them: tcp_probe_start's early closes and the swap-remove
   of Flight leave exactly the handles of the connects in flight open. *)
THEOREM HandlesTheorem == Spec => []HandlesConserved
  <1>1. IInv => HandlesConserved
    BY WiredConserves DEF IInv
  <1> QED
    BY <1>1, Invariance, PTL

(* tcp_probe_finish gives every job a verdict its own connect earned. *)
THEOREM VerdictTheorem == Spec => []VerdictEarned
  <1>1. IInv => VerdictEarned
    BY DEF IInv
  <1> QED
    BY <1>1, Invariance, PTL

-----------------------------------------------------------------------------
(* Reports. *)

Reports == {"open", "refused", "filtered", "unconfirmed"}

InFlight == {jobs[i] : i \in 1..Len(jobs)}
Pending == todo \cup InFlight

(* A shortage or a start in flight: the job is still to be reported. A start
   that settles at once, or a slot collected: it is reported and gone. *)
LEMMA StartReports ==
  ASSUME IInv, NEW j \in Jobs, StartShort(j) \/ StartDone(j) \/ StartPending(j)
  PROVE  /\ j \in todo /\ (j \in Pending' \/ verdict'[j] \in Reports)
         /\ \A m \in Jobs : m # j => verdict'[m] = verdict[m] /\ (m \in Pending' <=> m \in Pending)
  <1>0. verdict \in [Jobs -> Verdicts] /\ jobs \in Seq(Jobs) /\ Len(jobs) \in Nat /\ todo \subseteq Jobs
    BY DEF IInv, TypeOK
  <1>1. j \in todo
    BY DEF StartShort, StartDone, StartPending, MayStart
  <1>2. CASE StartShort(j)
    <2>1. PICK short : verdict' = [verdict EXCEPT ![j] = short]
      BY <1>2 DEF StartShort
    <2>2. todo' = todo /\ jobs' = jobs
      BY <1>2 DEF StartShort, flight
    <2> QED
      BY <1>0, <1>1, <2>1, <2>2 DEF Pending, InFlight
  <1>3. CASE StartDone(j)
    <2>1. PICK e \in Ends(j) :
            verdict' = [verdict EXCEPT ![j] = IF e[1] = "connected" THEN Connected(e[1], e[2])
                                                                    ELSE Classify(e[1])]
      BY <1>3 DEF StartDone
    <2>2. verdict'[j] \in Reports
      BY <1>0, <2>1 DEF Connected, Classify, Reports
    <2>3. todo' = todo \ {j} /\ jobs' = jobs
      BY <1>3 DEF StartDone, flight
    <2> QED
      BY <1>0, <1>1, <2>1, <2>2, <2>3 DEF Pending, InFlight
  <1>4. CASE StartPending(j)
    <2>1. verdict' = [verdict EXCEPT ![j] = "none"] /\ todo' = todo \ {j} /\ jobs' = Append(jobs, j)
      BY <1>4 DEF StartPending
    <2>2. /\ Len(jobs') = Len(jobs) + 1 /\ jobs'[Len(jobs) + 1] = j
          /\ \A m \in 1..Len(jobs) : jobs'[m] = jobs[m]
      BY <1>0, <2>1, AppendFacts
    <2>3. 1..(Len(jobs) + 1) = (1..Len(jobs)) \cup {Len(jobs) + 1}
      BY <1>0
    <2>4. InFlight' = InFlight \cup {j}
      BY <2>2, <2>3 DEF InFlight
    <2> QED
      BY <1>0, <1>1, <2>1, <2>4 DEF Pending
  <1> QED
    BY <1>1, <1>2, <1>3, <1>4

LEMMA CollectReports ==
  ASSUME IInv, Collect
  PROVE  \/ verdict' = verdict /\ Pending' = Pending
         \/ \E j \in InFlight :
              /\ verdict'[j] \in Reports
              /\ \A m \in Jobs : m # j => verdict'[m] = verdict[m] /\ (m \in Pending' <=> m \in Pending)
  <1>1. pc = "collect" /\ k > 0 /\ todo' = todo
    BY DEF Collect
  <1>2. k \in 1..Len(jobs) /\ Len(jobs) \in Nat /\ jobs \in Seq(Jobs) /\ verdict \in [Jobs -> Verdicts]
    BY <1>1 DEF IInv, TypeOK, Slotted
  <1>3. CASE ~(settled[k] \/ jobs[k] \in expired)
    <2>1. verdict' = verdict /\ jobs' = jobs
      BY <1>3 DEF Collect, flight
    <2> QED
      BY <1>1, <2>1 DEF Pending, InFlight
  <1>4. CASE settled[k] \/ jobs[k] \in expired
    <2>1. PICK j \in Jobs, n \in Nat : j = jobs[k] /\ n = Len(jobs) /\ k \in 1..n
      BY <1>2
    <2>2. PICK v : v = Finish(conn[socks[k]], settled[k])
      OBVIOUS
    <2>3. verdict' = [verdict EXCEPT ![j] = v] /\ jobs' = SwapRemove(jobs, k)
      BY <1>4, <2>1, <2>2 DEF Collect
    <2>4. v \in Reports
      BY <2>2 DEF Finish, Connected, Classify, Reports
    <2>5. /\ Len(SwapRemove(jobs, k)) = n - 1
          /\ \A i \in 1..(n - 1) : SwapRemove(jobs, k)[i] = jobs[Source(i, k, n)]
      BY <1>2, <2>1, SwapRemoveFacts
    <2>6. Len(jobs') = n - 1 /\ \A i \in 1..(n - 1) : jobs'[i] = jobs[Source(i, k, n)]
      BY <2>3, <2>5
    <2>7. /\ \A i \in 1..(n - 1) : Source(i, k, n) \in 1..n
          /\ \A m \in 1..n : m # k => \E i \in 1..(n - 1) : Source(i, k, n) = m
      BY <2>1, SourceFacts
    <2>8. InFlight' \subseteq InFlight
      BY <2>1, <2>6, <2>7 DEF InFlight
    <2>9. ASSUME NEW m \in InFlight, m # j PROVE m \in InFlight'
      <3>1. PICK a \in 1..n : m = jobs[a] /\ a # k
        BY <2>1, <2>9 DEF InFlight
      <3>2. PICK i \in 1..(n - 1) : Source(i, k, n) = a
        BY <2>7, <3>1
      <3>3. jobs'[i] = m /\ i \in 1..Len(jobs')
        BY <2>6, <3>1, <3>2
      <3> QED
        BY <3>3 DEF InFlight
    <2>10. j \in InFlight
      BY <1>2, <2>1 DEF InFlight
    <2>11. verdict'[j] \in Reports /\ \A m \in Jobs : m # j => verdict'[m] = verdict[m]
      BY <1>2, <2>1, <2>3, <2>4
    <2>12. \A m \in Jobs : m # j => (m \in Pending' <=> m \in Pending)
      BY <1>1, <2>8, <2>9 DEF Pending
    <2> QED
      BY <2>10, <2>11, <2>12
  <1> QED
    BY <1>3, <1>4

(* A step changes at most one verdict, of a job not reported yet. *)
LEMMA ReportStep ==
  ASSUME IInv, [Next]_vars
  PROVE  \/ verdict' = verdict /\ Pending' = Pending
         \/ \E j \in Pending :
              /\ j \in Pending' \/ verdict'[j] \in Reports
              /\ \A m \in Jobs : m # j => verdict'[m] = verdict[m] /\ (m \in Pending' <=> m \in Pending)
  <1>1. ASSUME NEW j \in Jobs, StartShort(j) \/ StartDone(j) \/ StartPending(j)
        PROVE  \E i \in Pending :
                 /\ i \in Pending' \/ verdict'[i] \in Reports
                 /\ \A m \in Jobs : m # i => verdict'[m] = verdict[m] /\ (m \in Pending' <=> m \in Pending)
    BY <1>1, StartReports DEF Pending
  <1>2. ASSUME \/ Filled \/ WaitReady \/ WaitNothing \/ Collected \/ Settle \/ Expire \/ Finished
               \/ UNCHANGED vars
        PROVE  verdict' = verdict /\ Pending' = Pending
    <2>1. verdict' = verdict /\ todo' = todo /\ jobs' = jobs
      BY <1>2 DEF Filled, WaitReady, WaitNothing, Collected, Settle, Expire, Finished, vars, flight
    <2> QED
      BY <2>1 DEF Pending, InFlight
  <1>3. InFlight \subseteq Pending
    BY DEF Pending
  <1> QED
    BY <1>1, <1>2, <1>3, CollectReports DEF Next

(* What is still to be reported has no report. *)
LEMMA PendingUnreported == ASSUME IInv PROVE \A j \in Pending : j \in Jobs /\ verdict[j] \notin Reports
  <1>1. InFlight \subseteq Jobs /\ todo \subseteq Jobs
    BY DEF IInv, TypeOK, InFlight
  <1>2. \A j \in InFlight : verdict[j] = "none"
    BY DEF IInv, Unreported, InFlight
  <1>3. \A j \in todo : verdict[j] \in {"none", "noSocket", "noAddress"}
    BY DEF IInv, Unreported
  <1> QED
    BY <1>1, <1>2, <1>3 DEF Pending, Reports

(* A target without a report is still to be started or in flight: the
   shortages of tcp_probe_start and the swap-removes of Flight lose none. *)
NoneLost == \A j \in Jobs : verdict[j] \in Reports <=> j \notin Pending

(* A report is made once: it is never taken back or made again. *)
ReportedOnce == [][\A j \in Jobs : verdict[j] \in Reports => verdict'[j] = verdict[j]]_vars

(* A run that ends has reported every target: the ones without a report are
   exactly the ones tcp_probe_start or tcp_probe_finish is still to see. *)
THEOREM LostTheorem == Spec => []NoneLost
  <1>1. Init => NoneLost
    BY DEF Init, NoneLost, Pending, Reports
  <1>2. ASSUME IInv, NoneLost, [Next]_vars PROVE NoneLost'
    <2>1. IInv'
      BY <1>2, NextIInv
    <2>2. \A j \in Pending' : verdict'[j] \notin Reports
      <3>1. (\A j \in Pending : j \in Jobs /\ verdict[j] \notin Reports)'
        BY <2>1, PendingUnreported, PTL
      <3> QED
        BY <3>1
    <2>3. \A j \in Jobs : j \notin Pending' => verdict'[j] \in Reports
      <3>1. \A j \in Jobs : j \notin Pending => verdict[j] \in Reports
        BY <1>2 DEF NoneLost
      <3> QED
        BY <1>2, <3>1, ReportStep
    <2> QED
      BY <2>2, <2>3 DEF NoneLost, Reports
  <1> QED
    BY <1>1, <1>2, Invariance, PTL DEF Spec

(* However handles are reused and slots swapped, Flight reports a target once. *)
THEOREM OnceTheorem == Spec => ReportedOnce
  <1>1. ASSUME IInv, [Next]_vars
        PROVE  \A j \in Jobs : verdict[j] \in Reports => verdict'[j] = verdict[j]
    BY <1>1, ReportStep, PendingUnreported
  <1>2. IInv /\ [Next]_vars => [\A j \in Jobs : verdict[j] \in Reports => verdict'[j] = verdict[j]]_vars
    BY <1>1
  <1> QED
    BY <1>2, Invariance, PTL DEF Spec, ReportedOnce
=============================================================================
