--------------------------- MODULE Discovery_proofs ---------------------------
(***************************************************************************)
(* Proofs about the scan as a whole, for any hosts, threads and number of  *)
(* percentages: events and summary agree, the listener's socket outlives   *)
(* its thread, counts only increase and a phase ends with its total. At    *)
(* the end, about the exchange that names a host: replies in time are      *)
(* kept, sockets are closed once and the wait is shared, however many      *)
(* requests a call makes.                                                  *)
(***************************************************************************)
EXTENDS Discovery, UdpExchange, FiniteSetTheorems, TLAPS

MainPcs == {"start", "sweep", "stage", "table", "harvest", "report", "event", "finish", "join", "results",
            "over", "failed"}
ListenerPcs == {"off", "loop", "recv", "report", "event", "ask"}
WorkerPcs == {"off", "idle", "report", "event", "count", "show"}

(* What each variable may hold. *)
ThreadTypeOK ==
  /\ pc \in [Actors -> MainPcs \cup ListenerPcs \cup WorkerPcs]
  /\ pc[Main] \in MainPcs /\ pc[Listener] \in ListenerPcs /\ \A w \in Workers : pc[w] \in WorkerPcs
  /\ host \in [Actors -> Hosts \cup {Nobody}]

ScanTypeOK ==
  /\ stage \in {"none", "sweep", "ping", "arp", "identify"} /\ jobs \subseteq Hosts
  /\ cut \in BOOLEAN /\ stop \in BOOLEAN /\ windows \in BOOLEAN /\ pings \in BOOLEAN
  /\ table \in [Resolved -> {"none", "fresh", "old"}]
  /\ candidates \subseteq Hosts /\ unconfirmed \subseteq Hosts /\ summary \subseteq Hosts

ListTypeOK == found \subseteq Hosts /\ lock \in Actors \cup {Nobody} /\ events \in [Hosts -> Nat]

SocketTypeOK ==
  /\ socket \in {"none", "open", "closed"} /\ quit \in BOOLEAN
  /\ mail \in Talkers \cup {Nobody, "wake"} /\ closes \in Nat

ProgressTypeOK ==
  /\ phase \in Nat /\ total \in Nat /\ done \in Nat /\ lastClaimed \in Nat
  /\ shown \in Nat \X Nat \X Nat

TypeOK == ThreadTypeOK /\ ScanTypeOK /\ ListTypeOK /\ SocketTypeOK /\ ProgressTypeOK

(* Workers run only within a stage, and an actor with a host to report has
   one; a worker without work has none. *)
ThreadInv ==
  /\ pc[Main] = "stage" <=> stage # "none"
  /\ stage = "none" => jobs = {} /\ Joined
  /\ \A w \in Workers : pc[w] \in {"off", "idle", "show"} => host[w] = Nobody
  /\ \A a \in Actors : pc[a] \in {"report", "event"} => host[a] \in Hosts

(* Where the scan is with its socket; a ping scan has none. *)
SocketInv ==
  /\ pc[Main] = "start" => socket = "none"
  /\ closes = (IF socket = "closed" THEN 1 ELSE 0)
  /\ pc[Listener] # "off" => socket = "open"
  /\ pc[Main] \in {"results", "over"} \/ stage = "identify" => socket # "open"
  /\ pc[Main] = "join" => socket = "open"
  /\ pc[Main] = "failed" => pings
  /\ pings => /\ socket = "none" /\ stage \notin {"ping", "arp"}
              /\ pc[Main] \in {"start", "sweep", "stage", "results", "over", "failed"}

(* The lock is held exactly while an event is due, for a host that is listed. *)
LockInv ==
  /\ \A a \in Actors : pc[a] = "event" <=> lock = a
  /\ \A a \in Actors : pc[a] = "event" => host[a] \in found

ListInv == LockInv /\ EventsMatchSummary

(* The last event of the phase is what was claimed last. *)
ShownInv ==
  /\ shown[1] <= phase /\ (shown[1] = phase => shown[2] = lastClaimed)
  /\ (lastClaimed # 0 => shown[1] = phase)
  /\ lastClaimed <= done

(* Units not counted yet: to be taken, in a worker's hands, or left to SendARP. *)
InHand == {w \in Workers : pc[w] \in {"report", "event", "count"}}
LeftToArp == IF stage = "ping" /\ windows THEN unconfirmed ELSE {}

BeforePings == {"start", "sweep", "table", "harvest", "report", "event"}

UnitsInv ==
  /\ done <= total
  /\ stage # "none" => done + Cardinality(jobs) + Cardinality(InHand) + Cardinality(LeftToArp) = total
  /\ stage # "none" /\ ~stop /\ ~cut /\ Joined => jobs = {}
  /\ stage = "ping" => jobs \cap unconfirmed = {}
  /\ pc[Main] \in BeforePings \/ stage = "sweep" => unconfirmed = {}
  /\ done = total /\ total # 0 => lastClaimed = total \/ \E w \in Workers : pc[w] = "show"
  /\ stage = "none" /\ ~stop /\ ~cut => done = total

IInv == TypeOK /\ ThreadInv /\ SocketInv /\ ListInv /\ ShownInv

-----------------------------------------------------------------------------
(* Actors. *)

(* They are all different. *)
LEMMA Names ==
  /\ Main \in Actors /\ Listener \in Actors /\ Main # Listener /\ Nobody \notin Actors /\ Nobody \notin Hosts
  /\ \A w \in Workers : w \in Actors /\ w # Main /\ w # Listener
  /\ \A a \in Actors : a \in Workers \/ a = Main \/ a = Listener
  BY DiscoveryAssumption DEF Main, Listener, Nobody, Actors

(* Where an actor goes on, and what it keeps. *)
LEMMA ReportedFacts ==
  ASSUME ThreadTypeOK, NEW a \in Actors
  PROVE  /\ a = Main => Reported(a) = "harvest"
         /\ a = Listener => Reported(a) = "ask"
         /\ a \in Workers => Reported(a) = "count" /\ Kept(a) = host
         /\ a \notin Workers => Kept(a) = [host EXCEPT ![a] = Nobody]
         /\ Kept(a) \in [Actors -> Hosts \cup {Nobody}]
         /\ \A b \in Actors : b # a => Kept(a)[b] = host[b]
  <1>1. a = Main => Reported(a) = "harvest"
    BY Names DEF Reported
  <1>2. a = Listener => Reported(a) = "ask"
    BY Names DEF Reported
  <1>3. a \in Workers => Reported(a) = "count"
    BY Names DEF Reported
  <1> QED
    BY <1>1, <1>2, <1>3 DEF Kept, ThreadTypeOK

(* One step of one actor. *)
LEMMA GoFacts ==
  ASSUME ThreadTypeOK, NEW a \in Actors, NEW where, Go(a, where)
  PROVE  pc'[a] = where /\ \A b \in Actors : b # a => pc'[b] = pc[b]
  BY DEF Go, ThreadTypeOK

(* And that it keeps the types. *)
LEMMA GoType ==
  ASSUME ThreadTypeOK, NEW a \in Actors, NEW where, Go(a, where),
         a = Main => where \in MainPcs, a = Listener => where \in ListenerPcs,
         a \in Workers => where \in WorkerPcs
  PROVE  /\ pc' \in [Actors -> MainPcs \cup ListenerPcs \cup WorkerPcs]
         /\ pc'[Main] \in MainPcs /\ pc'[Listener] \in ListenerPcs /\ \A w \in Workers : pc'[w] \in WorkerPcs
  <1>1. where \in MainPcs \cup ListenerPcs \cup WorkerPcs
    BY Names
  <1>2. pc' \in [Actors -> MainPcs \cup ListenerPcs \cup WorkerPcs]
    BY <1>1 DEF Go, ThreadTypeOK
  <1> QED
    BY <1>2, GoFacts, Names DEF ThreadTypeOK

(* The steps of Next. *)
LEMMA NextCases ==
  ASSUME [Next]_vars
  PROVE  \/ \E a \in Actors : ReportHost(a) \/ PrintHost(a)
         \/ \E w \in Workers : Settle(w) \/ Advance(w) \/ Show(w) \/ Leave(w)
         \/ Start \/ SweepHosts \/ ReadTable \/ HarvestRow \/ Confirm \/ StageOver \/ Finish \/ Join \/ Results
         \/ Loop \/ Recv \/ RecvFails \/ AskName \/ StageFails \/ Datagram \/ StopRequest
         \/ UNCHANGED vars
  BY Names DEF Next, MainStep, ListenerStep, WorkerStep

(* A stage starts: the scan waits, the pool is idle. *)
LEMMA StartStageFacts ==
  ASSUME ThreadTypeOK, NEW kind, NEW todo, NEW pool \in SUBSET Workers, StartStage(kind, todo, pool)
  PROVE  /\ stage' = kind /\ jobs' = todo /\ ~cut' /\ cut' \in BOOLEAN
         /\ pc' \in [Actors -> MainPcs \cup ListenerPcs \cup WorkerPcs]
         /\ pc'[Main] = "stage" /\ pc'[Listener] = pc[Listener]
         /\ \A w \in Workers : pc'[w] = IF w \in pool THEN "idle" ELSE pc[w]
  <1>1. stage' = kind /\ jobs' = todo /\ ~cut' /\ cut' \in BOOLEAN
    BY DEF StartStage
  <1>2. pc' = [a \in Actors |->
                 IF a = Main THEN "stage" ELSE IF a \in pool THEN "idle" ELSE pc[a]]
    BY DEF StartStage
  <1>3. pc' \in [Actors -> MainPcs \cup ListenerPcs \cup WorkerPcs]
    BY <1>2 DEF ThreadTypeOK, MainPcs, WorkerPcs
  <1>4. pc'[Main] = "stage" /\ pc'[Listener] = pc[Listener]
    BY <1>2, Names
  <1>5. \A w \in Workers : pc'[w] = IF w \in pool THEN "idle" ELSE pc[w]
    BY <1>2, Names
  <1> QED
    BY <1>1, <1>3, <1>4, <1>5

(* A pool has a thread. *)
LEMMA PoolFacts ==
  ASSUME NEW ofOne
  PROVE  Pool(ofOne) \in SUBSET Workers /\ First \in Pool(ofOne)
  BY DiscoveryAssumption DEF Pool

(* A pool of all. *)
LEMMA PoolOfAll == Pool(FALSE) \in SUBSET Workers
  BY DEF Pool

(* Where the scan goes after a stage. *)
LEMMA AfterStageFacts ==
  ASSUME ScanTypeOK, stage # "none"
  PROVE  /\ stage = "sweep" /\ ~pings => AfterStage = "table"
         /\ stage = "sweep" /\ pings => AfterStage = (IF cut THEN "failed" ELSE "results")
         /\ stage \in {"ping", "arp"} => AfterStage = "finish"
         /\ stage = "identify" => AfterStage = "over"
         /\ AfterStage \in MainPcs
  <1>1. CASE stage = "sweep" /\ ~pings
    BY <1>1 DEF AfterStage, MainPcs
  <1>2. CASE stage = "sweep" /\ pings
    BY <1>2 DEF AfterStage, MainPcs
  <1>3. CASE stage \in {"ping", "arp"}
    BY <1>3 DEF AfterStage, MainPcs
  <1>4. CASE stage = "identify"
    BY <1>4 DEF AfterStage, MainPcs
  <1> QED
    BY <1>1, <1>2, <1>3, <1>4 DEF ScanTypeOK

-----------------------------------------------------------------------------
(* Types. *)

(* The stages that start. *)
LEMMA StageStarts ==
  ASSUME TypeOK
  PROVE  /\ SweepHosts => \E ofOne \in BOOLEAN : StartStage("sweep", Hosts, Pool(ofOne))
         /\ Confirm => \/ Go(Main, "finish") /\ UNCHANGED <<stage, jobs, cut>>
                       \/ \E ofOne \in BOOLEAN : StartStage("ping", candidates, Pool(ofOne))
         /\ StageOver => \/ StartStage("arp", unconfirmed \cup jobs, Pool(FALSE)) /\ UNCHANGED summary
                         \/ /\ Go(Main, AfterStage) /\ stage' = "none" /\ jobs' = {} /\ cut' = cut
                            /\ summary' = IF stage = "identify" THEN found ELSE summary
         /\ Results => \/ Go(Main, "over") /\ UNCHANGED <<stage, jobs, cut>> /\ summary' = found
                       \/ StartStage("identify", found, Pool(FALSE)) /\ UNCHANGED summary
  BY DEF SweepHosts, Confirm, StageOver, Results

(* Threads. *)
LEMMA ThreadTypeStep ==
  ASSUME TypeOK, ThreadInv, [Next]_vars
  PROVE  ThreadTypeOK'
  <1> USE DEF MainPcs, ListenerPcs, WorkerPcs
  <1>0. ThreadTypeOK
    BY DEF TypeOK
  <1> DEFINE PcOK == /\ pc' \in [Actors -> MainPcs \cup ListenerPcs \cup WorkerPcs]
                     /\ pc'[Main] \in MainPcs /\ pc'[Listener] \in ListenerPcs
                     /\ \A w \in Workers : pc'[w] \in WorkerPcs
  <1>1. ASSUME NEW a \in Actors, ReportHost(a) \/ PrintHost(a) PROVE ThreadTypeOK'
    <2>1. Go(a, Reported(a)) \/ Go(a, "event")
      BY <1>1 DEF ReportHost, PrintHost
    <2>2. PcOK
      BY <1>0, <2>1, GoType, ReportedFacts, Names
    <2>3. host' = host \/ host' = Kept(a)
      BY <1>1 DEF ReportHost, PrintHost
    <2> QED
      BY <1>0, <2>2, <2>3, ReportedFacts DEF ThreadTypeOK
  <1>2. ASSUME NEW w \in Workers, Settle(w) PROVE ThreadTypeOK'
    <2>1. Go(w, "report") \/ Go(w, "idle") \/ Go(w, "count")
      BY <1>2 DEF Settle
    <2>2. host' = host \/ \E h \in jobs : host' = [host EXCEPT ![w] = h]
      BY <1>2 DEF Settle
    <2>3. PcOK
      BY <1>0, <2>1, GoType, Names
    <2>4. host' \in [Actors -> Hosts \cup {Nobody}]
      BY <1>0, <2>2 DEF ThreadTypeOK, TypeOK, ScanTypeOK
    <2> QED
      BY <2>3, <2>4 DEF ThreadTypeOK
  <1>3. ASSUME NEW w \in Workers, Advance(w) \/ Show(w) \/ Leave(w) PROVE ThreadTypeOK'
    <2>1. Go(w, "show") \/ Go(w, "idle") \/ Go(w, "off")
      BY <1>3 DEF Advance, Show, Leave
    <2>2. host' = host \/ host' = [host EXCEPT ![w] = Nobody]
      BY <1>3 DEF Advance, Show, Leave
    <2>3. PcOK
      BY <1>0, <2>1, GoType, Names
    <2>4. host' \in [Actors -> Hosts \cup {Nobody}]
      BY <1>0, <2>2 DEF ThreadTypeOK
    <2> QED
      BY <2>3, <2>4 DEF ThreadTypeOK
  <1>4. CASE Start
    <2>1. host' = host /\ (Go(Main, "sweep") \/ pc' = [pc EXCEPT ![Main] = "sweep", ![Listener] = "loop"])
      BY <1>4 DEF Start
    <2>2. CASE Go(Main, "sweep")
      <3>1. PcOK
        BY <1>0, <2>2, GoType, Names
      <3> QED
        BY <1>0, <2>1, <3>1 DEF ThreadTypeOK
    <2>3. CASE pc' = [pc EXCEPT ![Main] = "sweep", ![Listener] = "loop"]
      BY <1>0, <2>1, <2>3, Names DEF ThreadTypeOK
    <2> QED
      BY <2>1, <2>2, <2>3
  <1>5. ASSUME NEW kind, NEW todo, NEW ofOne, StartStage(kind, todo, Pool(ofOne)), host' = host PROVE ThreadTypeOK'
    BY <1>0, <1>5, PoolFacts, StartStageFacts DEF ThreadTypeOK
  <1>6. CASE SweepHosts \/ Confirm \/ StageOver \/ Results
    <2>1. host' = host
      BY <1>6 DEF SweepHosts, Confirm, StageOver, Results
    <2>2. ASSUME Go(Main, "finish") \/ Go(Main, "over") PROVE ThreadTypeOK'
      <3>1. PcOK
        BY <1>0, <2>2, GoType, Names
      <3> QED
        BY <1>0, <2>1, <3>1 DEF ThreadTypeOK
    <2>3. ASSUME StageOver, Go(Main, AfterStage) PROVE ThreadTypeOK'
      <3>1. AfterStage \in MainPcs
        BY <2>3, AfterStageFacts DEF StageOver, ThreadInv, TypeOK
      <3>2. PcOK
        BY <1>0, <2>3, <3>1, GoType, Names
      <3> QED
        BY <1>0, <2>1, <3>2 DEF ThreadTypeOK
    <2> QED
      BY <1>5, <1>6, <2>1, <2>2, <2>3, StageStarts
  <1>7. CASE ReadTable \/ Finish \/ Join
    <2>1. host' = host
      BY <1>7 DEF ReadTable, Finish, Join
    <2>2. Go(Main, "finish") \/ Go(Main, "harvest") \/ Go(Main, "results") \/ Go(Main, "join")
      BY <1>7 DEF ReadTable, Finish, Join
    <2>3. PcOK
      BY <1>0, <2>2, GoType, Names
    <2> QED
      BY <1>0, <2>1, <2>3 DEF ThreadTypeOK
  <1>8. CASE HarvestRow
    <2>1. PICK h \in Resolved :
            \/ pc' = pc /\ host' = host
            \/ Go(Main, "report") /\ host' = [host EXCEPT ![Main] = h]
      BY <1>8, Zenon DEF HarvestRow
    <2>2. h \in Hosts
      BY DiscoveryAssumption
    <2>3. CASE pc' = pc /\ host' = host
      BY <1>0, <2>3 DEF ThreadTypeOK
    <2>4. CASE Go(Main, "report") /\ host' = [host EXCEPT ![Main] = h]
      <3>1. PcOK
        BY <1>0, <2>4, GoType, Names
      <3> QED
        BY <1>0, <2>2, <2>4, <3>1 DEF ThreadTypeOK
    <2> QED
      BY <2>1, <2>3, <2>4
  <1>9. CASE Loop \/ RecvFails \/ AskName
    <2>1. host' = host /\ (Go(Listener, "off") \/ Go(Listener, "recv") \/ Go(Listener, "loop"))
      BY <1>9 DEF Loop, RecvFails, AskName
    <2>2. PcOK
      BY <1>0, <2>1, GoType, Names
    <2> QED
      BY <1>0, <2>1, <2>2 DEF ThreadTypeOK
  <1>10. CASE Recv
    <2>1. \/ mail \in Talkers /\ Go(Listener, "report") /\ host' = [host EXCEPT ![Listener] = mail]
          \/ Go(Listener, "loop") /\ host' = host
      BY <1>10 DEF Recv
    <2>2. PcOK
      BY <1>0, <2>1, GoType, Names
    <2> QED
      BY <1>0, <2>1, <2>2, DiscoveryAssumption DEF ThreadTypeOK
  <1>11. CASE UNCHANGED <<pc, host>>
    BY <1>0, <1>11 DEF ThreadTypeOK
  <1>12. StageFails \/ Datagram \/ StopRequest \/ UNCHANGED vars => UNCHANGED <<pc, host>>
    BY DEF StageFails, Datagram, StopRequest, vars
  <1> QED
    BY <1>1, <1>2, <1>3, <1>4, <1>6, <1>7, <1>8, <1>9, <1>10, <1>11, <1>12, NextCases

(* The scan's own variables. *)
LEMMA ScanTypeStep ==
  ASSUME TypeOK, [Next]_vars
  PROVE  ScanTypeOK'
  <1>1. ScanTypeOK /\ ThreadTypeOK /\ found \subseteq Hosts
    BY DEF TypeOK, ListTypeOK
  <1>2. CASE UNCHANGED scanVars
    BY <1>1, <1>2 DEF ScanTypeOK, scanVars
  <1>3. ASSUME NEW w \in Workers, Settle(w) PROVE ScanTypeOK'
    <2>1. PICK h \in jobs : jobs' = jobs \ {h} /\ unconfirmed' \in {unconfirmed, unconfirmed \cup {h}}
      BY <1>3 DEF Settle
    <2>2. jobs' \subseteq Hosts /\ unconfirmed' \subseteq Hosts
      BY <1>1, <2>1 DEF ScanTypeOK
    <2> QED
      BY <1>1, <1>3, <2>2 DEF Settle, ScanTypeOK
  <1>4. ASSUME NEW kind \in {"sweep", "ping", "arp", "identify"}, NEW todo \in SUBSET Hosts, NEW ofOne,
               StartStage(kind, todo, Pool(ofOne)),
               UNCHANGED <<stop, windows, pings, table, candidates, unconfirmed, summary>>
        PROVE  ScanTypeOK'
    BY <1>1, <1>4, PoolFacts, StartStageFacts DEF ScanTypeOK
  <1>5. CASE SweepHosts
    BY <1>4, <1>5, StageStarts DEF SweepHosts
  <1>6. CASE ReadTable
    <2>1. table' = table \/ table' \in [Resolved -> {"none", "fresh", "old"}]
      BY <1>6 DEF ReadTable
    <2> QED
      BY <1>1, <1>6, <2>1 DEF ReadTable, ScanTypeOK
  <1>7. CASE HarvestRow
    <2>1. PICK h \in Resolved : table' = [table EXCEPT ![h] = "none"] /\ candidates' \in {candidates, candidates \cup {h}}
      BY <1>7 DEF HarvestRow
    <2>2. table' \in [Resolved -> {"none", "fresh", "old"}] /\ candidates' \subseteq Hosts
      BY <1>1, <2>1, DiscoveryAssumption DEF ScanTypeOK
    <2> QED
      BY <1>1, <1>7, <2>2 DEF HarvestRow, ScanTypeOK
  <1>8. CASE Confirm
    <2>1. UNCHANGED <<stop, windows, pings, table, candidates, unconfirmed, summary>> /\ candidates \in SUBSET Hosts
      BY <1>1, <1>8 DEF Confirm, ScanTypeOK
    <2>2. CASE UNCHANGED <<stage, jobs, cut>>
      BY <1>1, <2>1, <2>2 DEF ScanTypeOK
    <2> QED
      BY <1>4, <1>8, <2>1, <2>2, StageStarts
  <1>9. CASE StageOver
    <2>1. /\ UNCHANGED <<stop, windows, pings, table, candidates, unconfirmed>>
          /\ unconfirmed \cup jobs \in SUBSET Hosts
      BY <1>1, <1>9 DEF StageOver, ScanTypeOK
    <2>2. CASE stage' = "none" /\ jobs' = {} /\ cut' = cut /\ summary' = IF stage = "identify" THEN found ELSE summary
      <3>1. summary' \subseteq Hosts
        BY <1>1, <2>2 DEF ScanTypeOK
      <3> QED
        BY <1>1, <2>1, <2>2, <3>1 DEF ScanTypeOK
    <2> QED
      BY <1>4, <1>9, <2>1, <2>2, StageStarts
  <1>10. CASE Results
    <2>1. UNCHANGED <<stop, windows, pings, table, candidates, unconfirmed>> /\ found \in SUBSET Hosts
      BY <1>1, <1>10 DEF Results
    <2>2. CASE UNCHANGED <<stage, jobs, cut>> /\ summary' = found
      BY <1>1, <2>1, <2>2 DEF ScanTypeOK
    <2> QED
      BY <1>4, <1>10, <2>1, <2>2, StageStarts
  <1>11. CASE StageFails \/ StopRequest
    <2>1. cut' \in BOOLEAN /\ stop' \in BOOLEAN
      BY <1>1, <1>11 DEF StageFails, StopRequest, ScanTypeOK
    <2>2. UNCHANGED <<stage, jobs, windows, pings, table, candidates, unconfirmed, summary>>
      BY <1>11 DEF StageFails, StopRequest
    <2> QED
      BY <1>1, <2>1, <2>2 DEF ScanTypeOK
  <1>12. (\E a \in Actors : ReportHost(a) \/ PrintHost(a)) => UNCHANGED scanVars
    BY DEF ReportHost, PrintHost
  <1>13. (\E w \in Workers : Advance(w) \/ Show(w) \/ Leave(w)) => UNCHANGED scanVars
    BY DEF Advance, Show, Leave
  <1>14. Start \/ Finish \/ Join => UNCHANGED scanVars
    BY DEF Start, Finish, Join
  <1>15. Loop \/ Recv \/ RecvFails \/ AskName \/ Datagram \/ UNCHANGED vars => UNCHANGED scanVars
    BY DEF Loop, Recv, RecvFails, AskName, Datagram, vars
  <1> QED
    BY <1>2, <1>3, <1>5, <1>6, <1>7, <1>8, <1>9, <1>10, <1>11, <1>12, <1>13, <1>14, <1>15, NextCases

(* What touches the list. *)
LEMMA ListSteps ==
  ASSUME [Next]_vars
  PROVE  \/ UNCHANGED listVars
         \/ \E a \in Actors : ReportHost(a) \/ PrintHost(a)
  <1>1. (\E w \in Workers : Settle(w) \/ Advance(w) \/ Show(w) \/ Leave(w)) => UNCHANGED listVars
    BY DEF Settle, Advance, Show, Leave
  <1>2. Start \/ SweepHosts \/ ReadTable \/ HarvestRow => UNCHANGED listVars
    BY DEF Start, SweepHosts, ReadTable, HarvestRow
  <1>3. Confirm \/ StageOver \/ Finish \/ Join \/ Results => UNCHANGED listVars
    BY DEF Confirm, StageOver, Finish, Join, Results
  <1>4. Loop \/ Recv \/ RecvFails \/ AskName \/ StageFails \/ Datagram \/ StopRequest \/ UNCHANGED vars
          => UNCHANGED listVars
    BY DEF Loop, Recv, RecvFails, AskName, StageFails, Datagram, StopRequest, vars
  <1> QED
    BY <1>1, <1>2, <1>3, <1>4, NextCases

(* The list. *)
LEMMA ListTypeStep ==
  ASSUME TypeOK, ThreadInv, [Next]_vars
  PROVE  ListTypeOK'
  <1>1. CASE UNCHANGED listVars
    BY <1>1 DEF TypeOK, ListTypeOK, listVars
  <1>2. ASSUME NEW a \in Actors, ReportHost(a) PROVE ListTypeOK'
    <2>1. host[a] \in Hosts
      BY <1>2 DEF ReportHost, ThreadInv
    <2>2. events' = events /\ found' \subseteq Hosts /\ lock' \in Actors \cup {Nobody}
      BY <1>2, <2>1 DEF ReportHost, Listed, TypeOK, ListTypeOK
    <2> QED
      BY <2>2 DEF TypeOK, ListTypeOK
  <1>3. ASSUME NEW a \in Actors, PrintHost(a) PROVE ListTypeOK'
    <2>1. host[a] \in Hosts
      BY <1>3 DEF PrintHost, ThreadInv
    <2>2. events' \in [Hosts -> Nat]
      BY <1>3, <2>1 DEF PrintHost, TypeOK, ListTypeOK
    <2> QED
      BY <1>3, <2>2 DEF PrintHost, TypeOK, ListTypeOK
  <1> QED
    BY <1>1, <1>2, <1>3, ListSteps

(* What touches the socket. *)
LEMMA SocketSteps ==
  ASSUME [Next]_vars
  PROVE  UNCHANGED socketVars \/ Start \/ Finish \/ Join \/ Recv \/ Datagram
  <1>1. (\E w \in Workers : Settle(w) \/ Advance(w) \/ Show(w) \/ Leave(w)) => UNCHANGED socketVars
    BY DEF Settle, Advance, Show, Leave
  <1>2. (\E a \in Actors : ReportHost(a) \/ PrintHost(a)) => UNCHANGED socketVars
    BY DEF ReportHost, PrintHost
  <1>3. SweepHosts \/ ReadTable \/ HarvestRow \/ Confirm \/ StageOver \/ Results => UNCHANGED socketVars
    BY DEF SweepHosts, ReadTable, HarvestRow, Confirm, StageOver, Results
  <1>4. Loop \/ RecvFails \/ AskName \/ StageFails \/ StopRequest \/ UNCHANGED vars => UNCHANGED socketVars
    BY DEF Loop, RecvFails, AskName, StageFails, StopRequest, vars
  <1> QED
    BY <1>1, <1>2, <1>3, <1>4, NextCases

(* The socket. *)
LEMMA SocketTypeStep ==
  ASSUME TypeOK, [Next]_vars
  PROVE  SocketTypeOK'
  <1>1. SocketTypeOK
    BY DEF TypeOK
  <1>2. CASE UNCHANGED socketVars
    BY <1>1, <1>2 DEF SocketTypeOK, socketVars
  <1>3. CASE Start
    BY <1>1, <1>3 DEF SocketTypeOK, Start, McClose, McOpen
  <1>4. CASE Finish
    <2>1. quit' \in BOOLEAN
      BY <1>1, <1>4 DEF SocketTypeOK, Finish
    <2>2. mail' \in Talkers \cup {Nobody, "wake"}
      BY <1>1, <1>4 DEF SocketTypeOK, Finish, McWake
    <2> QED
      BY <1>1, <1>4, <2>1, <2>2 DEF SocketTypeOK, Finish
  <1>5. CASE Join
    BY <1>1, <1>5 DEF SocketTypeOK, Join, McClose
  <1>6. CASE Recv \/ Datagram
    BY <1>1, <1>6 DEF SocketTypeOK, Recv, Datagram
  <1> QED
    BY <1>2, <1>3, <1>4, <1>5, <1>6, SocketSteps

(* What touches the progress. *)
LEMMA ProgressSteps ==
  ASSUME TypeOK, [Next]_vars
  PROVE  \/ UNCHANGED progressVars
         \/ CountUnit /\ \E w \in Workers : Advance(w)
         \/ ShowProgress /\ \E w \in Workers : Show(w)
         \/ StartPhase(0) /\ ReadTable
         \/ SweepHosts /\ StartPhase(Cardinality(Hosts))
         \/ Confirm /\ StartPhase(Cardinality(candidates))
         \/ Results /\ StartPhase(Cardinality(found))
  <1>1. (\E w \in Workers : Settle(w) \/ Leave(w)) => UNCHANGED progressVars
    BY DEF Settle, Leave
  <1>2. (\E a \in Actors : ReportHost(a) \/ PrintHost(a)) => UNCHANGED progressVars
    BY DEF ReportHost, PrintHost
  <1>3. Start \/ HarvestRow \/ StageOver \/ Finish \/ Join => UNCHANGED progressVars
    BY DEF Start, HarvestRow, StageOver, Finish, Join
  <1>4. Loop \/ Recv \/ RecvFails \/ AskName => UNCHANGED progressVars
    BY DEF Loop, Recv, RecvFails, AskName
  <1>5. StageFails \/ Datagram \/ StopRequest \/ UNCHANGED vars => UNCHANGED progressVars
    BY DEF StageFails, Datagram, StopRequest, vars
  <1>6. /\ \A w \in Workers : (Advance(w) => CountUnit) /\ (Show(w) => ShowProgress)
        /\ (ReadTable => StartPhase(0)) /\ (SweepHosts => StartPhase(Cardinality(Hosts)))
        /\ (Confirm => UNCHANGED progressVars \/ StartPhase(Cardinality(candidates)))
        /\ (Results => UNCHANGED progressVars \/ StartPhase(Cardinality(found)))
    BY DEF Advance, Show, ReadTable, SweepHosts, Confirm, Results, progressVars
  <1> QED
    BY <1>1, <1>2, <1>3, <1>4, <1>5, <1>6, NextCases

(* The progress. *)
LEMMA ProgressTypeStep ==
  ASSUME TypeOK, [Next]_vars
  PROVE  ProgressTypeOK'
  <1>1. ProgressTypeOK
    BY DEF TypeOK
  <1>2. CASE UNCHANGED progressVars
    BY <1>1, <1>2 DEF ProgressTypeOK, progressVars
  <1>3. CASE CountUnit
    BY <1>1, <1>3 DEF ProgressTypeOK, CountUnit
  <1>4. CASE ShowProgress
    <2>1. Newest \in Nat
      BY <1>1 DEF ProgressTypeOK, Newest
    <2>2. Event(Newest) \in Nat \X Nat \X Nat
      BY <1>1, <2>1 DEF ProgressTypeOK, Event
    <2> QED
      BY <1>1, <1>4, <2>1, <2>2 DEF ProgressTypeOK, ShowProgress
  <1>5. ASSUME NEW n \in Nat, StartPhase(n) PROVE ProgressTypeOK'
    BY <1>1, <1>5 DEF ProgressTypeOK, StartPhase
  <1>6. Cardinality(Hosts) \in Nat /\ Cardinality(candidates) \in Nat /\ Cardinality(found) \in Nat
    BY DiscoveryAssumption, FS_Subset, FS_CardinalityType DEF TypeOK, ScanTypeOK, ListTypeOK
  <1> QED
    BY <1>2, <1>3, <1>4, <1>5, <1>6, ProgressSteps

-----------------------------------------------------------------------------
(* The threads. *)

(* An actor reports. *)
LEMMA ReportFacts ==
  ASSUME ThreadTypeOK, ThreadInv, NEW a \in Actors, ReportHost(a) \/ PrintHost(a)
  PROVE  /\ host[a] \in Hosts /\ pc[a] \in {"report", "event"}
         /\ \A b \in Actors : b # a => pc'[b] = pc[b] /\ host'[b] = host[b]
         /\ UNCHANGED scanVars
         /\ \/ pc'[a] = "event" /\ host' = host
            \/ pc'[a] = Reported(a) /\ host' = Kept(a)
  <1>1. pc[a] \in {"report", "event"} /\ UNCHANGED scanVars
    BY DEF ReportHost, PrintHost
  <1>2. \/ Go(a, "event") /\ host' = host
        \/ Go(a, Reported(a)) /\ host' = Kept(a)
    BY DEF ReportHost, PrintHost
  <1>3. host[a] \in Hosts
    BY <1>1 DEF ThreadInv
  <1> QED
    BY <1>1, <1>2, <1>3, GoFacts, ReportedFacts

(* A worker steps within a stage. *)
LEMMA WorkerFacts ==
  ASSUME TypeOK, ThreadInv, NEW w \in Workers, Settle(w) \/ Advance(w) \/ Show(w) \/ Leave(w)
  PROVE  /\ pc[w] \in {"idle", "count", "show"} /\ stage # "none" /\ stage' = stage
         /\ \A b \in Actors : b # w => pc'[b] = pc[b] /\ host'[b] = host[b]
         /\ pc'[w] \in {"report", "count", "idle", "show", "off"}
         /\ pc'[w] = "report" => host'[w] \in jobs
         /\ pc'[w] # "report" => host'[w] = Nobody
  <1>1. pc[w] \in {"idle", "count", "show"} /\ stage' = stage
    BY DEF Settle, Advance, Show, Leave, scanVars
  <1>2. stage # "none"
    BY <1>1 DEF ThreadInv, Joined
  <1>3. w \in Actors /\ ThreadTypeOK
    BY Names DEF TypeOK
  <1>4. CASE Settle(w)
    <2>1. PICK h \in jobs :
            \/ Go(w, "report") /\ host' = [host EXCEPT ![w] = h]
            \/ Go(w, IF stage = "ping" /\ windows THEN "idle" ELSE "count") /\ host' = host
      BY <1>4, Zenon DEF Settle
    <2>2. host[w] = Nobody
      BY <1>4 DEF Settle, ThreadInv
    <2> QED
      BY <1>1, <1>2, <1>3, <2>1, <2>2, GoFacts DEF ThreadTypeOK
  <1>5. CASE Advance(w)
    <2>1. (Go(w, "show") \/ Go(w, "idle")) /\ host' = [host EXCEPT ![w] = Nobody]
      BY <1>5 DEF Advance
    <2> QED
      BY <1>1, <1>2, <1>3, <2>1, GoFacts DEF ThreadTypeOK
  <1>6. CASE Show(w) \/ Leave(w)
    <2>1. (Go(w, "idle") \/ Go(w, "off")) /\ host' = host
      BY <1>6 DEF Show, Leave
    <2>2. host[w] = Nobody
      BY <1>6 DEF Show, Leave, ThreadInv
    <2> QED
      BY <1>1, <1>2, <1>3, <2>1, <2>2, GoFacts DEF ThreadTypeOK
  <1> QED
    BY <1>4, <1>5, <1>6

(* The scan's thread starts a stage when no worker runs. *)
LEMMA StageFacts ==
  ASSUME TypeOK, ThreadInv, SweepHosts \/ Confirm \/ StageOver \/ Results
  PROVE  /\ Joined /\ host' = host /\ pc'[Listener] = pc[Listener]
         /\ \/ stage' = "none" /\ jobs' = {} /\ Joined' /\ pc'[Main] \in MainPcs \ {"stage", "report", "event"}
            \/ /\ stage' \in {"sweep", "ping", "arp", "identify"} /\ pc'[Main] = "stage" /\ ~cut'
               /\ pc'[First] = "idle" /\ \A w \in Workers : pc'[w] \in {"off", "idle"}
  <1>1. host' = host
    BY DEF SweepHosts, Confirm, StageOver, Results
  <1>2. Joined
    BY DEF SweepHosts, Confirm, StageOver, Results, ThreadInv
  <1>3. ASSUME NEW kind \in {"sweep", "ping", "arp", "identify"}, NEW todo, NEW ofOne,
               StartStage(kind, todo, Pool(ofOne))
        PROVE  /\ stage' \in {"sweep", "ping", "arp", "identify"} /\ pc'[Main] = "stage" /\ ~cut'
               /\ pc'[First] = "idle" /\ pc'[Listener] = pc[Listener]
               /\ \A w \in Workers : pc'[w] \in {"off", "idle"}
    <2>1. First \in Workers
      BY DiscoveryAssumption
    <2> QED
      BY <1>2, <1>3, <2>1, PoolFacts, StartStageFacts DEF Joined, TypeOK
  <1>4. ASSUME NEW where \in MainPcs \ {"stage", "report", "event"}, Go(Main, where)
        PROVE  pc'[Main] = where /\ pc'[Listener] = pc[Listener] /\ Joined'
    <2>1. pc'[Main] = where /\ \A b \in Actors : b # Main => pc'[b] = pc[b]
      BY <1>4, GoFacts, Names DEF TypeOK
    <2> QED
      BY <1>2, <2>1, Names DEF Joined
  <1>5. CASE SweepHosts
    BY <1>1, <1>2, <1>3, <1>5, StageStarts
  <1>6. CASE Confirm
    <2>1. stage = "none" /\ jobs = {}
      BY <1>6 DEF Confirm, ThreadInv
    <2>2. "finish" \in MainPcs \ {"stage", "report", "event"}
      BY DEF MainPcs
    <2> QED
      BY <1>1, <1>2, <1>3, <1>4, <1>6, <2>1, <2>2, StageStarts
  <1>7. CASE StageOver
    <2>1. AfterStage \in MainPcs \ {"stage", "report", "event"}
      BY <1>7, AfterStageFacts DEF StageOver, ThreadInv, TypeOK, ScanTypeOK, MainPcs
    <2> QED
      BY <1>1, <1>2, <1>3, <1>4, <1>7, <2>1, StageStarts
  <1>8. CASE Results
    <2>1. stage = "none" /\ jobs = {}
      BY <1>8 DEF Results, ThreadInv
    <2>2. "over" \in MainPcs \ {"stage", "report", "event"}
      BY DEF MainPcs
    <2> QED
      BY <1>1, <1>2, <1>3, <1>4, <1>8, <2>1, <2>2, StageStarts
  <1> QED
    BY <1>5, <1>6, <1>7, <1>8

(* The scan's other steps, which leave the workers alone. *)
LEMMA MainFacts ==
  ASSUME TypeOK, ThreadInv, Start \/ ReadTable \/ HarvestRow \/ Finish \/ Join
  PROVE  /\ stage = "none" /\ stage' = stage /\ jobs' = jobs /\ Joined /\ Joined'
         /\ \A w \in Workers : host'[w] = host[w]
         /\ pc'[Main] \in MainPcs \ {"stage", "event"} /\ (pc'[Main] = "report" => host'[Main] \in Hosts)
         /\ \/ pc'[Listener] = pc[Listener]
            \/ Start /\ pc'[Listener] = "loop"
         /\ host'[Listener] = host[Listener]
  <1>1. stage = "none" /\ Joined
    BY DEF Start, ReadTable, HarvestRow, Finish, Join, ThreadInv
  <1>2. stage' = stage /\ jobs' = jobs
    BY DEF Start, ReadTable, HarvestRow, Finish, Join, scanVars
  <1>3. ThreadTypeOK
    BY DEF TypeOK
  <1>4. ASSUME NEW where \in MainPcs \ {"stage", "event", "report"}, Go(Main, where), host' = host
        PROVE  /\ \A w \in Workers : pc'[w] = pc[w] /\ host'[w] = host[w]
               /\ pc'[Main] = where /\ pc'[Listener] = pc[Listener] /\ host'[Listener] = host[Listener]
    BY <1>3, <1>4, GoFacts, Names
  <1>5. CASE Start
    <2>1. CASE Go(Main, "sweep") /\ host' = host
      BY <1>1, <1>2, <1>4, <2>1 DEF MainPcs, Joined
    <2>2. CASE pc' = [pc EXCEPT ![Main] = "sweep", ![Listener] = "loop"] /\ host' = host
      <3>1. pc'[Main] = "sweep" /\ pc'[Listener] = "loop" /\ \A w \in Workers : pc'[w] = pc[w]
        BY <1>3, <2>2, Names DEF ThreadTypeOK
      <3> QED
        BY <1>1, <1>2, <1>5, <2>2, <3>1 DEF MainPcs, Joined
    <2> QED
      BY <1>5, <2>1, <2>2 DEF Start
  <1>6. CASE ReadTable \/ Finish \/ Join
    <2>1. host' = host /\ \E where \in {"finish", "harvest", "results", "join"} : Go(Main, where)
      BY <1>6 DEF ReadTable, Finish, Join
    <2> QED
      BY <1>1, <1>2, <1>4, <2>1 DEF MainPcs, Joined
  <1>7. CASE HarvestRow
    <2>1. PICK h \in Resolved :
            \/ pc' = pc /\ host' = host
            \/ Go(Main, "report") /\ host' = [host EXCEPT ![Main] = h]
      BY <1>7, Zenon DEF HarvestRow
    <2>2. pc[Main] = "harvest" /\ h \in Hosts
      BY <1>7, DiscoveryAssumption DEF HarvestRow
    <2>3. CASE pc' = pc /\ host' = host
      BY <1>1, <1>2, <2>2, <2>3 DEF MainPcs, Joined
    <2>4. CASE Go(Main, "report") /\ host' = [host EXCEPT ![Main] = h]
      <3>1. pc'[Main] = "report" /\ \A b \in Actors : b # Main => pc'[b] = pc[b]
        BY <1>3, <2>4, GoFacts, Names
      <3>2. host'[Main] = h /\ \A b \in Actors : b # Main => host'[b] = host[b]
        BY <1>3, <2>4, Names DEF ThreadTypeOK
      <3> QED
        BY <1>1, <1>2, <2>2, <3>1, <3>2, Names DEF MainPcs, Joined
    <2> QED
      BY <2>1, <2>3, <2>4
  <1> QED
    BY <1>5, <1>6, <1>7

(* The listener's steps. *)
LEMMA ListenerFacts ==
  ASSUME TypeOK, Loop \/ Recv \/ RecvFails \/ AskName
  PROVE  /\ UNCHANGED scanVars /\ pc[Listener] \in {"loop", "recv", "ask"}
         /\ \A b \in Actors : b # Listener => pc'[b] = pc[b] /\ host'[b] = host[b]
         /\ pc'[Listener] \in {"off", "loop", "recv", "report"}
         /\ pc'[Listener] = "report" => host'[Listener] \in Hosts
  <1>1. UNCHANGED scanVars /\ pc[Listener] \in {"loop", "recv", "ask"} /\ ThreadTypeOK
    BY DEF Loop, Recv, RecvFails, AskName, TypeOK
  <1>2. CASE Loop \/ RecvFails \/ AskName
    <2>1. host' = host /\ \E where \in {"off", "recv", "loop"} : Go(Listener, where)
      BY <1>2 DEF Loop, RecvFails, AskName
    <2> QED
      BY <1>1, <2>1, GoFacts, Names
  <1>3. CASE Recv
    <2>1. \/ mail \in Talkers /\ Go(Listener, "report") /\ host' = [host EXCEPT ![Listener] = mail]
          \/ Go(Listener, "loop") /\ host' = host
      BY <1>3 DEF Recv
    <2> QED
      BY <1>1, <2>1, GoFacts, Names, DiscoveryAssumption DEF ThreadTypeOK
  <1> QED
    BY <1>2, <1>3

(* Threads run within stages, and report what they have. *)
LEMMA ThreadStep == ASSUME TypeOK, ThreadInv, [Next]_vars PROVE ThreadInv'
  <1>0. ThreadTypeOK
    BY DEF TypeOK
  <1>1. ASSUME NEW a \in Actors, ReportHost(a) \/ PrintHost(a) PROVE ThreadInv'
    <2>1. /\ host[a] \in Hosts /\ pc[a] \in {"report", "event"}
          /\ \A b \in Actors : b # a => pc'[b] = pc[b] /\ host'[b] = host[b]
          /\ stage' = stage /\ jobs' = jobs
          /\ \/ pc'[a] = "event" /\ host' = host
             \/ pc'[a] = Reported(a) /\ host' = Kept(a)
      BY <1>0, <1>1, ReportFacts DEF scanVars
    <2>2. Reported(a) \in {"harvest", "ask", "count"} /\ (a \in Workers => Reported(a) = "count")
      BY <1>0, ReportedFacts, Names
    <2>3. stage = "none" => a \notin Workers
      BY <2>1 DEF ThreadInv, Joined
    <2>4. pc'[Main] = "stage" <=> stage' # "none"
      BY <2>1, <2>2, Names DEF ThreadInv
    <2>5. stage' = "none" => jobs' = {} /\ Joined'
      BY <2>1, <2>3, Names DEF ThreadInv, Joined
    <2> QED
      BY <2>1, <2>2, <2>4, <2>5, Names DEF ThreadInv
  <1>2. ASSUME NEW w \in Workers, Settle(w) \/ Advance(w) \/ Show(w) \/ Leave(w) PROVE ThreadInv'
    <2>1. /\ stage # "none" /\ stage' = stage
          /\ \A b \in Actors : b # w => pc'[b] = pc[b] /\ host'[b] = host[b]
          /\ pc'[w] \in {"report", "count", "idle", "show", "off"}
          /\ pc'[w] = "report" => host'[w] \in jobs
          /\ pc'[w] # "report" => host'[w] = Nobody
      BY <1>2, WorkerFacts
    <2>2. jobs \subseteq Hosts
      BY DEF TypeOK, ScanTypeOK
    <2> QED
      BY <2>1, <2>2, Names DEF ThreadInv
  <1>3. CASE SweepHosts \/ Confirm \/ StageOver \/ Results
    BY <1>3, StageFacts, Names DEF ThreadInv, Joined
  <1>4. CASE Start \/ ReadTable \/ HarvestRow \/ Finish \/ Join
    <2>1. /\ stage = "none" /\ stage' = stage /\ jobs' = jobs /\ Joined /\ Joined'
          /\ \A w \in Workers : host'[w] = host[w]
          /\ pc'[Main] \in MainPcs \ {"stage", "event"} /\ (pc'[Main] = "report" => host'[Main] \in Hosts)
          /\ \/ pc'[Listener] = pc[Listener]
             \/ pc'[Listener] = "loop"
          /\ host'[Listener] = host[Listener]
      BY <1>4, MainFacts
    <2>2. \A w \in Workers : pc[w] = "off" /\ pc'[w] = "off"
      BY <2>1 DEF Joined
    <2>3. \A a \in Actors : pc'[a] \in {"report", "event"} => host'[a] \in Hosts
      BY <2>1, <2>2, Names DEF ThreadInv
    <2> QED
      BY <2>1, <2>2, <2>3 DEF ThreadInv
  <1>5. CASE Loop \/ Recv \/ RecvFails \/ AskName
    <2>1. /\ stage' = stage /\ jobs' = jobs
          /\ \A b \in Actors : b # Listener => pc'[b] = pc[b] /\ host'[b] = host[b]
          /\ pc'[Listener] \in {"off", "loop", "recv", "report"}
          /\ pc'[Listener] = "report" => host'[Listener] \in Hosts
      BY <1>5, ListenerFacts DEF scanVars
    <2> QED
      BY <2>1, Names DEF ThreadInv, Joined
  <1>6. CASE UNCHANGED <<pc, host, stage, jobs>>
    BY <1>6 DEF ThreadInv, Joined
  <1>7. StageFails \/ Datagram \/ StopRequest \/ UNCHANGED vars => UNCHANGED <<pc, host, stage, jobs>>
    BY DEF StageFails, Datagram, StopRequest, vars, scanVars
  <1> QED
    BY <1>1, <1>2, <1>3, <1>4, <1>5, <1>6, <1>7, NextCases

-----------------------------------------------------------------------------
(* The socket. *)

(* It is opened and closed by the scan's thread, once each. *)
LEMMA SocketStep == ASSUME TypeOK, ThreadInv, SocketInv, [Next]_vars PROVE SocketInv'
  <1>0. ThreadTypeOK /\ pings' = pings
    <2>1. pings' = pings
      <3>1. (\E a \in Actors : ReportHost(a) \/ PrintHost(a)) => pings' = pings
        BY DEF ReportHost, PrintHost, scanVars
      <3>2. (\E w \in Workers : Settle(w) \/ Advance(w) \/ Show(w) \/ Leave(w)) => pings' = pings
        BY DEF Settle, Advance, Show, Leave, scanVars
      <3>3. Start \/ SweepHosts \/ ReadTable \/ HarvestRow \/ Confirm \/ StageOver \/ Finish \/ Join \/ Results
              => pings' = pings
        BY DEF Start, SweepHosts, ReadTable, HarvestRow, Confirm, StageOver, Finish, Join, Results, scanVars
      <3>4. Loop \/ Recv \/ RecvFails \/ AskName \/ StageFails \/ Datagram \/ StopRequest \/ UNCHANGED vars
              => pings' = pings
        BY DEF Loop, Recv, RecvFails, AskName, StageFails, Datagram, StopRequest, vars, scanVars
      <3> QED
        BY <3>1, <3>2, <3>3, <3>4, NextCases
    <2> QED
      BY <2>1 DEF TypeOK
  <1>1. ASSUME NEW a \in Actors, ReportHost(a) \/ PrintHost(a) PROVE SocketInv'
    <2>1. UNCHANGED <<socket, closes>>
      BY <1>1 DEF ReportHost, PrintHost, socketVars
    <2>2. /\ pc[a] \in {"report", "event"} /\ stage' = stage
          /\ \A b \in Actors : b # a => pc'[b] = pc[b]
          /\ pc'[a] = "event" \/ pc'[a] = Reported(a)
      BY <1>0, <1>1, ReportFacts DEF scanVars
    <2>3. a = Main => pc'[a] \in {"event", "harvest"} /\ ~pings
      BY <1>0, <2>2, ReportedFacts DEF SocketInv
    <2>4. pc'[Listener] # "off" => pc[Listener] # "off"
      BY <2>2, Names
    <2>5. a # Main => pc'[Main] = pc[Main]
      BY <2>2, Names
    <2> QED
      BY <1>0, <2>1, <2>2, <2>3, <2>4, <2>5 DEF SocketInv
  <1>2. ASSUME NEW w \in Workers, Settle(w) \/ Advance(w) \/ Show(w) \/ Leave(w) PROVE SocketInv'
    <2>1. UNCHANGED <<socket, closes>>
      BY <1>2 DEF Settle, Advance, Show, Leave, socketVars
    <2>2. stage' = stage /\ pc'[Main] = pc[Main] /\ pc'[Listener] = pc[Listener]
      BY <1>2, WorkerFacts, Names
    <2> QED
      BY <1>0, <2>1, <2>2 DEF SocketInv
  <1>3. CASE Start
    <2>1. pc[Main] = "start" /\ stage' = stage /\ stage = "none"
      BY <1>3 DEF Start, scanVars, ThreadInv
    <2>2. CASE Go(Main, "sweep") /\ UNCHANGED <<socket, closes>>
      <3>1. pc'[Main] = "sweep" /\ pc'[Listener] = pc[Listener]
        BY <1>0, <2>2, GoFacts, Names
      <3> QED
        BY <1>0, <2>1, <2>2, <3>1 DEF SocketInv
    <2>3. CASE ~pings /\ McClose /\ Go(Main, "sweep")
      <3>1. pc'[Main] = "sweep" /\ pc'[Listener] = pc[Listener]
        BY <1>0, <2>3, GoFacts, Names
      <3> QED
        BY <1>0, <2>1, <2>3, <3>1 DEF SocketInv, McClose
    <2>4. CASE /\ ~pings /\ McOpen /\ UNCHANGED closes
               /\ pc' = [pc EXCEPT ![Main] = "sweep", ![Listener] = "loop"]
      <3>1. pc'[Main] = "sweep" /\ pc'[Listener] = "loop"
        BY <1>0, <2>4, Names DEF ThreadTypeOK
      <3> QED
        BY <1>0, <2>1, <2>4, <3>1 DEF SocketInv, McOpen
    <2> QED
      BY <1>3, <2>2, <2>3, <2>4 DEF Start
  <1>4. CASE SweepHosts \/ Confirm \/ Results
    <2>1. UNCHANGED <<socket, closes>> /\ pc'[Listener] = pc[Listener]
      BY <1>4, StageFacts DEF SweepHosts, Confirm, Results, socketVars
    <2>2. CASE SweepHosts
      <3>1. pc[Main] = "sweep" /\ pc'[Main] = "stage" /\ stage' = "sweep"
        BY <1>0, <2>2, StageStarts, PoolFacts, StartStageFacts DEF SweepHosts
      <3> QED
        BY <1>0, <2>1, <3>1 DEF SocketInv
    <2>3. CASE Confirm
      <3>1. pc[Main] = "harvest" /\ stage = "none"
        BY <2>3 DEF Confirm, ThreadInv
      <3>2. (pc'[Main] = "finish" /\ stage' = stage) \/ (pc'[Main] = "stage" /\ stage' = "ping")
        BY <1>0, <2>3, StageStarts, PoolFacts, StartStageFacts, GoFacts, Names
      <3> QED
        BY <1>0, <2>1, <3>1, <3>2 DEF SocketInv
    <2>4. CASE Results
      <3>1. pc[Main] = "results" /\ stage = "none"
        BY <2>4 DEF Results, ThreadInv
      <3>2. (pc'[Main] = "over" /\ stage' = stage) \/ (pc'[Main] = "stage" /\ stage' = "identify")
        BY <1>0, <2>4, StageStarts, PoolOfAll, StartStageFacts, GoFacts, Names
      <3> QED
        BY <1>0, <2>1, <3>1, <3>2 DEF SocketInv
    <2> QED
      BY <1>4, <2>2, <2>3, <2>4
  <1>5. CASE StageOver
    <2>1. UNCHANGED <<socket, closes>> /\ pc'[Listener] = pc[Listener]
      BY <1>5, StageFacts DEF StageOver, socketVars
    <2>2. pc[Main] = "stage" /\ stage # "none"
      BY <1>5 DEF StageOver, ThreadInv
    <2>3. CASE stage = "ping" /\ StartStage("arp", unconfirmed \cup jobs, Pool(FALSE))
      <3>1. pc'[Main] = "stage" /\ stage' = "arp"
        BY <1>0, <2>3, PoolOfAll, StartStageFacts
      <3> QED
        BY <1>0, <2>1, <2>2, <2>3, <3>1 DEF SocketInv
    <2>4. CASE Go(Main, AfterStage) /\ stage' = "none"
      <3>1. pc'[Main] = AfterStage
        BY <1>0, <2>4, GoFacts, Names
      <3>2. /\ stage = "sweep" /\ ~pings => pc'[Main] = "table"
            /\ stage = "sweep" /\ pings => pc'[Main] \in {"failed", "results"}
            /\ stage \in {"ping", "arp"} => pc'[Main] = "finish"
            /\ stage = "identify" => pc'[Main] = "over"
        BY <2>2, <3>1, AfterStageFacts DEF TypeOK
      <3>3. stage \in {"sweep", "ping", "arp", "identify"}
        BY <2>2 DEF TypeOK, ScanTypeOK
      <3> QED
        BY <1>0, <2>1, <2>2, <2>4, <3>2, <3>3 DEF SocketInv
    <2> QED
      BY <1>5, <2>3, <2>4 DEF StageOver
  <1>6. CASE ReadTable \/ HarvestRow
    <2>1. UNCHANGED <<socket, closes>> /\ pc[Main] \in {"table", "harvest"}
      BY <1>6 DEF ReadTable, HarvestRow, socketVars
    <2>2. /\ stage = "none" /\ stage' = "none"
          /\ pc'[Main] \in {"finish", "harvest", "report"} /\ pc'[Listener] = pc[Listener]
      <3>1. \/ Go(Main, "finish") \/ Go(Main, "harvest") \/ Go(Main, "report")
            \/ pc' = pc /\ pc[Main] = "harvest"
        BY <1>6 DEF ReadTable, HarvestRow
      <3>2. stage = "none" /\ stage' = "none"
        BY <1>6, MainFacts
      <3> QED
        BY <1>0, <3>1, <3>2, GoFacts, Names
    <2> QED
      BY <1>0, <2>1, <2>2 DEF SocketInv
  <1>7. CASE Finish
    <2>1. /\ UNCHANGED <<socket, closes, stage>> /\ pc[Main] = "finish" /\ stage = "none"
          /\ \/ socket # "open" /\ Go(Main, "results")
             \/ socket = "open" /\ Go(Main, "join")
      BY <1>7 DEF Finish, scanVars, ThreadInv
    <2>2. /\ pc'[Listener] = pc[Listener]
          /\ \/ socket # "open" /\ pc'[Main] = "results"
             \/ socket = "open" /\ pc'[Main] = "join"
      BY <1>0, <2>1, GoFacts, Names
    <2> QED
      BY <1>0, <2>1, <2>2 DEF SocketInv
  <1>8. CASE Join
    <2>1. /\ pc[Main] = "join" /\ pc[Listener] = "off" /\ stage' = stage /\ stage = "none"
          /\ socket' = "closed" /\ closes' = closes + 1 /\ Go(Main, "results")
      BY <1>8 DEF Join, ListenerJoined, McClose, scanVars, ThreadInv
    <2>2. pc'[Main] = "results" /\ pc'[Listener] = "off"
      BY <1>0, <2>1, GoFacts, Names
    <2> QED
      BY <1>0, <2>1, <2>2 DEF SocketInv
  <1>9. CASE Loop \/ Recv \/ RecvFails \/ AskName
    <2>1. UNCHANGED <<socket, closes, stage>>
      BY <1>9 DEF Loop, Recv, RecvFails, AskName, socketVars, scanVars
    <2>2. pc'[Main] = pc[Main] /\ pc[Listener] # "off"
      BY <1>9, ListenerFacts, Names
    <2> QED
      BY <1>0, <2>1, <2>2 DEF SocketInv
  <1>10. CASE UNCHANGED <<pc, stage, socket, closes>>
    BY <1>0, <1>10 DEF SocketInv
  <1>11. StageFails \/ Datagram \/ StopRequest \/ UNCHANGED vars => UNCHANGED <<pc, stage, socket, closes>>
    BY DEF StageFails, Datagram, StopRequest, vars, scanVars, socketVars
  <1> QED
    BY <1>1, <1>2, <1>3, <1>4, <1>5, <1>6, <1>7, <1>8, <1>9, <1>10, <1>11, NextCases

-----------------------------------------------------------------------------
(* The list. *)

(* A step that is no report leaves events due as they are, and lets no worker
   count a host it has not reported. *)
Quiet ==
  /\ \A a \in Actors : (pc'[a] = "event" <=> pc[a] = "event") /\ (pc[a] = "event" => host'[a] = host[a])
  /\ \A w \in Workers : pc'[w] = "count" /\ host'[w] # Nobody => pc[w] = "count" /\ host'[w] = host[w]

LEMMA QuietFacts ==
  ASSUME TypeOK, ThreadInv, SocketInv, [Next]_vars
  PROVE  Quiet \/ \E a \in Actors : ReportHost(a) \/ PrintHost(a)
  <1>1. ASSUME NEW w \in Workers, Settle(w) \/ Advance(w) \/ Show(w) \/ Leave(w) PROVE Quiet
    <2>1. /\ pc[w] \in {"idle", "count", "show"}
          /\ \A b \in Actors : b # w => pc'[b] = pc[b] /\ host'[b] = host[b]
          /\ pc'[w] \in {"report", "count", "idle", "show", "off"}
          /\ pc'[w] # "report" => host'[w] = Nobody
      BY <1>1, WorkerFacts
    <2> QED
      BY <2>1, Names DEF Quiet
  <1>2. CASE SweepHosts \/ Confirm \/ StageOver \/ Results
    <2>1. /\ host' = host /\ pc'[Listener] = pc[Listener]
          /\ \A w \in Workers : pc[w] = "off" /\ pc'[w] \in {"off", "idle"}
          /\ pc'[Main] # "event"
      BY <1>2, StageFacts DEF Joined
    <2>2. pc[Main] # "event"
      BY <1>2 DEF SweepHosts, Confirm, StageOver, Results
    <2> QED
      BY <2>1, <2>2, Names DEF Quiet
  <1>3. CASE Start \/ ReadTable \/ HarvestRow \/ Finish \/ Join
    <2>1. /\ \A w \in Workers : host'[w] = host[w] /\ pc[w] = "off" /\ pc'[w] = "off"
          /\ pc'[Main] # "event" /\ host'[Listener] = host[Listener]
          /\ pc'[Listener] = pc[Listener] \/ (Start /\ pc'[Listener] = "loop")
      BY <1>3, MainFacts DEF Joined
    <2>2. pc[Main] # "event"
      BY <1>3 DEF Start, ReadTable, HarvestRow, Finish, Join
    <2>3. pc'[Listener] = "event" <=> pc[Listener] = "event"
      <3>1. Start => pc[Listener] = "off"
        BY DEF Start, SocketInv
      <3> QED
        BY <2>1, <3>1
    <2> QED
      BY <2>1, <2>2, <2>3, Names DEF Quiet
  <1>4. CASE Loop \/ Recv \/ RecvFails \/ AskName
    BY <1>4, ListenerFacts, Names DEF Quiet
  <1>5. CASE UNCHANGED <<pc, host>>
    BY <1>5 DEF Quiet
  <1>6. StageFails \/ Datagram \/ StopRequest \/ UNCHANGED vars => UNCHANGED <<pc, host>>
    BY DEF StageFails, Datagram, StopRequest, vars
  <1> QED
    BY <1>1, <1>2, <1>3, <1>4, <1>5, <1>6, NextCases

(* The lock. *)
LEMMA LockStep ==
  ASSUME TypeOK, ThreadInv, SocketInv, LockInv, [Next]_vars
  PROVE  LockInv'
  <1>0. ThreadTypeOK
    BY DEF TypeOK
  <1>1. ASSUME NEW a \in Actors, ReportHost(a) PROVE LockInv'
    <2>1. lock = Nobody /\ \A b \in Actors : pc[b] # "event"
      BY <1>1, Names DEF ReportHost, LockInv
    <2>2. \A b \in Actors : b # a => pc'[b] = pc[b] /\ host'[b] = host[b]
      BY <1>0, <1>1, ReportFacts
    <2>3. CASE Go(a, Reported(a)) /\ UNCHANGED <<found, lock>>
      <3>1. pc'[a] \in {"harvest", "ask", "count"}
        BY <1>0, <2>3, GoFacts, ReportedFacts, Names
      <3> QED
        BY <2>1, <2>2, <2>3, <3>1, Names DEF LockInv
    <2>4. CASE Listed(a) /\ Go(a, "event") /\ UNCHANGED host
      <3>1. pc'[a] = "event" /\ lock' = a /\ host'[a] \in found'
        BY <1>0, <2>4, GoFacts DEF Listed
      <3> QED
        BY <2>1, <2>2, <3>1 DEF LockInv
    <2> QED
      BY <1>1, <2>3, <2>4 DEF ReportHost
  <1>2. ASSUME NEW a \in Actors, PrintHost(a) PROVE LockInv'
    <2>1. lock' = Nobody /\ pc[a] = "event" /\ Go(a, Reported(a))
      BY <1>2 DEF PrintHost
    <2>2. \A b \in Actors : b # a => pc[b] # "event"
      BY <2>1 DEF LockInv
    <2>3. pc'[a] \in {"harvest", "ask", "count"} /\ \A b \in Actors : b # a => pc'[b] = pc[b]
      BY <1>0, <2>1, GoFacts, ReportedFacts, Names
    <2> QED
      BY <2>1, <2>2, <2>3, Names DEF LockInv
  <1>3. CASE Quiet /\ UNCHANGED listVars
    BY <1>3 DEF LockInv, Quiet, listVars
  <1> QED
    BY <1>1, <1>2, <1>3, QuietFacts, ListSteps

(* With the lock free, no event is due. *)
LEMMA FreeFacts ==
  ASSUME ListInv, lock = Nobody
  PROVE  /\ \A a \in Actors : pc[a] # "event"
         /\ \A h \in Hosts : events[h] = IF h \in found THEN 1 ELSE 0
  <1>1. \A a \in Actors : pc[a] # "event"
    BY Names DEF ListInv, LockInv
  <1> QED
    BY <1>1 DEF ListInv, EventsMatchSummary

(* When the scan is over, or about to make its summary, nobody reports. *)
LEMMA SettledFacts ==
  ASSUME TypeOK, ThreadInv, SocketInv, ListInv, Joined, pc[Main] \notin {"report", "event"},
         pc[Main] \in {"results", "over"} \/ stage = "identify"
  PROVE  lock = Nobody /\ \A a \in Actors : pc[a] \notin {"report", "event"}
  <1>1. pc[Listener] = "off"
    BY DEF SocketInv
  <1>2. \A a \in Actors : pc[a] \notin {"report", "event"}
    BY <1>1, Names DEF Joined
  <1> QED
    BY <1>2 DEF ListInv, LockInv, TypeOK, ListTypeOK

(* What the summary is made of. *)
LEMMA SummarySteps ==
  ASSUME TypeOK, ThreadInv, SocketInv, ListInv, [Next]_vars, pc'[Main] = "over"
  PROVE  \/ pc[Main] = "over" /\ summary' = summary /\ UNCHANGED listVars
         \/ summary' = found /\ lock = Nobody /\ UNCHANGED listVars
  <1>0. ThreadTypeOK
    BY DEF TypeOK
  <1>1. ASSUME NEW a \in Actors, ReportHost(a) \/ PrintHost(a) PROVE FALSE
    <2>1. /\ pc[a] \in {"report", "event"} /\ \A b \in Actors : b # a => pc'[b] = pc[b]
          /\ pc'[a] = "event" \/ pc'[a] = Reported(a)
      BY <1>0, <1>1, ReportFacts
    <2>2. a # Main /\ pc[Main] = "over"
      BY <1>0, <2>1, ReportedFacts, Names
    <2>3. Joined
      BY <2>2 DEF ThreadInv
    <2> QED
      BY <2>1, <2>2, <2>3, SettledFacts
  <1>2. UNCHANGED listVars
    BY <1>1, ListSteps
  <1>3. CASE StageOver
    <2>1. pc[Main] = "stage" /\ Joined /\ stage # "none"
      BY <1>3 DEF StageOver, ThreadInv
    <2>2. CASE StartStage("arp", unconfirmed \cup jobs, Pool(FALSE))
      BY <1>0, <2>2, PoolOfAll, StartStageFacts
    <2>3. CASE Go(Main, AfterStage) /\ summary' = IF stage = "identify" THEN found ELSE summary
      <3>1. AfterStage = "over"
        BY <1>0, <2>3, GoFacts, Names
      <3>2. stage = "identify"
        BY <2>1, <3>1, AfterStageFacts DEF TypeOK, ScanTypeOK
      <3> QED
        BY <1>2, <2>1, <2>3, <3>2, SettledFacts
    <2> QED
      BY <1>3, <2>2, <2>3, StageStarts
  <1>4. CASE Results
    <2>1. pc[Main] = "results" /\ Joined
      BY <1>4 DEF Results, ThreadInv
    <2>2. CASE StartStage("identify", found, Pool(FALSE))
      BY <1>0, <2>2, PoolOfAll, StartStageFacts
    <2>3. CASE summary' = found
      BY <1>2, <2>1, <2>3, SettledFacts
    <2> QED
      BY <1>4, <2>2, <2>3, StageStarts
  <1>5. CASE pc[Main] = "over" /\ summary' = summary
    BY <1>2, <1>5
  <1>6. ASSUME NEW w \in Workers, Settle(w) \/ Advance(w) \/ Show(w) \/ Leave(w)
        PROVE  pc[Main] = "over" /\ summary' = summary
    <2>1. summary' = summary
      BY <1>6 DEF Settle, Advance, Show, Leave, scanVars
    <2> QED
      BY <1>6, <2>1, WorkerFacts, Names
  <1>7. CASE Loop \/ Recv \/ RecvFails \/ AskName
    <2>1. summary' = summary
      BY <1>7 DEF Loop, Recv, RecvFails, AskName, scanVars
    <2> QED
      BY <1>2, <1>7, <2>1, ListenerFacts, Names
  <1>8. CASE SweepHosts
    BY <1>0, <1>8, StageStarts, PoolFacts, StartStageFacts
  <1>9. CASE Confirm
    BY <1>0, <1>9, StageStarts, PoolFacts, StartStageFacts, GoFacts, Names
  <1>10. CASE Start \/ ReadTable \/ HarvestRow \/ Finish \/ Join
    <2>1. \/ \E where \in {"sweep", "finish", "harvest", "report", "results", "join"} : Go(Main, where)
          \/ pc' = [pc EXCEPT ![Main] = "sweep", ![Listener] = "loop"]
          \/ pc' = pc /\ pc[Main] = "harvest"
      BY <1>10 DEF Start, ReadTable, HarvestRow, Finish, Join
    <2>2. pc'[Main] # "over"
      BY <1>0, <2>1, GoFacts, Names DEF ThreadTypeOK
    <2> QED
      BY <2>2
  <1>11. StageFails \/ Datagram \/ StopRequest \/ UNCHANGED vars => pc' = pc /\ summary' = summary
    BY DEF StageFails, Datagram, StopRequest, vars, scanVars
  <1> QED
    BY <1>1, <1>2, <1>3, <1>4, <1>5, <1>6, <1>7, <1>8, <1>9, <1>10, <1>11, NextCases

(* Every host of the list has its one event, or it is due. *)
LEMMA EventsStep ==
  ASSUME TypeOK, ThreadInv, SocketInv, ListInv, [Next]_vars
  PROVE  EventsMatchSummary'
  <1>0. ThreadTypeOK /\ found \subseteq Hosts /\ events \in [Hosts -> Nat]
    BY DEF TypeOK, ListTypeOK
  <1> DEFINE Due(h) == \E a \in Actors : pc[a] = "event" /\ host[a] = h
             DueNext(h) == \E a \in Actors : pc'[a] = "event" /\ host'[a] = h
             E1 == \A h \in Hosts : events'[h] = IF h \in found' /\ ~DueNext(h) THEN 1 ELSE 0
             E2 == \A w \in Workers : pc'[w] = "count" /\ host'[w] # Nobody => events'[host'[w]] = 1
  <1>1. /\ \A h \in Hosts : events[h] = IF h \in found /\ ~Due(h) THEN 1 ELSE 0
        /\ \A w \in Workers : pc[w] = "count" /\ host[w] # Nobody => events[host[w]] = 1
        /\ pc[Main] = "over" => summary = {h \in Hosts : events[h] = 1}
    BY DEF ListInv, EventsMatchSummary
  <1>2. ASSUME NEW a \in Actors, ReportHost(a) PROVE E1 /\ E2
    <2>1. lock = Nobody /\ events' = events
      BY <1>2 DEF ReportHost
    <2>2. /\ \A b \in Actors : pc[b] # "event"
          /\ \A h \in Hosts : events[h] = IF h \in found THEN 1 ELSE 0
      BY <2>1, FreeFacts
    <2>3. /\ host[a] \in Hosts
          /\ \A b \in Actors : b # a => pc'[b] = pc[b] /\ host'[b] = host[b]
      BY <1>0, <1>2, ReportFacts
    <2>4. CASE host[a] \in found /\ Go(a, Reported(a)) /\ host' = Kept(a) /\ UNCHANGED <<found, lock>>
      <3>1. pc'[a] \in {"harvest", "ask", "count"} /\ (pc'[a] = "count" => host'[a] = host[a])
        BY <1>0, <2>4, GoFacts, ReportedFacts, Names
      <3>2. \A h : ~DueNext(h)
        BY <2>2, <2>3, <3>1
      <3>3. E1
        BY <2>1, <2>2, <2>4, <3>2
      <3>4. E2
        BY <1>1, <2>1, <2>2, <2>3, <2>4, <3>1, Names
      <3> QED
        BY <3>3, <3>4
    <2>5. CASE host[a] \notin found /\ Listed(a) /\ Go(a, "event") /\ UNCHANGED host
      <3>1. pc'[a] = "event" /\ found' = found \cup {host[a]} /\ host' = host
        BY <1>0, <2>5, GoFacts DEF Listed
      <3>2. \A h : DueNext(h) <=> h = host[a]
        BY <2>2, <2>3, <3>1
      <3>3. E1
        BY <2>1, <2>2, <2>3, <2>5, <3>1, <3>2
      <3>4. E2
        BY <1>1, <2>1, <2>3, <3>1, Names
      <3> QED
        BY <3>3, <3>4
    <2> QED
      BY <1>2, <2>4, <2>5 DEF ReportHost
  <1>3. ASSUME NEW a \in Actors, PrintHost(a) PROVE E1 /\ E2
    <2>1. /\ events' = [events EXCEPT ![host[a]] = @ + 1] /\ found' = found
          /\ Go(a, Reported(a)) /\ host' = Kept(a) /\ pc[a] = "event"
      BY <1>3 DEF PrintHost
    <2>2. host[a] \in found /\ host[a] \in Hosts /\ \A b \in Actors : b # a => pc[b] # "event"
      BY <1>0, <2>1 DEF ListInv, LockInv
    <2>3. \A b \in Actors : b # a => pc'[b] = pc[b] /\ host'[b] = host[b]
      BY <1>0, <1>3, ReportFacts
    <2>4. pc'[a] \in {"harvest", "ask", "count"} /\ (pc'[a] = "count" => host'[a] = host[a])
      BY <1>0, <2>1, GoFacts, ReportedFacts, Names
    <2>5. \A h : (Due(h) <=> h = host[a]) /\ ~DueNext(h)
      BY <2>1, <2>2, <2>3, <2>4
    <2>6. events[host[a]] = 0 /\ \A h \in Hosts : h # host[a] => events[h] = IF h \in found THEN 1 ELSE 0
      BY <1>1, <2>2, <2>5
    <2>7. events'[host[a]] = 1 /\ \A h \in Hosts : h # host[a] => events'[h] = events[h]
      BY <1>0, <2>1, <2>2, <2>6
    <2>8. E1
      BY <2>1, <2>2, <2>5, <2>6, <2>7
    <2>9. E2
      <3>1. ASSUME NEW w \in Workers, pc'[w] = "count", host'[w] # Nobody PROVE events'[host'[w]] = 1
        <4>1. CASE w = a
          BY <2>4, <2>7, <3>1, <4>1
        <4>2. CASE w # a
          <5>1. pc[w] = "count" /\ host[w] = host'[w] /\ host[w] \in Hosts
            BY <1>0, <2>3, <3>1, <4>2, Names DEF ThreadTypeOK
          <5>2. events[host[w]] = 1
            BY <1>1, <3>1, <5>1
          <5> QED
            BY <2>6, <2>7, <5>1, <5>2
        <4> QED
          BY <4>1, <4>2
      <3> QED
        BY <3>1
    <2> QED
      BY <2>8, <2>9
  <1>4. ASSUME Quiet, UNCHANGED listVars PROVE E1 /\ E2
    <2>1. found' = found /\ events' = events
      BY <1>4 DEF listVars
    <2>2. \A h : DueNext(h) <=> Due(h)
      BY <1>4 DEF Quiet
    <2>3. E1
      BY <1>1, <2>1, <2>2
    <2>4. E2
      BY <1>1, <1>4, <2>1 DEF Quiet
    <2> QED
      BY <2>3, <2>4
  <1>5. E1 /\ E2
    BY <1>2, <1>3, <1>4, QuietFacts, ListSteps
  <1>6. pc'[Main] = "over" => summary' = {h \in Hosts : events'[h] = 1}
    <2> SUFFICES ASSUME pc'[Main] = "over" PROVE summary' = {h \in Hosts : events'[h] = 1}
      OBVIOUS
    <2>1. CASE pc[Main] = "over" /\ summary' = summary /\ UNCHANGED listVars
      BY <1>1, <2>1 DEF listVars
    <2>2. CASE summary' = found /\ lock = Nobody /\ UNCHANGED listVars
      <3>1. events' = events /\ \A h \in Hosts : events[h] = IF h \in found THEN 1 ELSE 0
        BY <2>2, FreeFacts DEF listVars
      <3> QED
        BY <1>0, <2>2, <3>1
    <2> QED
      BY <2>1, <2>2, SummarySteps
  <1> QED
    BY <1>5, <1>6 DEF EventsMatchSummary

-----------------------------------------------------------------------------
(* Progress. *)

(* What was shown last is what was claimed last. *)
LEMMA ShownStep ==
  ASSUME TypeOK, ShownInv, [Next]_vars
  PROVE  /\ ShownInv'
         /\ shown' # shown => \/ shown[1] < shown'[1]
                              \/ shown[1] = shown'[1] /\ shown[2] < shown'[2]
  <1>1. ProgressTypeOK
    BY DEF TypeOK
  <1>2. shown[1] \in Nat /\ shown[2] \in Nat /\ shown[3] \in Nat
    BY <1>1 DEF ProgressTypeOK
  <1>3. CASE UNCHANGED progressVars
    BY <1>3 DEF ShownInv, progressVars
  <1>4. CASE CountUnit
    BY <1>1, <1>4 DEF CountUnit, ShownInv, ProgressTypeOK
  <1>5. CASE ShowProgress
    <2>1. Newest \in Nat /\ Newest <= done
      BY <1>1 DEF ProgressTypeOK, Newest
    <2>2. CASE UNCHANGED <<phase, total, done, lastClaimed, shown>>
      BY <2>2 DEF ShownInv
    <2>3. CASE ~(Newest <= lastClaimed) /\ lastClaimed' = Newest /\ shown' = Event(Newest) /\ UNCHANGED <<phase, total, done>>
      <3>1. shown'[1] = phase /\ shown'[2] = Newest
        BY <2>3 DEF Event
      <3>2. ShownInv'
        BY <1>1, <2>1, <2>3, <3>1 DEF ShownInv, ProgressTypeOK
      <3>3. shown[1] < shown'[1] \/ (shown[1] = shown'[1] /\ shown[2] < shown'[2])
        BY <1>1, <1>2, <2>1, <2>3, <3>1 DEF ShownInv, ProgressTypeOK
      <3> QED
        BY <3>2, <3>3
    <2> QED
      BY <1>5, <2>2, <2>3 DEF ShowProgress
  <1>6. ASSUME NEW n, StartPhase(n) PROVE ShownInv' /\ shown' = shown
    BY <1>1, <1>2, <1>6 DEF StartPhase, ShownInv, ProgressTypeOK
  <1> QED
    BY <1>3, <1>4, <1>5, <1>6, ProgressSteps

-----------------------------------------------------------------------------
(* Units. *)

(* The last unit of a phase crosses a whole percentage: an event is due. *)
LEMMA LastCrosses ==
  ASSUME total \in Nat, total # 0
  PROVE  CrossesPercent(total)
  <1>1. PICK n \in Nat : n = total
    OBVIOUS
  <1>2. PICK s \in Nat : s = Steps /\ s # 0
    BY ProgressAssumption
  <1>3. (n * s) \div n = s
    BY <1>1
  <1>4. ((n - 1) * s) \div n # s
    <2>1. (n - 1) * s = n * s - s /\ n * s \in Nat
      OBVIOUS
    <2>2. PICK q \in Int : q = (n * s - s) \div n
      BY <1>1, <2>1
    <2>3. n * q <= n * s - s
      BY <1>1, <2>1, <2>2
    <2>4. q # s
      BY <1>2, <2>1, <2>3
    <2> QED
      BY <2>1, <2>2, <2>4
  <1> QED
    BY <1>1, <1>2, <1>3, <1>4 DEF CrossesPercent

(* What is to be done can be counted. *)
LEMMA UnitsFinite ==
  ASSUME TypeOK
  PROVE  /\ IsFiniteSet(jobs) /\ IsFiniteSet(InHand) /\ IsFiniteSet(unconfirmed) /\ IsFiniteSet(LeftToArp)
         /\ Cardinality(jobs) \in Nat /\ Cardinality(InHand) \in Nat /\ Cardinality(LeftToArp) \in Nat
  <1>1. jobs \subseteq Hosts /\ unconfirmed \subseteq Hosts /\ InHand \subseteq Workers
    BY DEF TypeOK, ScanTypeOK, InHand
  <1>2. IsFiniteSet(jobs) /\ IsFiniteSet(InHand) /\ IsFiniteSet(unconfirmed)
    BY <1>1, FS_Subset, DiscoveryAssumption
  <1>3. IsFiniteSet(LeftToArp)
    BY <1>2, FS_EmptySet DEF LeftToArp
  <1> QED
    BY <1>2, <1>3, FS_CardinalityType

(* The invariant says what PhaseEndsFull does. *)
LEMMA UnitsFull == ASSUME TypeOK, ThreadInv, ShownInv, UnitsInv PROVE PhaseEndsFull
  <1>1. /\ shown[1] \in Nat /\ shown[2] \in Nat /\ done \in Nat /\ total \in Nat /\ lastClaimed \in Nat
    BY DEF TypeOK, ProgressTypeOK
  <1>2. ASSUME stage = "none", ~stop, ~cut, total # 0 PROVE shown[1] = phase /\ shown[2] = total
    <2>1. done = total /\ \A w \in Workers : pc[w] # "show"
      BY <1>2 DEF UnitsInv, ThreadInv, Joined
    <2>2. lastClaimed = total
      BY <1>2, <2>1 DEF UnitsInv
    <2> QED
      BY <1>2, <2>2 DEF ShownInv
  <1>3. ASSUME total # 0, shown[1] = phase, shown[2] = total
        PROVE  jobs = {} /\ \A w \in Workers : pc[w] \in {"off", "idle", "show"}
    <2>1. done = total
      BY <1>1, <1>3 DEF ShownInv, UnitsInv
    <2>2. CASE stage = "none"
      BY <2>2 DEF ThreadInv, Joined
    <2>3. CASE stage # "none"
      <3>1. Cardinality(jobs) = 0 /\ Cardinality(InHand) = 0
        BY <1>1, <2>1, <2>3, UnitsFinite DEF UnitsInv
      <3>2. jobs = {} /\ InHand = {}
        BY <3>1, UnitsFinite, FS_EmptySet
      <3>3. \A w \in Workers : pc[w] \in WorkerPcs /\ w \notin InHand
        BY <3>2 DEF TypeOK, ThreadTypeOK
      <3> QED
        BY <3>2, <3>3 DEF InHand, WorkerPcs
    <2> QED
      BY <2>2, <2>3
  <1> QED
    BY <1>2, <1>3 DEF PhaseEndsFull

(* A step that neither moves a unit nor counts one. *)
LEMMA UnitsKept ==
  ASSUME TypeOK, UnitsInv, UNCHANGED <<stage, jobs, windows, unconfirmed, total, done, lastClaimed>>,
         stop => stop', cut => cut', InHand' = InHand,
         \A w \in Workers : (pc[w] = "show" => pc'[w] = "show") /\ (pc'[w] = "off" => pc[w] = "off"),
         pc'[Main] \in BeforePings => pc[Main] \in BeforePings
  PROVE  UnitsInv'
  <1>1. LeftToArp' = LeftToArp
    BY DEF LeftToArp
  <1>2. Joined' => Joined
    BY DEF Joined
  <1> QED
    BY <1>1, <1>2 DEF UnitsInv

(* A stage that starts has all its units before it. *)
LEMMA UnitsStart ==
  ASSUME TypeOK, UnitsInv, Joined, NEW kind \in {"sweep", "ping", "identify"}, NEW todo \in SUBSET Hosts,
         NEW pool \in SUBSET Workers, First \in pool, StartStage(kind, todo, pool),
         StartPhase(Cardinality(todo)), UNCHANGED <<windows, unconfirmed>>,
         kind \in {"sweep", "ping"} => unconfirmed = {}
  PROVE  UnitsInv'
  <1>1. /\ stage' = kind /\ jobs' = todo /\ pc'[Main] = "stage" /\ First \in Workers
        /\ \A w \in Workers : pc'[w] = IF w \in pool THEN "idle" ELSE pc[w]
    BY StartStageFacts, DiscoveryAssumption DEF TypeOK
  <1>2. pc'[First] = "idle" /\ \A w \in Workers : pc'[w] \in {"idle", "off"}
    BY <1>1 DEF Joined
  <1>3. InHand' = {} /\ LeftToArp' = {} /\ ~Joined'
    BY <1>1, <1>2 DEF InHand, LeftToArp, Joined
  <1>4. total' = Cardinality(todo) /\ done' = 0 /\ lastClaimed' = 0
    BY DEF StartPhase
  <1>5. Cardinality(todo) \in Nat /\ Cardinality({}) = 0
    BY FS_Subset, FS_CardinalityType, FS_EmptySet, DiscoveryAssumption
  <1> QED
    BY <1>1, <1>3, <1>4, <1>5 DEF UnitsInv, BeforePings

(* A worker takes a unit. *)
LEMMA UnitsSettle ==
  ASSUME TypeOK, ThreadInv, UnitsInv, NEW w \in Workers, Settle(w)
  PROVE  UnitsInv'
  <1>0. ThreadTypeOK /\ w \in Actors
    BY Names DEF TypeOK
  <1>1. pc[w] = "idle" /\ stage # "none" /\ UNCHANGED <<stage, stop, cut, windows, total, done, lastClaimed>>
    BY WorkerFacts DEF Settle, progressVars
  <1>2. \A b \in Actors : b # w => pc'[b] = pc[b]
    BY WorkerFacts
  <1>3. pc'[Main] = "stage" /\ w \notin InHand /\ ~Joined
    BY <1>1, <1>2, Names DEF ThreadInv, InHand, Joined
  <1>4. PICK h \in jobs :
          /\ jobs' = jobs \ {h}
          /\ \/ Go(w, "report") /\ unconfirmed' = unconfirmed
             \/ /\ Go(w, IF stage = "ping" /\ windows THEN "idle" ELSE "count")
                /\ unconfirmed' = IF stage = "ping" THEN unconfirmed \cup {h} ELSE unconfirmed
    BY Zenon DEF Settle
  <1>5. Cardinality(jobs') = Cardinality(jobs) - 1
    BY <1>4, UnitsFinite, FS_RemoveElement
  <1>6. pc'[w] \in {"report", "idle", "count"}
    BY <1>0, <1>4, GoFacts
  <1>7. Joined' => FALSE
    BY <1>6 DEF Joined
  <1>8. \A v \in Workers : pc[v] = "show" => pc'[v] = "show"
    BY <1>1, <1>2, Names
  <1>9. stage = "ping" => jobs' \cap unconfirmed' = {}
    BY <1>4 DEF UnitsInv
  <1>10. stage = "sweep" => unconfirmed' = {}
    BY <1>4 DEF UnitsInv
  <1>11. Cardinality(jobs') + Cardinality(InHand') + Cardinality(LeftToArp')
           = Cardinality(jobs) + Cardinality(InHand) + Cardinality(LeftToArp)
    <2>1. CASE pc'[w] \in {"report", "count"} /\ LeftToArp' = LeftToArp
      <3>1. InHand' = InHand \cup {w}
        BY <1>2, <2>1, Names DEF InHand
      <3>2. Cardinality(InHand') = Cardinality(InHand) + 1
        BY <1>3, <3>1, UnitsFinite, FS_AddElement
      <3> QED
        BY <1>5, <2>1, <3>2, UnitsFinite
    <2>2. CASE pc'[w] = "idle" /\ stage = "ping" /\ windows /\ unconfirmed' = unconfirmed \cup {h}
      <3>1. InHand' = InHand
        BY <1>1, <1>2, <2>2, Names DEF InHand
      <3>2. LeftToArp = unconfirmed /\ LeftToArp' = unconfirmed \cup {h}
        BY <1>1, <2>2 DEF LeftToArp
      <3>3. h \notin unconfirmed
        BY <2>2 DEF UnitsInv
      <3>4. Cardinality(LeftToArp') = Cardinality(LeftToArp) + 1
        BY <3>2, <3>3, UnitsFinite, FS_AddElement
      <3> QED
        BY <1>5, <3>1, <3>4, UnitsFinite
    <2>3. CASE Go(w, "report") /\ unconfirmed' = unconfirmed
      <3>1. pc'[w] = "report" /\ LeftToArp' = LeftToArp
        BY <1>0, <1>1, <2>3, GoFacts DEF LeftToArp
      <3> QED
        BY <2>1, <3>1
    <2>4. CASE stage = "ping" /\ windows /\ Go(w, "idle") /\ unconfirmed' = unconfirmed \cup {h}
      BY <1>0, <2>2, <2>4, GoFacts
    <2>5. CASE ~(stage = "ping" /\ windows) /\ Go(w, "count")
      <3>1. pc'[w] = "count" /\ LeftToArp' = LeftToArp
        BY <1>0, <1>1, <2>5, GoFacts DEF LeftToArp
      <3> QED
        BY <2>1, <3>1
    <2> QED
      BY <1>4, <2>3, <2>4, <2>5
  <1>12. /\ done' \in Nat /\ total' \in Nat
         /\ Cardinality(jobs) \in Nat /\ Cardinality(InHand) \in Nat /\ Cardinality(LeftToArp) \in Nat
         /\ Cardinality(jobs') \in Nat
         /\ done + Cardinality(jobs) + Cardinality(InHand) + Cardinality(LeftToArp) = total
    BY <1>1, <1>5, UnitsFinite, FS_RemoveElement, FS_CardinalityType, <1>4 DEF UnitsInv, TypeOK, ProgressTypeOK
  <1>13. Cardinality(InHand') \in Nat /\ Cardinality(LeftToArp') \in Nat
    <2>1. InHand' \subseteq Workers /\ LeftToArp' \subseteq Hosts
      <3>1. unconfirmed' \subseteq Hosts
        BY <1>4 DEF TypeOK, ScanTypeOK
      <3> QED
        BY <3>1 DEF InHand, LeftToArp
    <2> QED
      BY <2>1, FS_Subset, FS_CardinalityType, DiscoveryAssumption
  <1>14. done' + Cardinality(jobs') + Cardinality(InHand') + Cardinality(LeftToArp') = total'
    BY <1>1, <1>11, <1>12, <1>13
  <1> QED
    BY <1>1, <1>3, <1>7, <1>8, <1>9, <1>10, <1>14 DEF UnitsInv, BeforePings

(* A worker, or another actor, reports a host. *)
LEMMA UnitsReport ==
  ASSUME TypeOK, ThreadInv, UnitsInv, NEW a \in Actors, ReportHost(a) \/ PrintHost(a)
  PROVE  UnitsInv'
  <1>0. ThreadTypeOK
    BY DEF TypeOK
  <1>1. /\ pc[a] \in {"report", "event"} /\ pc'[a] \in {"event", Reported(a)}
        /\ \A b \in Actors : b # a => pc'[b] = pc[b]
    BY <1>0, ReportFacts
  <1>2. UNCHANGED <<stage, jobs, cut, stop, windows, unconfirmed, total, done, lastClaimed>>
    BY DEF ReportHost, PrintHost, scanVars, progressVars
  <1>3. \A w \in Workers : \/ pc'[w] = pc[w]
                           \/ pc[w] \in {"report", "event"} /\ pc'[w] \in {"event", "count"}
    BY <1>0, <1>1, ReportedFacts, Names
  <1>4. InHand' = InHand
    BY <1>3 DEF InHand
  <1>5. pc'[Main] \in BeforePings => pc[Main] \in BeforePings
    BY <1>1, Names DEF BeforePings
  <1>6. \A w \in Workers : (pc[w] = "show" => pc'[w] = "show") /\ (pc'[w] = "off" => pc[w] = "off")
    BY <1>3
  <1> QED
    BY <1>2, <1>4, <1>5, <1>6, UnitsKept

(* A worker counts its unit; the last one has an event to print. *)
LEMMA UnitsCount ==
  ASSUME TypeOK, ThreadInv, UnitsInv, NEW w \in Workers, Advance(w)
  PROVE  UnitsInv'
  <1>0. ThreadTypeOK /\ w \in Actors
    BY Names DEF TypeOK
  <1>1. /\ pc[w] = "count" /\ stage # "none"
        /\ UNCHANGED <<stage, jobs, stop, cut, windows, unconfirmed, total, lastClaimed>> /\ done' = done + 1
    BY WorkerFacts DEF Advance, CountUnit, scanVars
  <1>2. Go(w, IF CrossesPercent(done + 1) THEN "show" ELSE "idle")
    BY DEF Advance
  <1>3. \A b \in Actors : b # w => pc'[b] = pc[b]
    BY <1>0, <1>2, GoFacts
  <1>4. pc'[w] = IF CrossesPercent(done + 1) THEN "show" ELSE "idle"
    BY <1>0, <1>2, GoFacts
  <1>5. pc'[Main] = "stage" /\ w \in InHand /\ ~Joined'
    BY <1>1, <1>3, <1>4, Names DEF ThreadInv, InHand, Joined
  <1>6. InHand' = InHand \ {w}
    BY <1>3, <1>4, Names DEF InHand
  <1>7. Cardinality(InHand') = Cardinality(InHand) - 1
    BY <1>5, <1>6, UnitsFinite, FS_RemoveElement
  <1>8. LeftToArp' = LeftToArp
    BY <1>1 DEF LeftToArp
  <1>9. /\ done \in Nat /\ total \in Nat
        /\ Cardinality(jobs) \in Nat /\ Cardinality(InHand) \in Nat /\ Cardinality(LeftToArp) \in Nat
    BY UnitsFinite DEF TypeOK, ProgressTypeOK
  <1>10. Cardinality(InHand) # 0
    BY <1>5, UnitsFinite, FS_EmptySet
  <1>11. done + Cardinality(jobs) + Cardinality(InHand) + Cardinality(LeftToArp) = total
    BY <1>1 DEF UnitsInv
  <1>12. /\ done' + Cardinality(jobs') + Cardinality(InHand') + Cardinality(LeftToArp') = total'
         /\ done' <= total'
    BY <1>1, <1>7, <1>8, <1>9, <1>10, <1>11
  <1>13. done' = total' /\ total' # 0 => pc'[w] = "show"
    BY <1>1, <1>4, <1>9, LastCrosses
  <1>14. stage' = "ping" => jobs' \cap unconfirmed' = {}
    BY <1>1 DEF UnitsInv
  <1>15. stage' = "sweep" => unconfirmed' = {}
    BY <1>1 DEF UnitsInv
  <1> QED
    BY <1>1, <1>5, <1>12, <1>13, <1>14, <1>15 DEF UnitsInv, BeforePings

(* A worker prints what was counted, or leaves. *)
LEMMA UnitsShow ==
  ASSUME TypeOK, ThreadInv, ShownInv, UnitsInv, NEW w \in Workers, Show(w) \/ Leave(w)
  PROVE  UnitsInv'
  <1>0. ThreadTypeOK /\ w \in Actors
    BY Names DEF TypeOK
  <1>1. /\ pc[w] \in {"show", "idle"} /\ stage # "none"
        /\ UNCHANGED <<stage, jobs, stop, cut, windows, unconfirmed, total, done>>
    BY WorkerFacts DEF Show, Leave, scanVars, progressVars, ShowProgress
  <1>2. (Go(w, "idle") /\ pc[w] = "show") \/ (Go(w, "off") /\ pc[w] = "idle")
    BY DEF Show, Leave
  <1>3. (\A b \in Actors : b # w => pc'[b] = pc[b]) /\ pc'[w] \in {"idle", "off"}
    BY <1>0, <1>2, GoFacts
  <1>4. pc'[Main] = "stage" /\ InHand' = InHand /\ LeftToArp' = LeftToArp
    BY <1>1, <1>3, Names DEF ThreadInv, InHand, LeftToArp
  <1>5. ~stop' /\ ~cut' /\ Joined' => jobs' = {}
    <2>1. CASE Leave(w)
      BY <1>1, <2>1 DEF Leave
    <2>2. CASE Show(w)
      <3>1. pc'[w] = "idle"
        BY <1>0, <2>2, GoFacts DEF Show
      <3> QED
        BY <3>1 DEF Joined
    <2> QED
      BY <2>1, <2>2
  <1>6. done' = total' /\ total' # 0 => lastClaimed' = total' \/ \E v \in Workers : pc'[v] = "show"
    <2>1. CASE Leave(w)
      <3>1. lastClaimed' = lastClaimed /\ pc[w] # "show"
        BY <2>1 DEF Leave, progressVars
      <3> QED
        BY <1>1, <1>3, <3>1, Names DEF UnitsInv
    <2>2. CASE Show(w)
      <3>1. done \in Nat /\ total \in Nat /\ lastClaimed \in Nat
        BY DEF TypeOK, ProgressTypeOK
      <3>2. done = total => Newest = total
        BY <3>1 DEF Newest
      <3>3. ShowProgress
        BY <2>2 DEF Show
      <3> QED
        BY <1>1, <3>1, <3>2, <3>3 DEF ShowProgress, ShownInv
    <2> QED
      BY <2>1, <2>2
  <1>7. /\ done' <= total'
        /\ done' + Cardinality(jobs') + Cardinality(InHand') + Cardinality(LeftToArp') = total'
        /\ stage' = "ping" => jobs' \cap unconfirmed' = {}
        /\ stage' = "sweep" => unconfirmed' = {}
    BY <1>1, <1>4 DEF UnitsInv
  <1> QED
    BY <1>1, <1>4, <1>5, <1>6, <1>7 DEF UnitsInv, BeforePings

(* A stage ends with all units counted, unless it was cut short, or SendARP
   gets those that are left. *)
LEMMA UnitsStageOver ==
  ASSUME TypeOK, ThreadInv, UnitsInv, StageOver
  PROVE  UnitsInv'
  <1>0. ThreadTypeOK /\ ScanTypeOK
    BY DEF TypeOK
  <1>1. /\ pc[Main] = "stage" /\ Joined /\ stage # "none"
        /\ UNCHANGED <<stop, windows, unconfirmed, total, done, lastClaimed>>
    BY DEF StageOver, ThreadInv, progressVars
  <1>2. InHand = {} /\ \A w \in Workers : pc[w] # "show"
    BY <1>1 DEF InHand, Joined
  <1>3. /\ done \in Nat /\ total \in Nat /\ Cardinality({}) = 0
        /\ Cardinality(jobs) \in Nat /\ Cardinality(InHand) \in Nat /\ Cardinality(LeftToArp) \in Nat
    BY UnitsFinite, FS_EmptySet DEF TypeOK, ProgressTypeOK
  <1>4. done + Cardinality(jobs) + Cardinality(LeftToArp) = total
    BY <1>1, <1>2, <1>3 DEF UnitsInv
  <1>5. done' = total' /\ total' # 0 => lastClaimed' = total'
    BY <1>1, <1>2 DEF UnitsInv
  <1>6. CASE stage = "ping" /\ windows /\ StartStage("arp", unconfirmed \cup jobs, Pool(FALSE))
    <2>1. Pool(FALSE) = Workers /\ First \in Workers
      BY DiscoveryAssumption DEF Pool
    <2>2. /\ stage' = "arp" /\ jobs' = unconfirmed \cup jobs /\ pc'[Main] = "stage"
          /\ \A w \in Workers : pc'[w] = "idle"
      BY <1>0, <1>6, <2>1, StartStageFacts
    <2>3. InHand' = {} /\ LeftToArp' = {} /\ ~Joined'
      BY <2>1, <2>2 DEF InHand, LeftToArp, Joined
    <2>4. LeftToArp = unconfirmed /\ unconfirmed \cap jobs = {}
      BY <1>6 DEF LeftToArp, UnitsInv
    <2>5. Cardinality(unconfirmed \cup jobs) = Cardinality(unconfirmed) + Cardinality(jobs)
      <3>1. IsFiniteSet(unconfirmed) /\ IsFiniteSet(jobs)
        BY UnitsFinite
      <3>2. Cardinality(unconfirmed \cup jobs)
              = Cardinality(unconfirmed) + Cardinality(jobs) - Cardinality(unconfirmed \cap jobs)
        BY <3>1, FS_Union, Zenon
      <3>3. Cardinality(unconfirmed \cap jobs) = 0
        BY <1>3, <2>4
      <3> QED
        BY <1>3, <2>4, <3>2, <3>3
    <2>6. done' + Cardinality(jobs') + Cardinality(InHand') + Cardinality(LeftToArp') = total'
      BY <1>1, <1>3, <1>4, <2>2, <2>3, <2>4, <2>5
    <2> QED
      BY <1>1, <1>5, <2>2, <2>3, <2>6 DEF UnitsInv, BeforePings
  <1>7. CASE /\ ~(stage = "ping" /\ windows /\ ~cut /\ unconfirmed \cup jobs # {})
             /\ Go(Main, AfterStage) /\ stage' = "none" /\ jobs' = {} /\ cut' = cut
    <2>1. pc'[Main] = AfterStage
      BY <1>0, <1>7, GoFacts, Names
    <2>2. AfterStage \in BeforePings => stage = "sweep"
      BY <1>0, <1>1, AfterStageFacts DEF ScanTypeOK, BeforePings
    <2>3. pc'[Main] \in BeforePings => unconfirmed' = {}
      BY <1>1, <2>1, <2>2 DEF UnitsInv
    <2>4. ~stop' /\ ~cut' => done' = total'
      <3>1. SUFFICES ASSUME ~stop, ~cut PROVE done = total
        BY <1>1, <1>7
      <3>2. jobs = {}
        BY <1>1, <3>1 DEF UnitsInv
      <3>3. LeftToArp = {}
        BY <1>7, <3>1, <3>2 DEF LeftToArp
      <3> QED
        BY <1>3, <1>4, <3>2, <3>3
    <2>5. done' <= total'
      BY <1>1 DEF UnitsInv
    <2> QED
      BY <1>5, <1>7, <2>3, <2>4, <2>5 DEF UnitsInv
  <1> QED
    BY <1>6, <1>7 DEF StageOver

(* The scan's thread starts a stage, or goes on without one. *)
LEMMA UnitsStage ==
  ASSUME TypeOK, ThreadInv, UnitsInv, SweepHosts \/ Confirm \/ Results
  PROVE  UnitsInv'
  <1>0. Joined /\ stage = "none" /\ UNCHANGED <<windows, unconfirmed, stop>> /\ ThreadTypeOK
    BY DEF SweepHosts, Confirm, Results, ThreadInv, TypeOK
  <1>1. pc[Main] \in {"sweep", "harvest"} => unconfirmed = {}
    BY DEF UnitsInv, BeforePings
  <1>2. Hosts \in SUBSET Hosts /\ candidates \in SUBSET Hosts /\ found \in SUBSET Hosts
    BY DEF TypeOK, ScanTypeOK, ListTypeOK
  <1>3. CASE SweepHosts
    <2>1. PICK ofOne \in BOOLEAN : StartStage("sweep", Hosts, Pool(ofOne))
      BY <1>3, StageStarts
    <2>2. StartPhase(Cardinality(Hosts)) /\ unconfirmed = {}
      BY <1>1, <1>3 DEF SweepHosts
    <2> QED
      BY <1>0, <1>2, <2>1, <2>2, PoolFacts, UnitsStart
  <1>4. ASSUME NEW where \in {"finish", "over"}, Go(Main, where),
               UNCHANGED <<stage, jobs, cut, total, done, lastClaimed>>
        PROVE  UnitsInv'
    <2>1. pc'[Main] = where /\ \A w \in Workers : pc'[w] = pc[w]
      BY <1>0, <1>4, GoFacts, Names
    <2>2. InHand' = InHand /\ pc'[Main] \notin BeforePings
      BY <2>1 DEF InHand, BeforePings
    <2> QED
      BY <1>0, <1>4, <2>1, <2>2, UnitsKept
  <1>5. CASE Confirm
    <2>1. \/ Go(Main, "finish") /\ UNCHANGED <<stage, jobs, cut, phase, total, done, lastClaimed, shown>>
          \/ /\ StartPhase(Cardinality(candidates))
             /\ \E ofOne \in BOOLEAN : StartStage("ping", candidates, Pool(ofOne))
      BY <1>5 DEF Confirm
    <2>2. unconfirmed = {}
      BY <1>1, <1>5 DEF Confirm
    <2>3. CASE Go(Main, "finish") /\ UNCHANGED <<stage, jobs, cut, phase, total, done, lastClaimed, shown>>
      BY <1>4, <2>3
    <2>4. CASE /\ StartPhase(Cardinality(candidates))
               /\ \E ofOne \in BOOLEAN : StartStage("ping", candidates, Pool(ofOne))
      <3>1. PICK ofOne \in BOOLEAN : StartStage("ping", candidates, Pool(ofOne))
        BY <2>4
      <3> QED
        BY <1>0, <1>2, <2>2, <2>4, <3>1, PoolFacts, UnitsStart
    <2> QED
      BY <2>1, <2>3, <2>4
  <1>6. CASE Results
    <2>1. \/ Go(Main, "over") /\ UNCHANGED <<stage, jobs, cut, total, done, lastClaimed>>
          \/ StartPhase(Cardinality(found)) /\ StartStage("identify", found, Pool(FALSE))
      BY <1>6 DEF Results, progressVars
    <2>2. CASE Go(Main, "over") /\ UNCHANGED <<stage, jobs, cut, total, done, lastClaimed>>
      BY <1>4, <2>2
    <2>3. CASE StartPhase(Cardinality(found)) /\ StartStage("identify", found, Pool(FALSE))
      <3>1. Pool(FALSE) = Workers /\ First \in Workers
        BY DiscoveryAssumption DEF Pool
      <3> QED
        BY <1>0, <1>2, <2>3, <3>1, UnitsStart
    <2> QED
      BY <2>1, <2>2, <2>3
  <1> QED
    BY <1>3, <1>5, <1>6

(* Every step keeps count of the units. *)
LEMMA UnitsStep ==
  ASSUME TypeOK, ThreadInv, ShownInv, UnitsInv, [Next]_vars
  PROVE  UnitsInv'
  <1>1. CASE Start \/ HarvestRow \/ Finish \/ Join
    <2>1. UNCHANGED <<stage, jobs, cut, stop, windows, unconfirmed, total, done, lastClaimed>>
      BY <1>1 DEF Start, HarvestRow, Finish, Join, scanVars, progressVars
    <2>2. InHand = {} /\ InHand' = {} /\ \A w \in Workers : pc[w] = "off"
      BY <1>1, MainFacts DEF InHand, Joined
    <2>3. pc'[Main] \in BeforePings => pc[Main] \in BeforePings
      <3>1. CASE Start \/ HarvestRow
        BY <3>1 DEF Start, HarvestRow, BeforePings
      <3>2. CASE Finish \/ Join
        <4>1. Go(Main, "results") \/ Go(Main, "join")
          BY <3>2 DEF Finish, Join
        <4> QED
          BY <4>1, GoFacts, Names DEF TypeOK, BeforePings
      <3> QED
        BY <1>1, <3>1, <3>2
    <2> QED
      BY <2>1, <2>2, <2>3, UnitsKept
  <1>2. CASE ReadTable
    <2>1. stage' = "none" /\ unconfirmed' = unconfirmed /\ unconfirmed = {}
      BY <1>2, MainFacts DEF ReadTable, UnitsInv, BeforePings
    <2>2. done' = 0 /\ total' = 0
      BY <1>2 DEF ReadTable, StartPhase
    <2> QED
      BY <2>1, <2>2 DEF UnitsInv
  <1>3. CASE Loop \/ Recv \/ RecvFails \/ AskName
    <2>1. UNCHANGED scanVars /\ \A b \in Actors : b # Listener => pc'[b] = pc[b]
      BY <1>3, ListenerFacts
    <2>2. UNCHANGED <<total, done, lastClaimed>>
      BY <1>3 DEF Loop, Recv, RecvFails, AskName, progressVars
    <2>3. pc'[Main] = pc[Main] /\ InHand' = InHand /\ \A w \in Workers : pc'[w] = pc[w]
      BY <2>1, Names DEF InHand
    <2> QED
      BY <2>1, <2>2, <2>3, UnitsKept DEF scanVars
  <1>4. CASE StageFails \/ Datagram \/ StopRequest \/ UNCHANGED vars
    <2>1. UNCHANGED <<pc, stage, jobs, windows, unconfirmed, total, done, lastClaimed>>
      BY <1>4 DEF StageFails, Datagram, StopRequest, vars, scanVars, progressVars
    <2>2. (stop => stop') /\ (cut => cut')
      BY <1>4 DEF StageFails, Datagram, StopRequest, vars, scanVars
    <2>3. InHand' = InHand
      BY <2>1 DEF InHand
    <2> QED
      BY <2>1, <2>2, <2>3, UnitsKept
  <1> QED
    BY <1>1, <1>2, <1>3, <1>4, NextCases, UnitsReport, UnitsSettle, UnitsCount, UnitsShow, UnitsStage,
       UnitsStageOver

-----------------------------------------------------------------------------
(* The results. *)

LEMMA InitIInv == Init => IInv
  <1> SUFFICES ASSUME Init PROVE IInv
    OBVIOUS
  <1>1. /\ pc \in [Actors -> {"start", "off"}] /\ pc[Main] = "start"
        /\ \A a \in Actors : a # Main => pc[a] = "off"
    BY Names DEF Init
  <1>2. host \in [Actors -> Hosts \cup {Nobody}] /\ \A a \in Actors : host[a] = Nobody
    BY DEF Init
  <1>3. ThreadTypeOK
    BY <1>1, <1>2, Names DEF ThreadTypeOK, MainPcs, ListenerPcs, WorkerPcs
  <1>4. ScanTypeOK
    <2>1. cut \in BOOLEAN /\ stop \in BOOLEAN /\ windows \in BOOLEAN /\ pings \in BOOLEAN
      BY DEF Init
    <2> QED
      BY <2>1 DEF Init, ScanTypeOK
  <1>5. ListTypeOK
    BY DEF Init, ListTypeOK
  <1>6. SocketTypeOK
    <2>1. quit \in BOOLEAN
      BY DEF Init
    <2> QED
      BY <2>1 DEF Init, SocketTypeOK
  <1>7. ProgressTypeOK /\ ShownInv
    BY DEF Init, ProgressInit, ProgressTypeOK, ShownInv
  <1>8. stage = "none" /\ jobs = {} /\ socket = "none" /\ closes = 0 /\ lock = Nobody /\ found = {}
    BY DEF Init
  <1>9. ThreadInv
    BY <1>1, <1>2, <1>8, Names DEF ThreadInv, Joined
  <1>10. SocketInv
    BY <1>1, <1>8, Names DEF SocketInv
  <1>11. LockInv
    BY <1>1, <1>8, Names DEF LockInv
  <1>12. EventsMatchSummary
    <2>1. \A h \in Hosts : events[h] = 0
      BY DEF Init
    <2> QED
      BY <1>1, <1>8, <2>1, Names DEF EventsMatchSummary
  <1> QED
    BY <1>3, <1>4, <1>5, <1>6, <1>7, <1>9, <1>10, <1>11, <1>12 DEF IInv, TypeOK, ListInv

LEMMA StepIInv == IInv /\ [Next]_vars => IInv'
  <1> SUFFICES ASSUME IInv, [Next]_vars PROVE IInv'
    OBVIOUS
  <1>1. TypeOK'
    BY ThreadTypeStep, ScanTypeStep, ListTypeStep, SocketTypeStep, ProgressTypeStep DEF IInv, TypeOK
  <1>2. ThreadInv' /\ SocketInv' /\ ShownInv'
    BY ThreadStep, SocketStep, ShownStep DEF IInv
  <1>3. ListInv'
    BY LockStep, EventsStep DEF IInv, ListInv
  <1> QED
    BY <1>1, <1>2, <1>3 DEF IInv

(* The inductive invariant holds throughout. *)
LEMMA Invariance == Spec => []IInv
  BY InitIInv, StepIInv, PTL DEF Spec

(* Every thread is at a place of its own code, and what the threads share
   keeps its type. *)
THEOREM TypeCorrect == Spec => []TypeOK
  <1>1. IInv => TypeOK
    BY DEF IInv
  <1> QED
    BY <1>1, Invariance, PTL

(* However sweep, listener, harvest and their threads interleave, a host has
   one event, before its unit is counted, and the summary has the hosts that
   had one. *)
THEOREM EventsTheorem == Spec => []EventsMatchSummary
  <1>1. IInv => EventsMatchSummary
    BY DEF IInv, ListInv
  <1> QED
    BY <1>1, Invariance, PTL

(* The listener never uses a socket that was closed under it, and the scan
   leaves none open. *)
THEOREM SocketTheorem == Spec => []SocketOutlivesListener
  <1>1. IInv => SocketOutlivesListener
    BY DEF IInv, SocketInv, SocketOutlivesListener, Over
  <1> QED
    BY <1>1, Invariance, PTL

(* Whoever gets to the output lock first, counts printed in a phase only
   increase, and phases come in order. *)
THEOREM CountsTheorem == Spec => CountsOnlyIncrease
  <1>1. IInv /\ [Next]_vars =>
          [shown' # shown => \/ shown[1] < shown'[1]
                             \/ shown[1] = shown'[1] /\ shown[2] < shown'[2]]_vars
    BY ShownStep DEF IInv
  <1> QED
    BY <1>1, Invariance, PTL DEF Spec, CountsOnlyIncrease

(* Whichever worker is last to count or to print, a phase that was neither
   stopped nor cut short ends with its total printed, and none has it printed
   before every unit is done. *)
THEOREM PhaseTheorem == Spec => []PhaseEndsFull
  <1>1. Init => UnitsInv
    <2> SUFFICES ASSUME Init PROVE UnitsInv
      OBVIOUS
    <2>1. stage = "none" /\ unconfirmed = {} /\ total = 0 /\ done = 0
      BY DEF Init, ProgressInit
    <2> QED
      BY <2>1 DEF UnitsInv
  <1>2. IInv /\ UnitsInv /\ [Next]_vars => UnitsInv'
    BY UnitsStep DEF IInv
  <1>3. IInv /\ UnitsInv => PhaseEndsFull
    BY UnitsFull DEF IInv
  <1> QED
    BY <1>1, <1>2, <1>3, Invariance, PTL DEF Spec

-----------------------------------------------------------------------------
(* Naming a host (UdpExchange), for any number of requests of a call.      *)

ReturnedTo == {"name", "done"}
Opened == {"empty", "reply", "refused", "corrupt"}
Waited == {waiting[k] : k \in 1..Len(waiting)}

(* The sockets waited for are those of requests already sent, each once, and
   each is its own request's. *)
PlaceInv ==
  /\ owner = waiting /\ Len(waiting) <= i
  /\ \A k \in 1..Len(waiting) : waiting[k] < i
  /\ \A k, m \in 1..Len(waiting) : waiting[k] = waiting[m] => k = m
  /\ step # "send" => deadline \in Nat
  /\ step \in {"poll", "walk"} => start \in Nat

(* Until the exchange returns, the open sockets are the waited for; a socket
   is closed as often as it has to be. *)
OpenInv ==
  \A s \in Requests :
    /\ s >= i => inbox[s] = "unopened"
    /\ inbox[s] \in Opened <=> step \notin ReturnedTo /\ s \in Waited
    /\ closings[s] = IF inbox[s] = "closed" THEN 1 ELSE 0

(* A reply is in its socket or in its own request's buffer. One still in a
   socket came while nothing looked, or the walk has it ahead. *)
ReplyInv ==
  \A s \in Requests :
    /\ inbox[s] = "unopened" => arrived[s] = Never
    /\ inbox[s] = "reply" => arrived[s] # Never
    /\ inbox[s] \in Opened /\ arrived[s] # Never => inbox[s] = "reply"
    /\ resp[s] # None => resp[s] = s /\ arrived[s] # Never
    /\ step \notin ReturnedTo /\ arrived[s] # Never => inbox[s] = "reply" \/ resp[s] = s
    /\ step \in {"send", "top"} /\ inbox[s] = "reply" => arrived[s] >= clock

WalkInv ==
  step = "walk" =>
    /\ j <= Len(waiting)
    /\ \A k \in ready : k <= j => inbox[waiting[k]] # "empty"
    /\ \A k \in 1..Len(waiting) :
         inbox[waiting[k]] = "reply" => arrived[waiting[k]] >= clock \/ (k \in ready /\ k <= j)

ExchangeIInv ==
  /\ ExchangeTypeOK /\ PlaceInv /\ OpenInv /\ ReplyInv /\ WalkInv
  /\ WaitIsShared /\ InTimeIsKept

-----------------------------------------------------------------------------
(* What the variables hold, as the steps below need it. *)
LEMMA ExchangeFacts ==
  ASSUME ExchangeIInv
  PROVE  /\ Timeout \in Nat /\ Timeout >= 1 /\ WaitMax \in Nat /\ count \in Counts /\ count \in 1..WaitMax
         /\ i \in Nat /\ i <= count /\ Len(waiting) \in Nat /\ Len(waiting) <= i /\ Len(waiting) <= WaitMax
         /\ waiting \in Seq(Requests) /\ owner = waiting /\ (\A k \in 1..Len(waiting) : waiting[k] \in Requests)
         /\ j \in Nat /\ j <= WaitMax /\ ready \subseteq 1..WaitMax /\ clock \in Nat
         /\ inbox \in [Requests -> {"unopened", "empty", "reply", "refused", "corrupt", "closed"}]
         /\ arrived \in [Requests -> Nat \cup {Never}] /\ closings \in [Requests -> Nat]
         /\ resp \in [Requests -> Requests \cup {None}] /\ failed \in BOOLEAN
         /\ deadline \in Nat \cup {Never} /\ start \in Nat \cup {Never} /\ wake \in Nat \cup {Never}
         /\ Requests \subseteq Nat /\ Never \notin Nat /\ None \notin Requests
         /\ \A k \in 1..Len(waiting) : inbox[waiting[k]] \in Opened \/ step \in ReturnedTo
  <1>1. Timeout \in Nat /\ Timeout >= 1 /\ WaitMax \in Nat /\ count \in Counts /\ count \in 1..WaitMax
    BY ExchangeAssumption DEF ExchangeIInv, ExchangeTypeOK
  <1>2. i \in Nat /\ i <= count /\ waiting \in Seq(Requests) /\ Len(waiting) <= i /\ owner = waiting
    BY <1>1 DEF ExchangeIInv, ExchangeTypeOK, PlaceInv
  <1>3. Len(waiting) \in Nat /\ Len(waiting) <= WaitMax /\ \A k \in 1..Len(waiting) : waiting[k] \in Requests
    BY <1>1, <1>2
  <1>4. Requests \subseteq Nat /\ Never \notin Nat /\ None \notin Requests
    BY <1>1 DEF Requests, Never, None
  <1>5. \A k \in 1..Len(waiting) : inbox[waiting[k]] \in Opened \/ step \in ReturnedTo
    BY <1>3 DEF ExchangeIInv, OpenInv, Waited
  <1>6. j \in Nat /\ j <= WaitMax
    BY <1>1 DEF ExchangeIInv, ExchangeTypeOK
  <1> QED
    BY <1>1, <1>2, <1>3, <1>4, <1>5, <1>6 DEF ExchangeIInv, ExchangeTypeOK

(* No call has begun: nothing is open, sent or answered. *)
LEMMA ExchangeInitIInv == ExchangeInit => ExchangeIInv
  <1> SUFFICES ASSUME ExchangeInit PROVE ExchangeIInv
    OBVIOUS
  <1>1. Timeout \in Nat /\ WaitMax \in Nat /\ count \in Counts /\ count \in 1..WaitMax /\ Requests \subseteq Nat
    BY ExchangeAssumption DEF ExchangeInit, Requests
  <1>2. Len(waiting) = 0 /\ 1..0 = {} /\ Waited = {}
    BY DEF ExchangeInit, Waited
  <1>3. ExchangeTypeOK
    <2>1. waiting \in Seq(Requests) /\ owner \in Seq(Requests) /\ Len(owner) = Len(waiting)
      BY DEF ExchangeInit
    <2>2. i \in 0..count /\ j \in 0..WaitMax /\ ready \subseteq 1..WaitMax /\ clock \in Nat
      BY <1>1 DEF ExchangeInit
    <2>3. /\ resp \in [Requests -> Requests \cup {None}] /\ arrived \in [Requests -> Nat \cup {Never}]
          /\ closings \in [Requests -> Nat]
          /\ inbox \in [Requests -> {"unopened", "empty", "reply", "refused", "corrupt", "closed"}]
      BY DEF ExchangeInit
    <2> QED
      BY <1>1, <2>1, <2>2, <2>3 DEF ExchangeInit, ExchangeTypeOK
  <1>4. PlaceInv
    BY <1>1, <1>2 DEF ExchangeInit, PlaceInv
  <1>5. OpenInv
    BY <1>2 DEF ExchangeInit, OpenInv, Opened
  <1>6. ReplyInv /\ WalkInv /\ WaitIsShared /\ InTimeIsKept
    BY DEF ExchangeInit, ReplyInv, WalkInv, WaitIsShared, InTimeIsKept, Opened, ReturnedTo
  <1> QED
    BY <1>3, <1>4, <1>5, <1>6 DEF ExchangeIInv

(* What a step keeps that touches neither socket, reply nor buffer. *)
LEMMA SameSockets ==
  ASSUME ExchangeIInv, step' \in ReturnedTo <=> step \in ReturnedTo,
         UNCHANGED <<count, i, waiting, owner, resp, inbox, arrived, closings>>
  PROVE  /\ OpenInv' /\ Waited' = Waited
         /\ \A s \in Requests :
              /\ inbox[s] = "unopened" => arrived[s] = Never
              /\ inbox[s] = "reply" => arrived[s] # Never
              /\ inbox[s] \in Opened /\ arrived[s] # Never => inbox[s] = "reply"
              /\ resp[s] # None => resp[s] = s /\ arrived[s] # Never
              /\ step' \notin ReturnedTo /\ arrived[s] # Never => inbox[s] = "reply" \/ resp[s] = s
  <1>1. Waited' = Waited
    BY DEF Waited
  <1> QED
    BY <1>1 DEF ExchangeIInv, OpenInv, ReplyInv

(* The last request is out: the clock of the shared wait starts. *)
LEMMA SentIInv == ASSUME ExchangeIInv, Sent PROVE ExchangeIInv'
  <1>1. /\ step = "send" /\ step' = "top" /\ deadline' = clock + Timeout
        /\ UNCHANGED <<count, i, waiting, owner, ready, j, start, wake, resp, name, worldVars, closings, failed>>
    BY DEF Sent
  <1>2. UNCHANGED <<clock, inbox, arrived>>
    BY <1>1 DEF worldVars
  <1>3. deadline' \in Nat /\ clock <= deadline'
    BY <1>1, ExchangeFacts
  <1>4. ExchangeTypeOK'
    BY <1>1, <1>2, <1>3 DEF ExchangeIInv, ExchangeTypeOK
  <1>5. PlaceInv'
    BY <1>1, <1>3 DEF ExchangeIInv, PlaceInv
  <1>6. OpenInv' /\ ReplyInv'
    BY <1>1, <1>2, SameSockets DEF ExchangeIInv, ReplyInv, ReturnedTo
  <1>7. WalkInv'
    BY <1>1 DEF WalkInv
  <1>8. WaitIsShared' /\ InTimeIsKept'
    BY <1>1, <1>2, <1>3, ExchangeFacts DEF ExchangeIInv, WaitIsShared, InTimeIsKept
  <1> QED
    BY <1>4, <1>5, <1>6, <1>7, <1>8 DEF ExchangeIInv

(* The loop goes into ns_wait_any with what is left of the shared wait. *)
LEMMA WaitIInv == ASSUME ExchangeIInv, Wait PROVE ExchangeIInv'
  <1>1. /\ step = "top" /\ step' = "poll" /\ start' = clock /\ wake' = deadline
        /\ UNCHANGED <<count, i, waiting, owner, ready, j, deadline, resp, name, worldVars, closings, failed>>
    BY DEF Wait
  <1>2. UNCHANGED <<clock, inbox, arrived>>
    BY <1>1 DEF worldVars
  <1>3. deadline \in Nat /\ clock \in Nat /\ clock <= deadline + 1
    BY <1>1, ExchangeFacts DEF ExchangeIInv, PlaceInv, WaitIsShared
  <1>4. ExchangeTypeOK'
    BY <1>1, <1>2, <1>3 DEF ExchangeIInv, ExchangeTypeOK
  <1>5. PlaceInv'
    BY <1>1, <1>3 DEF ExchangeIInv, PlaceInv
  <1>6. OpenInv' /\ ReplyInv'
    BY <1>1, <1>2, SameSockets DEF ExchangeIInv, ReplyInv, ReturnedTo
  <1>7. WalkInv' /\ WaitIsShared' /\ InTimeIsKept'
    BY <1>1, <1>2, <1>3 DEF ExchangeIInv, WalkInv, WaitIsShared, InTimeIsKept
  <1> QED
    BY <1>4, <1>5, <1>6, <1>7 DEF ExchangeIInv

(* poll found sockets with something to read: the walk over them begins. *)
LEMMA PollReadyIInv == ASSUME ExchangeIInv, PollReady PROVE ExchangeIInv'
  <1>1. /\ step = "poll" /\ step' = "walk" /\ ready' = Readable /\ j' = Len(waiting)
        /\ UNCHANGED <<count, i, waiting, owner, deadline, start, wake, resp, name, worldVars, closings, failed>>
    BY DEF PollReady
  <1>2. UNCHANGED <<clock, inbox, arrived>>
    BY <1>1 DEF worldVars
  <1>3. Readable = {k \in 1..Len(waiting) : inbox[waiting[k]] # "empty"}
    BY ExchangeFacts DEF Readable
  <1>4. Readable \subseteq 1..WaitMax /\ Len(waiting) \in 0..WaitMax
    BY <1>3, ExchangeFacts
  <1>5. ExchangeTypeOK'
    BY <1>1, <1>2, <1>4 DEF ExchangeIInv, ExchangeTypeOK
  <1>6. PlaceInv'
    BY <1>1 DEF ExchangeIInv, PlaceInv
  <1>7. OpenInv' /\ ReplyInv'
    BY <1>1, <1>2, SameSockets DEF ExchangeIInv, ReplyInv, ReturnedTo
  <1>8. WalkInv'
    <2>1. \A k \in 1..Len(waiting) : inbox[waiting[k]] = "reply" => k \in Readable /\ k <= Len(waiting)
      BY <1>3
    <2> QED
      BY <1>1, <1>2, <1>3, <2>1, ExchangeFacts DEF WalkInv
  <1>9. WaitIsShared' /\ InTimeIsKept'
    BY <1>1, <1>2 DEF ExchangeIInv, WaitIsShared, InTimeIsKept
  <1> QED
    BY <1>5, <1>6, <1>7, <1>8, <1>9 DEF ExchangeIInv

(* A walk ends with every reply it was to read in its buffer. *)
LEMMA WalkOverIInv == ASSUME ExchangeIInv, WalkOver PROVE ExchangeIInv'
  <1>1. /\ step = "walk" /\ j = 0 /\ step' = "top"
        /\ UNCHANGED <<callVars, resp, name, worldVars, closings, failed>>
    BY DEF WalkOver
  <1>2. UNCHANGED <<clock, inbox, arrived, count, i, waiting, owner, ready, j, deadline, start, wake>>
    BY <1>1 DEF worldVars, callVars
  <1>3. ExchangeTypeOK' /\ PlaceInv'
    BY <1>1, <1>2 DEF ExchangeIInv, ExchangeTypeOK, PlaceInv
  <1>4. ASSUME NEW s \in Requests, inbox[s] = "reply" PROVE arrived[s] >= clock
    <2>1. PICK k \in 1..Len(waiting) : waiting[k] = s
      BY <1>1, <1>4 DEF ExchangeIInv, OpenInv, Opened, Waited
    <2>2. k \notin ready \/ ~(k <= j)
      BY <1>1, <2>1
    <2> QED
      BY <1>1, <1>4, <2>1, <2>2 DEF ExchangeIInv, WalkInv
  <1>5. OpenInv' /\ ReplyInv'
    BY <1>1, <1>2, <1>4, SameSockets DEF ReplyInv, ReturnedTo
  <1>6. WalkInv' /\ WaitIsShared' /\ InTimeIsKept'
    BY <1>1, <1>2 DEF ExchangeIInv, WalkInv, WaitIsShared, InTimeIsKept
  <1> QED
    BY <1>3, <1>5, <1>6 DEF ExchangeIInv

(* Naming the host reads the buffers only. *)
LEMMA NameIInv == ASSUME ExchangeIInv, Name PROVE ExchangeIInv'
  <1>1. /\ step = "name" /\ step' = "done"
        /\ UNCHANGED <<callVars, resp, worldVars, closings, failed>>
    BY DEF Name
  <1>2. UNCHANGED <<clock, inbox, arrived, count, i, waiting, owner, ready, j, deadline, start, wake>>
    BY <1>1 DEF worldVars, callVars
  <1>3. name' \in {"netbios", "heard", "mdns", "dns", "unknown"}
    BY DEF Name
  <1>4. ExchangeTypeOK' /\ PlaceInv'
    BY <1>1, <1>2, <1>3 DEF ExchangeIInv, ExchangeTypeOK, PlaceInv
  <1>5. OpenInv' /\ ReplyInv'
    BY <1>1, <1>2, SameSockets DEF ReplyInv, ReturnedTo
  <1>6. WalkInv' /\ WaitIsShared' /\ InTimeIsKept'
    BY <1>1, <1>2 DEF ExchangeIInv, WalkInv, WaitIsShared, InTimeIsKept
  <1> QED
    BY <1>4, <1>5, <1>6 DEF ExchangeIInv

(* Time passes in poll, which may return a millisecond late. *)
LEMMA ClockIInv == ASSUME ExchangeIInv, Tick PROVE ExchangeIInv'
  <1>1. /\ step = "poll" /\ step' = step /\ clock <= wake /\ clock' = clock + 1
        /\ UNCHANGED <<callVars, resp, name, inbox, arrived, closings, failed>>
    BY DEF Tick
  <1>2. UNCHANGED <<count, i, waiting, owner, ready, j, deadline, start, wake>>
    BY <1>1 DEF callVars
  <1>3. clock \in Nat /\ deadline \in Nat /\ wake \in Nat \cup {Never} /\ wake <= deadline
    BY <1>1, ExchangeFacts DEF ExchangeIInv, PlaceInv, WaitIsShared
  <1>4. clock + 1 \in Nat /\ clock + 1 <= deadline + 1
    BY <1>1, <1>3 DEF Never
  <1>5. ExchangeTypeOK' /\ PlaceInv'
    BY <1>1, <1>2, <1>4 DEF ExchangeIInv, ExchangeTypeOK, PlaceInv
  <1>6. OpenInv' /\ ReplyInv'
    BY <1>1, <1>2, SameSockets DEF ReplyInv, ReturnedTo
  <1>7. WalkInv' /\ WaitIsShared' /\ InTimeIsKept'
    BY <1>1, <1>2, <1>4 DEF ExchangeIInv, WalkInv, WaitIsShared, InTimeIsKept
  <1> QED
    BY <1>5, <1>6, <1>7 DEF ExchangeIInv

(* A request whose socket could not be had, connected or sent on. *)
LEMMA SendFailsIInv == ASSUME ExchangeIInv, SendFails PROVE ExchangeIInv'
  <1>0. /\ step = "send" /\ i < count /\ i' = i + 1
        /\ UNCHANGED <<step, count, waiting, owner, ready, j, deadline, start, wake, resp, name, clock,
                       arrived, failed>>
        /\ UNCHANGED <<inbox, closings>> \/ Close({i})
    BY DEF SendFails
  <1>1. i \in Requests /\ inbox[i] = "unopened" /\ closings[i] = 0 /\ i \in Nat /\ i + 1 <= count /\ i \notin Waited
    <2>1. i \in Requests /\ i \in Nat /\ i + 1 <= count
      BY <1>0, ExchangeFacts DEF Requests
    <2> QED
      BY <2>1, <1>0 DEF ExchangeIInv, OpenInv, Opened, ReturnedTo
  <1>2. /\ inbox' \in [Requests -> {"unopened", "empty", "reply", "refused", "corrupt", "closed"}]
        /\ closings' \in [Requests -> Nat]
        /\ \A s \in Requests : s # i => inbox'[s] = inbox[s] /\ closings'[s] = closings[s]
        /\ \/ inbox'[i] = "unopened" /\ closings'[i] = 0
           \/ inbox'[i] = "closed" /\ closings'[i] = 1
    <2>1. CASE UNCHANGED <<inbox, closings>>
      BY <1>1, <2>1, ExchangeFacts
    <2>2. CASE Close({i})
      BY <1>1, <2>2, ExchangeFacts DEF Close
    <2> QED
      BY <1>0, <2>1, <2>2
  <1>3. ExchangeTypeOK'
    <2>1. i + 1 \in 0..count
      BY <1>1, ExchangeFacts
    <2> QED
      BY <1>0, <1>2, <2>1 DEF ExchangeIInv, ExchangeTypeOK
  <1>4. PlaceInv'
    <2>1. Len(waiting) <= i + 1 /\ \A k \in 1..Len(waiting) : waiting[k] < i + 1
      BY ExchangeFacts DEF ExchangeIInv, PlaceInv
    <2> QED
      BY <1>0, <2>1 DEF ExchangeIInv, PlaceInv
  <1>5. Waited' = Waited
    BY <1>0 DEF Waited
  <1>6. OpenInv'
    <2> SUFFICES ASSUME NEW s \in Requests
                 PROVE  /\ s >= i + 1 => inbox'[s] = "unopened"
                        /\ inbox'[s] \in Opened <=> step \notin ReturnedTo /\ s \in Waited
                        /\ closings'[s] = IF inbox'[s] = "closed" THEN 1 ELSE 0
      BY <1>0, <1>5 DEF OpenInv
    <2>1. CASE s = i
      BY <1>1, <1>2, <2>1 DEF Opened
    <2>2. CASE s # i
      <3>1. s >= i + 1 => s >= i
        BY <1>1, ExchangeFacts
      <3> QED
        BY <1>2, <2>2, <3>1 DEF ExchangeIInv, OpenInv
    <2> QED
      BY <2>1, <2>2
  <1>7. ReplyInv'
    <2> SUFFICES ASSUME NEW s \in Requests
                 PROVE  /\ inbox'[s] = "unopened" => arrived[s] = Never
                        /\ inbox'[s] = "reply" => arrived[s] # Never
                        /\ inbox'[s] \in Opened /\ arrived[s] # Never => inbox'[s] = "reply"
                        /\ resp[s] # None => resp[s] = s /\ arrived[s] # Never
                        /\ step \notin ReturnedTo /\ arrived[s] # Never => inbox'[s] = "reply" \/ resp[s] = s
                        /\ step \in {"send", "top"} /\ inbox'[s] = "reply" => arrived[s] >= clock
      BY <1>0 DEF ReplyInv
    <2>1. CASE s = i
      BY <1>1, <1>2, <2>1 DEF ExchangeIInv, ReplyInv, Opened
    <2>2. CASE s # i
      BY <1>2, <2>2 DEF ExchangeIInv, ReplyInv
    <2> QED
      BY <2>1, <2>2
  <1>8. WalkInv' /\ WaitIsShared' /\ InTimeIsKept'
    BY <1>0 DEF ExchangeIInv, WalkInv, WaitIsShared, InTimeIsKept
  <1> QED
    BY <1>3, <1>4, <1>6, <1>7, <1>8 DEF ExchangeIInv

(* A request is out, and its socket is the last in waiting[]. *)
LEMMA SendIInv == ASSUME ExchangeIInv, Send PROVE ExchangeIInv'
  <1>0. /\ step = "send" /\ i < count /\ i' = i + 1
        /\ waiting' = Append(waiting, i) /\ owner' = Append(owner, i)
        /\ inbox' = [inbox EXCEPT ![i] = "empty"]
        /\ UNCHANGED <<step, count, ready, j, deadline, start, wake, resp, name, clock, arrived, closings, failed>>
    BY DEF Send, Open
  <1>1. i \in Requests /\ inbox[i] = "unopened" /\ closings[i] = 0 /\ i \in Nat /\ i + 1 <= count
    <2>1. i \in Requests /\ i \in Nat /\ i + 1 <= count
      BY <1>0, ExchangeFacts DEF Requests
    <2> QED
      BY <2>1, <1>0 DEF ExchangeIInv, OpenInv
  <1>2. /\ inbox' \in [Requests -> {"unopened", "empty", "reply", "refused", "corrupt", "closed"}]
        /\ inbox'[i] = "empty" /\ \A s \in Requests : s # i => inbox'[s] = inbox[s]
    BY <1>0, <1>1, ExchangeFacts
  <1>3. /\ waiting' \in Seq(Requests) /\ owner' = waiting' /\ Len(waiting') = Len(waiting) + 1
        /\ waiting'[Len(waiting) + 1] = i
        /\ \A k \in 1..Len(waiting) : waiting'[k] = waiting[k]
    BY <1>0, <1>1, ExchangeFacts
  <1>4. 1..(Len(waiting) + 1) = (1..Len(waiting)) \cup {Len(waiting) + 1}
    BY ExchangeFacts
  <1>5. ExchangeTypeOK'
    <2>1. i + 1 \in 0..count
      BY <1>1, ExchangeFacts
    <2> QED
      BY <1>0, <1>2, <1>3, <2>1 DEF ExchangeIInv, ExchangeTypeOK
  <1>6. \A k \in 1..Len(waiting) : waiting[k] < i /\ waiting[k] \in Nat
    BY ExchangeFacts DEF ExchangeIInv, PlaceInv
  <1>7. PlaceInv'
    <2>1. Len(waiting') <= i + 1
      BY <1>1, <1>3, ExchangeFacts
    <2>2. ASSUME NEW k \in 1..Len(waiting') PROVE waiting'[k] < i + 1
      BY <1>1, <1>3, <1>4, <1>6, <2>2
    <2>3. ASSUME NEW k \in 1..Len(waiting'), NEW m \in 1..Len(waiting'), waiting'[k] = waiting'[m] PROVE k = m
      <3>1. \A a, b \in 1..Len(waiting) : waiting[a] = waiting[b] => a = b
        BY DEF ExchangeIInv, PlaceInv
      <3> QED
        BY <1>1, <1>3, <1>4, <1>6, <2>3, <3>1
    <2> QED
      BY <1>0, <1>3, <2>1, <2>2, <2>3 DEF ExchangeIInv, PlaceInv
  <1>8. Waited' = Waited \cup {i}
    BY <1>3, <1>4 DEF Waited
  <1>9. OpenInv'
    <2> SUFFICES ASSUME NEW s \in Requests
                 PROVE  /\ s >= i + 1 => inbox'[s] = "unopened"
                        /\ inbox'[s] \in Opened <=> step \notin ReturnedTo /\ s \in Waited \cup {i}
                        /\ closings[s] = IF inbox'[s] = "closed" THEN 1 ELSE 0
      BY <1>0, <1>8 DEF OpenInv
    <2>1. CASE s = i
      BY <1>0, <1>1, <1>2, <2>1 DEF Opened, ReturnedTo
    <2>2. CASE s # i
      <3>1. s >= i + 1 => s >= i
        BY <1>1, ExchangeFacts
      <3> QED
        BY <1>2, <2>2, <3>1 DEF ExchangeIInv, OpenInv
    <2> QED
      BY <2>1, <2>2
  <1>10. ReplyInv'
    <2> SUFFICES ASSUME NEW s \in Requests
                 PROVE  /\ inbox'[s] = "unopened" => arrived[s] = Never
                        /\ inbox'[s] = "reply" => arrived[s] # Never
                        /\ inbox'[s] \in Opened /\ arrived[s] # Never => inbox'[s] = "reply"
                        /\ resp[s] # None => resp[s] = s /\ arrived[s] # Never
                        /\ step \notin ReturnedTo /\ arrived[s] # Never => inbox'[s] = "reply" \/ resp[s] = s
                        /\ step \in {"send", "top"} /\ inbox'[s] = "reply" => arrived[s] >= clock
      BY <1>0 DEF ReplyInv
    <2>1. CASE s = i
      BY <1>1, <1>2, <2>1 DEF ExchangeIInv, ReplyInv, Opened
    <2>2. CASE s # i
      BY <1>2, <2>2 DEF ExchangeIInv, ReplyInv
    <2> QED
      BY <2>1, <2>2
  <1>11. WalkInv' /\ WaitIsShared' /\ InTimeIsKept'
    BY <1>0 DEF ExchangeIInv, WalkInv, WaitIsShared, InTimeIsKept
  <1> QED
    BY <1>5, <1>7, <1>9, <1>10, <1>11 DEF ExchangeIInv

(* Something reaches a socket; what it brings is there to be read. *)
LEMMA ArriveIInv == ASSUME ExchangeIInv, Arrive PROVE ExchangeIInv'
  <1>1. PICK s \in Requests, what \in {"reply", "refused", "corrupt"} :
          /\ inbox[s] = "empty" /\ arrived[s] = Never
          /\ inbox' = [inbox EXCEPT ![s] = what]
          /\ arrived' = IF what = "reply" THEN [arrived EXCEPT ![s] = clock] ELSE arrived
    BY DEF Arrive
  <1>2. UNCHANGED <<step, callVars, resp, name, clock, closings, failed>>
    BY DEF Arrive
  <1>3. UNCHANGED <<count, i, waiting, owner, ready, j, deadline, start, wake>>
    BY <1>2 DEF callVars
  <1>4. /\ inbox' \in [Requests -> {"unopened", "empty", "reply", "refused", "corrupt", "closed"}]
        /\ inbox'[s] = what /\ \A r \in Requests : r # s => inbox'[r] = inbox[r]
    BY <1>1, ExchangeFacts
  <1>5. /\ arrived' \in [Requests -> Nat \cup {Never}]
        /\ (what = "reply" => arrived'[s] = clock) /\ (what # "reply" => arrived'[s] = Never)
        /\ \A r \in Requests : r # s => arrived'[r] = arrived[r]
    BY <1>1, ExchangeFacts
  <1>6. s \in Waited /\ step \notin ReturnedTo
    BY <1>1 DEF ExchangeIInv, OpenInv, Opened
  <1>7. ExchangeTypeOK' /\ PlaceInv'
    BY <1>2, <1>3, <1>4, <1>5 DEF ExchangeIInv, ExchangeTypeOK, PlaceInv
  <1>8. OpenInv'
    <2>1. Waited' = Waited
      BY <1>3 DEF Waited
    <2> SUFFICES ASSUME NEW r \in Requests
                 PROVE  /\ r >= i => inbox'[r] = "unopened"
                        /\ inbox'[r] \in Opened <=> step \notin ReturnedTo /\ r \in Waited
                        /\ closings[r] = IF inbox'[r] = "closed" THEN 1 ELSE 0
      BY <1>2, <1>3, <2>1 DEF OpenInv
    <2>2. CASE r = s
      BY <1>1, <1>4, <1>6, <2>2 DEF ExchangeIInv, OpenInv, Opened
    <2>3. CASE r # s
      BY <1>4, <2>3 DEF ExchangeIInv, OpenInv
    <2> QED
      BY <2>2, <2>3
  <1>9. resp[s] = None /\ clock \in Nat /\ Never \notin Nat
    BY <1>1, ExchangeFacts DEF ExchangeIInv, ReplyInv
  <1>10. ReplyInv'
    <2> SUFFICES ASSUME NEW r \in Requests
                 PROVE  /\ inbox'[r] = "unopened" => arrived'[r] = Never
                        /\ inbox'[r] = "reply" => arrived'[r] # Never
                        /\ inbox'[r] \in Opened /\ arrived'[r] # Never => inbox'[r] = "reply"
                        /\ resp[r] # None => resp[r] = r /\ arrived'[r] # Never
                        /\ step \notin ReturnedTo /\ arrived'[r] # Never => inbox'[r] = "reply" \/ resp[r] = r
                        /\ step \in {"send", "top"} /\ inbox'[r] = "reply" => arrived'[r] >= clock
      BY <1>2 DEF ReplyInv
    <2>1. CASE r = s
      BY <1>4, <1>5, <1>9, <2>1
    <2>2. CASE r # s
      BY <1>4, <1>5, <2>2 DEF ExchangeIInv, ReplyInv
    <2> QED
      BY <2>1, <2>2
  <1>11. WalkInv'
    <2> SUFFICES ASSUME step = "walk"
                 PROVE  /\ j <= Len(waiting)
                        /\ \A k \in ready : k <= j => inbox'[waiting[k]] # "empty"
                        /\ \A k \in 1..Len(waiting) :
                             inbox'[waiting[k]] = "reply" => arrived'[waiting[k]] >= clock \/ (k \in ready /\ k <= j)
      BY <1>2, <1>3 DEF WalkInv
    <2>1. j <= Len(waiting) /\ \A k \in ready : k <= j => k \in 1..Len(waiting)
      BY ExchangeFacts DEF ExchangeIInv, WalkInv
    <2>2. ASSUME NEW k \in ready, k <= j PROVE inbox'[waiting[k]] # "empty"
      <3>1. waiting[k] \in Requests /\ inbox[waiting[k]] # "empty"
        BY <2>1, <2>2, ExchangeFacts DEF ExchangeIInv, WalkInv
      <3> QED
        BY <1>1, <1>4, <3>1
    <2>3. ASSUME NEW k \in 1..Len(waiting), inbox'[waiting[k]] = "reply"
          PROVE  arrived'[waiting[k]] >= clock \/ (k \in ready /\ k <= j)
      <3>1. waiting[k] \in Requests
        BY ExchangeFacts
      <3>2. CASE waiting[k] = s
        BY <1>4, <1>5, <1>9, <2>3, <3>2
      <3>3. CASE waiting[k] # s
        BY <1>4, <1>5, <2>3, <3>1, <3>3 DEF ExchangeIInv, WalkInv
      <3> QED
        BY <3>2, <3>3
    <2> QED
      BY <2>1, <2>2, <2>3
  <1>12. WaitIsShared' /\ InTimeIsKept'
    <2>1. \A r \in Requests : resp[r] # None => resp[r] = r /\ arrived'[r] # Never
      BY <1>5, <1>9 DEF ExchangeIInv, ReplyInv
    <2> QED
      BY <1>2, <1>3, <1>6, <2>1 DEF ExchangeIInv, WaitIsShared, InTimeIsKept, ReturnedTo
  <1> QED
    BY <1>7, <1>8, <1>10, <1>11, <1>12 DEF ExchangeIInv

-----------------------------------------------------------------------------
(* The exchange returns: whatever ends the loop, what still waits is closed,
   once, and no reply in time goes with it unless poll failed. *)
LEMMA CloseRestIInv ==
  ASSUME ExchangeIInv, step \in {"top", "poll"}, CloseRest, failed' \in BOOLEAN, failed => failed',
         UNCHANGED <<callVars, resp, name, clock, arrived>>,
         failed' \/ \A k \in 1..Len(waiting) : inbox[waiting[k]] = "reply" => arrived[waiting[k]] >= deadline
  PROVE  ExchangeIInv'
  <1>1. UNCHANGED <<count, i, waiting, owner, ready, j, deadline, start, wake>>
    BY DEF callVars
  <1>2. DOMAIN waiting = 1..Len(waiting) /\ step' = "name" /\ step \notin ReturnedTo
    BY ExchangeFacts DEF CloseRest, ReturnedTo
  <1>3. {waiting[k] : k \in DOMAIN waiting} = Waited
    BY <1>2 DEF Waited
  <1>4. /\ closings' = [s \in Requests |-> IF s \in Waited THEN closings[s] + 1 ELSE closings[s]]
        /\ inbox' = [s \in Requests |-> IF s \in Waited THEN "closed" ELSE inbox[s]]
    BY <1>3 DEF CloseRest, Close
  <1>5. /\ inbox' \in [Requests -> {"unopened", "empty", "reply", "refused", "corrupt", "closed"}]
        /\ closings' \in [Requests -> Nat]
    BY <1>4, ExchangeFacts
  <1>6. ExchangeTypeOK'
    BY <1>1, <1>2, <1>5 DEF ExchangeIInv, ExchangeTypeOK
  <1>7. PlaceInv'
    BY <1>1, <1>2 DEF ExchangeIInv, PlaceInv
  <1>8. \A s \in Requests : inbox'[s] \notin Opened /\ closings'[s] = (IF inbox'[s] = "closed" THEN 1 ELSE 0)
                            /\ (s >= i => inbox'[s] = "unopened")
    <2> SUFFICES ASSUME NEW s \in Requests
                 PROVE  inbox'[s] \notin Opened /\ closings'[s] = (IF inbox'[s] = "closed" THEN 1 ELSE 0)
                        /\ (s >= i => inbox'[s] = "unopened")
      OBVIOUS
    <2>1. CASE s \in Waited
      <3>1. inbox[s] \in Opened
        BY <1>2, <2>1 DEF ExchangeIInv, OpenInv
      <3>2. closings[s] = 0 /\ ~(s >= i)
        BY <3>1 DEF ExchangeIInv, OpenInv, Opened
      <3> QED
        BY <1>4, <2>1, <3>2 DEF Opened
    <2>2. CASE s \notin Waited
      BY <1>2, <1>4, <2>2 DEF ExchangeIInv, OpenInv
    <2> QED
      BY <2>1, <2>2
  <1>9. OpenInv'
    BY <1>1, <1>2, <1>8 DEF OpenInv, ReturnedTo
  <1>10. ReplyInv'
    <2> SUFFICES ASSUME NEW s \in Requests
                 PROVE  /\ inbox'[s] = "unopened" => arrived[s] = Never
                        /\ inbox'[s] # "reply" /\ inbox'[s] \notin Opened
                        /\ resp[s] # None => resp[s] = s /\ arrived[s] # Never
      BY <1>2 DEF ReplyInv, ReturnedTo
    <2>1. inbox'[s] = "unopened" => inbox[s] = "unopened"
      BY <1>4
    <2> QED
      BY <1>8, <2>1 DEF ExchangeIInv, ReplyInv, Opened
  <1>11. WalkInv' /\ WaitIsShared'
    BY <1>2 DEF WalkInv, WaitIsShared
  <1>12. InTimeIsKept'
    <2> SUFFICES ASSUME NEW s \in Requests
                 PROVE  /\ resp[s] # None => resp[s] = s /\ arrived[s] # Never
                        /\ ~failed' /\ arrived[s] # Never /\ arrived[s] < deadline => resp[s] = s
      BY <1>1, <1>2 DEF InTimeIsKept
    <2>1. resp[s] # None => resp[s] = s /\ arrived[s] # Never
      BY DEF ExchangeIInv, ReplyInv
    <2>2. ASSUME ~failed', arrived[s] # Never, arrived[s] < deadline, resp[s] # s PROVE FALSE
      <3>1. inbox[s] = "reply"
        BY <1>2, <2>2 DEF ExchangeIInv, ReplyInv
      <3>2. PICK k \in 1..Len(waiting) : waiting[k] = s
        BY <3>1 DEF ExchangeIInv, OpenInv, Opened, Waited
      <3>3. arrived[s] >= deadline
        BY <2>2, <3>1, <3>2
      <3>4. arrived[s] \in Nat /\ deadline \in Nat
        BY <2>2, ExchangeFacts DEF ExchangeIInv, PlaceInv
      <3> QED
        BY <2>2, <3>3, <3>4
    <2> QED
      BY <2>1, <2>2
  <1> QED
    BY <1>6, <1>7, <1>9, <1>10, <1>11, <1>12 DEF ExchangeIInv

(* The loop ends at its top: nothing waits, or no time is left. *)
LEMMA WaitOverIInv == ASSUME ExchangeIInv, WaitOver PROVE ExchangeIInv'
  <1>1. /\ step = "top" /\ (waiting = <<>> \/ clock >= deadline) /\ CloseRest
        /\ UNCHANGED <<callVars, resp, name, clock, arrived, failed>>
    BY DEF WaitOver
  <1>2. ASSUME NEW k \in 1..Len(waiting), inbox[waiting[k]] = "reply" PROVE arrived[waiting[k]] >= deadline
    <2>1. waiting[k] \in Requests /\ clock \in Nat /\ deadline \in Nat
      BY <1>1, ExchangeFacts DEF ExchangeIInv, PlaceInv
    <2>2. arrived[waiting[k]] >= clock /\ arrived[waiting[k]] \in Nat
      BY <1>1, <1>2, <2>1, ExchangeFacts DEF ExchangeIInv, ReplyInv
    <2>3. waiting # <<>>
      OBVIOUS
    <2> QED
      BY <1>1, <2>1, <2>2, <2>3
  <1> QED
    BY <1>1, <1>2, CloseRestIInv, ExchangeFacts

(* With nothing to read, no socket has a reply. *)
LEMMA NothingReadable ==
  ASSUME ExchangeIInv, Readable = {}
  PROVE  \A k \in 1..Len(waiting) : inbox[waiting[k]] = "empty"
  <1>1. DOMAIN waiting = 1..Len(waiting)
    BY ExchangeFacts
  <1> QED
    BY <1>1 DEF Readable

(* poll's time is over, or poll fails. *)
LEMMA PollEndsIInv == ASSUME ExchangeIInv, PollEnds PROVE ExchangeIInv'
  <1>1. /\ step = "poll" /\ CloseRest /\ UNCHANGED <<callVars, resp, name, clock, arrived>>
        /\ (Readable = {} /\ UNCHANGED failed) \/ failed' = TRUE
    BY DEF PollEnds
  <1>2. failed' \in BOOLEAN /\ (failed => failed')
    <2>1. failed \in BOOLEAN
      BY ExchangeFacts
    <2>2. failed' = failed \/ failed' = TRUE
      BY <1>1
    <2> QED
      BY <2>1, <2>2, Zenon
  <1>3. failed' \/ \A k \in 1..Len(waiting) : inbox[waiting[k]] = "reply" => arrived[waiting[k]] >= deadline
    BY <1>1, NothingReadable
  <1> QED
    BY <1>1, <1>2, <1>3, CloseRestIInv

(* A signal leaves poll with what is left of the wait it was called with,
   which is the shared one. *)
LEMMA InterruptedIInv == ASSUME ExchangeIInv, Interrupted PROVE ExchangeIInv'
  <1>1. /\ step = "poll" /\ Readable = {}
        /\ UNCHANGED <<count, i, waiting, owner, ready, j, deadline, start, resp, name, clock, arrived, failed>>
        /\ \/ wake' = clock + TimeLeft /\ UNCHANGED <<step, closings, inbox>>
           \/ CloseRest /\ UNCHANGED wake
    BY DEF Interrupted
  <1>2. CASE CloseRest /\ UNCHANGED wake
    <2>1. UNCHANGED <<callVars, resp, name, clock, arrived>>
      BY <1>1, <1>2 DEF callVars
    <2> QED
      BY <1>1, <1>2, <2>1, NothingReadable, CloseRestIInv, ExchangeFacts
  <1>3. CASE wake' = clock + TimeLeft /\ UNCHANGED <<step, closings, inbox>>
    <2>1. start \in Nat /\ deadline \in Nat /\ clock \in Nat
      BY <1>1, ExchangeFacts DEF ExchangeIInv, PlaceInv
    <2>2. wake' = deadline
      BY <1>3, <2>1 DEF TimeLeft
    <2>3. ExchangeTypeOK' /\ PlaceInv'
      BY <1>1, <1>3, <2>1, <2>2 DEF ExchangeIInv, ExchangeTypeOK, PlaceInv
    <2>4. OpenInv' /\ ReplyInv'
      BY <1>1, <1>3, SameSockets DEF ReplyInv
    <2>5. WalkInv' /\ WaitIsShared' /\ InTimeIsKept'
      BY <1>1, <1>3, <2>1, <2>2 DEF ExchangeIInv, WalkInv, WaitIsShared, InTimeIsKept
    <2> QED
      BY <2>3, <2>4, <2>5 DEF ExchangeIInv
  <1> QED
    BY <1>1, <1>2, <1>3

-----------------------------------------------------------------------------
(* The walk. *)

(* The last element takes the place of the d-th. *)
LEMMA SwapRemoveFacts ==
  ASSUME NEW T, NEW s \in Seq(T), NEW d \in 1..Len(s)
  PROVE  /\ SwapRemove(s, d) \in Seq(T) /\ Len(SwapRemove(s, d)) = Len(s) - 1
         /\ \A m \in 1..(Len(s) - 1) : SwapRemove(s, d)[m] = IF m = d THEN s[Len(s)] ELSE s[m]
  <1> DEFINE n == Len(s)
             t == [s EXCEPT ![d] = s[n]]
  <1>1. /\ n \in Nat /\ t \in Seq(T) /\ Len(t) = n
        /\ \A m \in 1..n : t[m] = IF m = d THEN s[n] ELSE s[m]
    OBVIOUS
  <1>2. SwapRemove(s, d) = SubSeq(t, 1, n - 1)
    BY DEF SwapRemove
  <1> HIDE DEF t
  <1>3. /\ SubSeq(t, 1, n - 1) \in Seq(T) /\ Len(SubSeq(t, 1, n - 1)) = n - 1
        /\ \A m \in 1..(n - 1) : SubSeq(t, 1, n - 1)[m] = t[m]
    BY <1>1
  <1> QED
    BY <1>1, <1>2, <1>3

(* Where the walk stands is a socket waited for, and what poll found ahead
   of it too. *)
LEMMA WalkFacts ==
  ASSUME ExchangeIInv, step = "walk", j > 0
  PROVE  /\ j \in 1..Len(waiting) /\ waiting[j] \in Requests /\ inbox[waiting[j]] \in Opened
         /\ \A k \in ready : k <= j => k \in 1..Len(waiting) /\ inbox[waiting[k]] # "empty"
         /\ \A k \in 1..Len(waiting) : waiting[k] = waiting[j] => k = j
  <1>1. j <= Len(waiting) /\ j \in 1..Len(waiting)
    BY ExchangeFacts DEF ExchangeIInv, WalkInv
  <1>2. \A k \in ready : k <= j => k \in 1..Len(waiting)
    BY <1>1, ExchangeFacts
  <1>3. waiting[j] \in Requests /\ inbox[waiting[j]] \in Opened
    BY <1>1, ExchangeFacts DEF ReturnedTo
  <1> QED
    BY <1>1, <1>2, <1>3 DEF ExchangeIInv, WalkInv, PlaceInv

(* A socket poll did not find: passed over. *)
LEMMA WalkPast ==
  ASSUME ExchangeIInv, step = "walk", j > 0, j' = j - 1, j \notin ready,
         UNCHANGED <<step, count, i, waiting, owner, ready, deadline, start, wake, resp, name, clock,
                     inbox, arrived, closings, failed>>
  PROVE  ExchangeIInv'
  <1>1. j - 1 \in 0..WaitMax /\ j \in Nat
    BY ExchangeFacts
  <1>2. ExchangeTypeOK' /\ PlaceInv'
    BY <1>1 DEF ExchangeIInv, ExchangeTypeOK, PlaceInv
  <1>3. OpenInv' /\ ReplyInv'
    BY SameSockets DEF ReplyInv
  <1>4. WalkInv'
    <2>1. \A k \in ready : k \in Nat /\ (k <= j - 1 => k <= j) /\ (k <= j => k <= j - 1)
      BY <1>1, ExchangeFacts
    <2>2. j - 1 <= Len(waiting)
      BY <1>1, WalkFacts
    <2> QED
      BY <2>1, <2>2 DEF ExchangeIInv, WalkInv
  <1>5. WaitIsShared' /\ InTimeIsKept'
    BY DEF ExchangeIInv, WaitIsShared, InTimeIsKept
  <1> QED
    BY <1>2, <1>3, <1>4, <1>5 DEF ExchangeIInv

(* A datagram that turns out to be corrupt is dropped: the socket waits on. *)
LEMMA WalkCorrupt ==
  ASSUME ExchangeIInv, step = "walk", j > 0, j' = j - 1, inbox[waiting[j]] = "corrupt",
         inbox' = [inbox EXCEPT ![waiting[j]] = "empty"],
         UNCHANGED <<step, count, i, waiting, owner, ready, deadline, start, wake, resp, name, clock,
                     arrived, closings, failed>>
  PROVE  ExchangeIInv'
  <1>1. j - 1 \in 0..WaitMax /\ j \in Nat
    BY ExchangeFacts
  <1>2. PICK s : s = waiting[j]
    OBVIOUS
  <1>3. s \in Requests /\ inbox[s] = "corrupt" /\ arrived[s] = Never /\ s \in Waited /\ resp[s] = None
    <2>1. s \in Requests /\ inbox[s] = "corrupt" /\ s \in Waited
      BY <1>2, WalkFacts DEF Waited
    <2>2. arrived[s] = Never
      BY <2>1 DEF ExchangeIInv, ReplyInv, Opened
    <2> QED
      BY <2>1, <2>2 DEF ExchangeIInv, ReplyInv
  <1>4. /\ inbox' \in [Requests -> {"unopened", "empty", "reply", "refused", "corrupt", "closed"}]
        /\ inbox'[s] = "empty" /\ \A r \in Requests : r # s => inbox'[r] = inbox[r]
    BY <1>2, <1>3, ExchangeFacts
  <1>5. ExchangeTypeOK' /\ PlaceInv'
    BY <1>1, <1>4 DEF ExchangeIInv, ExchangeTypeOK, PlaceInv
  <1>6. OpenInv'
    <2>1. Waited' = Waited
      BY DEF Waited
    <2> SUFFICES ASSUME NEW r \in Requests
                 PROVE  /\ r >= i => inbox'[r] = "unopened"
                        /\ inbox'[r] \in Opened <=> step \notin ReturnedTo /\ r \in Waited
                        /\ closings[r] = IF inbox'[r] = "closed" THEN 1 ELSE 0
      BY <2>1 DEF OpenInv
    <2>2. CASE r = s
      BY <1>3, <1>4, <2>2 DEF ExchangeIInv, OpenInv, Opened, ReturnedTo
    <2>3. CASE r # s
      BY <1>4, <2>3 DEF ExchangeIInv, OpenInv
    <2> QED
      BY <2>2, <2>3
  <1>7. ReplyInv'
    <2> SUFFICES ASSUME NEW r \in Requests
                 PROVE  /\ inbox'[r] = "unopened" => arrived[r] = Never
                        /\ inbox'[r] = "reply" => arrived[r] # Never
                        /\ inbox'[r] \in Opened /\ arrived[r] # Never => inbox'[r] = "reply"
                        /\ resp[r] # None => resp[r] = r /\ arrived[r] # Never
                        /\ step \notin ReturnedTo /\ arrived[r] # Never => inbox'[r] = "reply" \/ resp[r] = r
      BY DEF ReplyInv
    <2>1. CASE r = s
      BY <1>3, <1>4, <2>1
    <2>2. CASE r # s
      BY <1>4, <2>2 DEF ExchangeIInv, ReplyInv
    <2> QED
      BY <2>1, <2>2
  <1>8. WalkInv'
    <2>1. ASSUME NEW k \in ready, k <= j - 1 PROVE inbox'[waiting[k]] # "empty"
      <3>1. k \in 1..Len(waiting) /\ k # j /\ inbox[waiting[k]] # "empty"
        <4>1. k \in Nat
          BY <2>1, ExchangeFacts
        <4>2. k <= j /\ k # j
          BY <1>1, <2>1, <4>1
        <4> QED
          BY <2>1, <4>2, WalkFacts
      <3>2. waiting[k] \in Requests /\ waiting[k] # s
        BY <1>2, <3>1, WalkFacts, ExchangeFacts
      <3> QED
        BY <1>4, <3>1, <3>2
    <2>2. ASSUME NEW k \in 1..Len(waiting), inbox'[waiting[k]] = "reply"
          PROVE  arrived[waiting[k]] >= clock \/ (k \in ready /\ k <= j - 1)
      <3>1. waiting[k] \in Requests
        BY ExchangeFacts
      <3>2. waiting[k] # s /\ k # j /\ inbox[waiting[k]] = "reply"
        BY <1>2, <1>4, <2>2, <3>1
      <3>3. arrived[waiting[k]] >= clock \/ (k \in ready /\ k <= j)
        BY <3>2 DEF ExchangeIInv, WalkInv
      <3>4. k <= j => k <= j - 1
        BY <1>1, <3>2, ExchangeFacts
      <3> QED
        BY <3>3, <3>4
    <2>3. j - 1 <= Len(waiting)
      BY <1>1, WalkFacts
    <2> QED
      BY <2>1, <2>2, <2>3 DEF WalkInv
  <1>9. WaitIsShared' /\ InTimeIsKept'
    BY DEF ExchangeIInv, WaitIsShared, InTimeIsKept
  <1> QED
    BY <1>5, <1>6, <1>7, <1>8, <1>9 DEF ExchangeIInv

(* A reply or an error settles the request: its buffer is its own, its socket
   is closed, and the last socket takes its place with its owner. *)
LEMMA WalkSettles ==
  ASSUME ExchangeIInv, step = "walk", j > 0, j' = j - 1, j \in ready, inbox[waiting[j]] # "corrupt",
         resp' = [resp EXCEPT ![owner[j]] = IF inbox[waiting[j]] = "refused" THEN None ELSE waiting[j]],
         Close({waiting[j]}), Settled(j),
         UNCHANGED <<step, count, i, ready, deadline, start, wake, name, clock, arrived, failed>>
  PROVE  ExchangeIInv'
  <1>1. j - 1 \in 0..WaitMax /\ j \in Nat /\ j \in 1..Len(waiting)
    BY ExchangeFacts, WalkFacts
  <1>2. PICK s, n : s = waiting[j] /\ n = Len(waiting)
    OBVIOUS
  <1>3. s \in Requests /\ inbox[s] \in {"reply", "refused"} /\ s \in Waited /\ closings[s] = 0 /\ ~(s >= i) /\ n \in Nat
    <2>1. s \in Requests /\ inbox[s] \in {"reply", "refused"} /\ s \in Waited
      BY <1>1, <1>2, WalkFacts DEF Waited, Opened
    <2> QED
      BY <1>2, <2>1, ExchangeFacts DEF ExchangeIInv, OpenInv
  <1>4. /\ inbox' \in [Requests -> {"unopened", "empty", "reply", "refused", "corrupt", "closed"}]
        /\ closings' \in [Requests -> Nat]
        /\ inbox'[s] = "closed" /\ closings'[s] = 1
        /\ \A r \in Requests : r # s => inbox'[r] = inbox[r] /\ closings'[r] = closings[r]
    BY <1>2, <1>3, ExchangeFacts DEF Close
  <1>5. /\ resp' \in [Requests -> Requests \cup {None}]
        /\ resp'[s] = IF inbox[s] = "refused" THEN None ELSE s
        /\ \A r \in Requests : r # s => resp'[r] = resp[r]
    <2>1. owner[j] = s
      BY <1>2, ExchangeFacts
    <2> QED
      BY <1>2, <1>3, <2>1, ExchangeFacts
  <1>6. /\ waiting' \in Seq(Requests) /\ owner' = waiting' /\ Len(waiting') = n - 1
        /\ \A m \in 1..(n - 1) : waiting'[m] = IF m = j THEN waiting[n] ELSE waiting[m]
    <2>1. waiting' = SwapRemove(waiting, j) /\ owner' = SwapRemove(waiting, j)
      BY ExchangeFacts DEF Settled
    <2>2. waiting \in Seq(Requests)
      BY ExchangeFacts
    <2> QED
      BY <1>1, <1>2, <2>1, <2>2, SwapRemoveFacts
  <1>7. /\ \A k, m \in 1..n : waiting[k] = waiting[m] => k = m
        /\ \A k \in 1..n : waiting[k] \in Requests /\ waiting[k] < i
        /\ n <= i /\ i \in Nat
    BY <1>2, ExchangeFacts DEF ExchangeIInv, PlaceInv
  <1>8. ExchangeTypeOK'
    BY <1>1, <1>4, <1>5, <1>6 DEF ExchangeIInv, ExchangeTypeOK
  <1>9. PlaceInv'
    <2>1. ASSUME NEW k \in 1..(n - 1), NEW m \in 1..(n - 1), waiting'[k] = waiting'[m] PROVE k = m
      <3>1. n \in 1..n /\ k \in 1..n /\ m \in 1..n /\ k # n /\ m # n
        BY <1>3
      <3>2. CASE k = j /\ m # j
        BY <1>6, <1>7, <2>1, <3>1, <3>2
      <3>3. CASE k # j /\ m = j
        BY <1>6, <1>7, <2>1, <3>1, <3>3
      <3>4. CASE k # j /\ m # j
        BY <1>6, <1>7, <2>1, <3>1, <3>4
      <3> QED
        BY <3>2, <3>3, <3>4
    <2>2. ASSUME NEW k \in 1..(n - 1) PROVE waiting'[k] < i
      BY <1>3, <1>6, <1>7, <2>2
    <2>3. n - 1 <= i
      BY <1>3, <1>7
    <2> QED
      BY <1>6, <2>1, <2>2, <2>3 DEF ExchangeIInv, PlaceInv
  <1>10. \A r \in Requests : r \in Waited' <=> r \in Waited /\ r # s
    <2> SUFFICES ASSUME NEW r \in Requests PROVE r \in Waited' <=> r \in Waited /\ r # s
      OBVIOUS
    <2>1. ASSUME r \in Waited' PROVE r \in Waited /\ r # s
      <3>1. PICK m \in 1..(n - 1) : r = waiting'[m]
        BY <1>6, <2>1 DEF Waited
      <3>2. PICK k \in 1..n : r = waiting[k] /\ k # j
        BY <1>1, <1>2, <1>3, <1>6, <3>1
      <3> QED
        BY <1>1, <1>2, <1>7, <3>2 DEF Waited
    <2>2. ASSUME r \in Waited, r # s PROVE r \in Waited'
      <3>1. PICK k \in 1..n : r = waiting[k] /\ k # j
        BY <1>2, <2>2 DEF Waited
      <3>2. \E m \in 1..(n - 1) : waiting'[m] = r
        <4>1. CASE k = n
          BY <1>1, <1>2, <1>3, <1>6, <3>1, <4>1
        <4>2. CASE k # n
          BY <1>3, <1>6, <3>1, <4>2
        <4> QED
          BY <4>1, <4>2
      <3> QED
        BY <1>6, <3>2 DEF Waited
    <2> QED
      BY <2>1, <2>2
  <1>11. OpenInv'
    <2> SUFFICES ASSUME NEW r \in Requests
                 PROVE  /\ r >= i => inbox'[r] = "unopened"
                        /\ inbox'[r] \in Opened <=> step \notin ReturnedTo /\ r \in Waited'
                        /\ closings'[r] = IF inbox'[r] = "closed" THEN 1 ELSE 0
      BY DEF OpenInv
    <2>1. CASE r = s
      BY <1>3, <1>4, <1>10, <2>1 DEF Opened
    <2>2. CASE r # s
      BY <1>4, <1>10, <2>2 DEF ExchangeIInv, OpenInv
    <2> QED
      BY <2>1, <2>2
  <1>12. (inbox[s] = "reply" => arrived[s] # Never) /\ (inbox[s] = "refused" => arrived[s] = Never) /\ s # None
    BY <1>3, ExchangeFacts DEF ExchangeIInv, ReplyInv, Opened
  <1>13. ReplyInv'
    <2> SUFFICES ASSUME NEW r \in Requests
                 PROVE  /\ inbox'[r] = "unopened" => arrived[r] = Never
                        /\ inbox'[r] = "reply" => arrived[r] # Never
                        /\ inbox'[r] \in Opened /\ arrived[r] # Never => inbox'[r] = "reply"
                        /\ resp'[r] # None => resp'[r] = r /\ arrived[r] # Never
                        /\ step \notin ReturnedTo /\ arrived[r] # Never => inbox'[r] = "reply" \/ resp'[r] = r
      BY DEF ReplyInv
    <2>1. CASE r = s
      BY <1>3, <1>4, <1>5, <1>12, <2>1 DEF Opened
    <2>2. CASE r # s
      BY <1>4, <1>5, <2>2 DEF ExchangeIInv, ReplyInv
    <2> QED
      BY <2>1, <2>2
  <1>14. WalkInv'
    <2>1. ASSUME NEW k \in ready, k <= j - 1 PROVE inbox'[waiting'[k]] # "empty"
      <3>1. k \in Nat /\ k >= 1
        BY <2>1, ExchangeFacts
      <3>2. k <= j /\ k # j /\ k \in 1..(n - 1)
        BY <1>1, <1>2, <1>3, <2>1, <3>1
      <3>3. waiting'[k] = waiting[k] /\ inbox[waiting[k]] # "empty"
        BY <1>6, <2>1, <3>2, WalkFacts
      <3>4. waiting[k] \in Requests
        BY <1>7, <3>2, <1>3
      <3> QED
        BY <1>4, <3>3, <3>4
    <2>2. ASSUME NEW m \in 1..(n - 1), inbox'[waiting'[m]] = "reply"
          PROVE  arrived[waiting'[m]] >= clock \/ (m \in ready /\ m <= j - 1)
      <3>1. PICK k \in 1..n : waiting'[m] = waiting[k] /\ k # j /\ (k = m \/ (k = n /\ m = j))
        <4>1. CASE m = j
          <5>1. n \in 1..n /\ n # j /\ waiting'[m] = waiting[n]
            BY <1>3, <1>6, <4>1
          <5> QED
            BY <4>1, <5>1
        <4>2. CASE m # j
          <5>1. m \in 1..n /\ waiting'[m] = waiting[m]
            BY <1>3, <1>6, <4>2
          <5> QED
            BY <4>2, <5>1
        <4> QED
          BY <4>1, <4>2
      <3>2. waiting[k] \in Requests /\ waiting[k] # s
        BY <1>1, <1>2, <1>7, <3>1
      <3>3. arrived[waiting[k]] >= clock \/ (k \in ready /\ k <= j)
        BY <1>2, <1>4, <2>2, <3>1, <3>2 DEF ExchangeIInv, WalkInv
      <3>4. k <= j => k = m /\ m <= j - 1
        BY <1>1, <1>2, <1>3, <3>1
      <3> QED
        BY <3>1, <3>3, <3>4
    <2>3. j - 1 <= n - 1
      BY <1>1, <1>2, <1>3
    <2> QED
      BY <1>6, <2>1, <2>2, <2>3 DEF WalkInv
  <1>15. WaitIsShared' /\ InTimeIsKept'
    <2>1. step \notin ReturnedTo
      BY DEF ReturnedTo
    <2> QED
      BY <1>13, <2>1 DEF ExchangeIInv, WaitIsShared, InTimeIsKept, ReplyInv, ReturnedTo
  <1> QED
    BY <1>8, <1>9, <1>11, <1>13, <1>14, <1>15 DEF ExchangeIInv

(* One turn of the walk. *)
LEMMA WalkIInv == ASSUME ExchangeIInv, Walk PROVE ExchangeIInv'
  <1>1. /\ step = "walk" /\ j > 0 /\ j' = j - 1
        /\ UNCHANGED <<step, count, i, ready, deadline, start, wake, name, clock, arrived, failed>>
    BY DEF Walk
  <1>2. CASE j \notin ready
    <2>1. UNCHANGED <<waiting, owner, resp, inbox, closings>>
      BY <1>2 DEF Walk
    <2> QED
      BY <1>1, <1>2, <2>1, WalkPast
  <1>3. CASE j \in ready /\ inbox[waiting[j]] = "corrupt"
    <2>1. /\ inbox' = [inbox EXCEPT ![waiting[j]] = "empty"]
          /\ UNCHANGED <<waiting, owner, resp, closings>>
      BY <1>3 DEF Walk
    <2> QED
      BY <1>1, <1>3, <2>1, WalkCorrupt
  <1>4. CASE j \in ready /\ inbox[waiting[j]] # "corrupt"
    <2>1. /\ resp' = [resp EXCEPT ![owner[j]] = IF inbox[waiting[j]] = "refused" THEN None ELSE waiting[j]]
          /\ Close({waiting[j]}) /\ Settled(j)
      BY <1>4 DEF Walk
    <2> QED
      BY <1>1, <1>4, <2>1, WalkSettles
  <1> QED
    BY <1>2, <1>3, <1>4

-----------------------------------------------------------------------------
(* A step that changes nothing keeps the invariant. *)
LEMMA ExchangeStutters == ASSUME ExchangeIInv, UNCHANGED exchangeVars PROVE ExchangeIInv'
  <1>1. UNCHANGED <<step, count, i, waiting, owner, ready, j, deadline, start, wake, resp, name, clock,
                    inbox, arrived, closings, failed>>
    BY DEF exchangeVars, callVars, worldVars
  <1>2. ExchangeTypeOK' /\ PlaceInv'
    BY <1>1 DEF ExchangeIInv, ExchangeTypeOK, PlaceInv
  <1>3. OpenInv' /\ ReplyInv'
    BY <1>1, SameSockets DEF ExchangeIInv, ReplyInv
  <1>4. WalkInv' /\ WaitIsShared' /\ InTimeIsKept'
    BY <1>1 DEF ExchangeIInv, WalkInv, WaitIsShared, InTimeIsKept
  <1> QED
    BY <1>2, <1>3, <1>4 DEF ExchangeIInv

(* The invariant of the exchange holds throughout. *)
LEMMA ExchangeInvariance == ExchangeSpec => []ExchangeIInv
  <1>1. ASSUME ExchangeIInv, [ExchangeNext]_exchangeVars PROVE ExchangeIInv'
    BY <1>1, SendFailsIInv, SendIInv, SentIInv, WaitIInv, WaitOverIInv, PollReadyIInv, PollEndsIInv,
       InterruptedIInv, WalkIInv, WalkOverIInv, NameIInv, ArriveIInv, ClockIInv, ExchangeStutters
    DEF ExchangeNext, Finished
  <1> QED
    BY <1>1, ExchangeInitIInv, PTL DEF ExchangeSpec

(* What udp_exchange_all keeps in its arrays has its type, and fits them. *)
THEOREM ExchangeTypeCorrect == ExchangeSpec => []ExchangeTypeOK
  <1>1. ExchangeIInv => ExchangeTypeOK
    BY DEF ExchangeIInv
  <1> QED
    BY <1>1, ExchangeInvariance, PTL

(* However many requests a call makes and in whatever order they are settled,
   refused or moved, each socket is closed once. *)
THEOREM ClosedTheorem == ExchangeSpec => []SocketsClosedOnce
  <1>1. ASSUME ExchangeIInv PROVE SocketsClosedOnce
    <2> SUFFICES ASSUME NEW s \in Requests
                 PROVE  /\ closings[s] <= 1
                        /\ step \in {"name", "done"} /\ inbox[s] # "unopened" => closings[s] = 1
      BY DEF SocketsClosedOnce
    <2>1. closings[s] = IF inbox[s] = "closed" THEN 1 ELSE 0
      BY <1>1 DEF ExchangeIInv, OpenInv
    <2>2. step \in {"name", "done"} => inbox[s] \in {"unopened", "closed"}
      BY <1>1, ExchangeFacts DEF ExchangeIInv, OpenInv, Opened, ReturnedTo
    <2> QED
      BY <2>1, <2>2
  <1> QED
    BY <1>1, ExchangeInvariance, PTL

(* A reply that reached its socket before the shared deadline is in its own
   request's buffer when the call returns, unless poll failed. *)
THEOREM KeptTheorem == ExchangeSpec => []InTimeIsKept
  <1>1. ExchangeIInv => InTimeIsKept
    BY DEF ExchangeIInv
  <1> QED
    BY <1>1, ExchangeInvariance, PTL

(* Neither signals nor corrupt datagrams nor other answers stretch the wait
   that all requests share. *)
THEOREM SharedTheorem == ExchangeSpec => []WaitIsShared
  <1>1. ExchangeIInv => WaitIsShared
    BY DEF ExchangeIInv
  <1> QED
    BY <1>1, ExchangeInvariance, PTL
=============================================================================
