------------------------------- MODULE Discovery -------------------------------
(***************************************************************************)
(* scanNetwork: the TCP sweep, the harvest of the neighbor table with its  *)
(* confirming pings, the naming of the hosts and the summary, in this      *)
(* order; beside them, until finish(), the multicast listener's thread.    *)
(* And scanNetworkPing (--ping): a sweep of pings, the names, the summary. *)
(* All of them report hosts to one list under one lock and print to one    *)
(* stdout; progress is counted with Progress.                              *)
(*                                                                         *)
(* A stage of work is a set of hosts that a pool of workers goes through.  *)
(* The sweep's engine (Connects) reports one verdict at a time, in any     *)
(* order, and so does icmp_ping_sweep: to this module each is one worker.  *)
(* ping(1) processes, SendARP and the name lookups have a thread each.     *)
(* What the neighbor table says is a choice here (NeighborTable has why).  *)
(***************************************************************************)
EXTENDS Progress, FiniteSets

CONSTANTS Hosts,    \* the scanned addresses
          Talkers,  \* of these, who may answer multicast
          Resolved, \* and who may be in the neighbor table
          Workers,  \* threads of a pool
          First     \* the worker of a pool of one

Nobody == "nobody"
Main == "main"
Listener == "listener"
Actors == Workers \cup {Main, Listener}

\* The threads of a pool are none of the other two, and no host has the name of nobody.
ASSUME DiscoveryAssumption ==
  /\ IsFiniteSet(Hosts) /\ Talkers \subseteq Hosts /\ Resolved \subseteq Hosts /\ Nobody \notin Hosts
  /\ IsFiniteSet(Workers) /\ First \in Workers /\ Workers \cap {Main, Listener, Nobody} = {}

VARIABLES
  pc,          \* per actor
  host,        \* per actor: the host it has to report, or has just reported
  stage,       \* "none", "sweep", "ping", "arp" (SendARP), "identify"
  jobs,        \* hosts of the stage no worker has taken
  cut,         \* the stage ended early: out of sockets, or no way to ping
  stop,        \* Run.cancel
  windows,     \* the platform
  pings,       \* scanNetworkPing
  found, lock, \* the list of hosts, and who holds found_mutex
  table,       \* rows harvestArp goes through: per host "none", "fresh" or "old"
  candidates,  \* hosts to ping
  unconfirmed, \* of these, the ones that did not answer
  socket, quit, mail,   \* of the listener: its socket, its stop flag, a datagram
  summary,     \* the hosts of the closing summary
  events,      \* history: host events printed, per host
  closes       \* history: how often the socket was closed

scanVars == <<stage, jobs, cut, stop, windows, pings, table, candidates, unconfirmed, summary>>
listVars == <<found, lock, events>>
socketVars == <<socket, quit, mail, closes>>
vars == <<pc, host, scanVars, listVars, socketVars, progressVars>>

Init ==
  /\ ProgressInit
  /\ pc = [a \in Actors |-> IF a = Main THEN "start" ELSE "off"]
  /\ host = [a \in Actors |-> Nobody]
  /\ stage = "none" /\ jobs = {} /\ cut = FALSE /\ stop = FALSE /\ windows \in BOOLEAN /\ pings \in BOOLEAN
  /\ found = {} /\ lock = Nobody /\ events = [h \in Hosts |-> 0]
  /\ table = [h \in Resolved |-> "none"] /\ candidates = {} /\ unconfirmed = {}
  /\ socket = "none" /\ quit = FALSE /\ mail = Nobody /\ summary = {} /\ closes = 0

Go(a, where) == pc' = [pc EXCEPT ![a] = where]

\* The scan has returned.
Over == pc[Main] \in {"over", "failed"}

-----------------------------------------------------------------------------
\* Discovery.reportHost, for any actor.

\* What an actor keeps of the host it reported: workers have yet to count it.
Kept(a) == IF a \in Workers THEN host ELSE [host EXCEPT ![a] = Nobody]

\* Where an actor goes on once its host is reported.
Reported(a) ==
  CASE a = Main -> "harvest" [] a = Listener -> "ask" [] a \in Workers -> "count"

\* Mutation: the list's lock is let go before the event is printed.
ListedUnlocked(a) == found' = found \cup {host[a]} /\ UNCHANGED lock

\* Under found_mutex, which is kept until the event is out.
Listed(a) == found' = found \cup {host[a]} /\ lock' = a

\* The list's lock is free: a host known already is dropped, a new one listed.
ReportHost(a) ==
  /\ pc[a] = "report" /\ lock = Nobody
  /\ IF host[a] \in found
       THEN Go(a, Reported(a)) /\ host' = Kept(a) /\ UNCHANGED <<found, lock>>
       ELSE Listed(a) /\ Go(a, "event") /\ UNCHANGED host
  /\ UNCHANGED <<scanVars, events, socketVars, progressVars>>

\* printHost.
PrintHost(a) ==
  /\ pc[a] = "event"
  /\ events' = [events EXCEPT ![host[a]] = @ + 1]
  /\ lock' = Nobody
  /\ Go(a, Reported(a)) /\ host' = Kept(a)
  /\ UNCHANGED <<scanVars, found, socketVars, progressVars>>

-----------------------------------------------------------------------------
\* Pools of workers.

Joined == \A w \in Workers : pc[w] = "off"

\* A pool of one, or of all.
Pool(ofOne) == IF ofOne THEN {First} ELSE Workers

StartStage(name, todo, pool) ==
  /\ stage' = name /\ jobs' = todo /\ cut' = FALSE
  /\ pc' = [a \in Actors |->
              IF a = Main THEN "stage" ELSE IF a \in pool THEN "idle" ELSE pc[a]]

\* A worker settles the next host. It answered, or it did not; a name is
\* looked up for a host either way, and adds none.
Settle(w) ==
  /\ pc[w] = "idle" /\ jobs # {}
  /\ \E h \in jobs :
       /\ jobs' = jobs \ {h}
       /\ \/ /\ stage # "identify" /\ Go(w, "report") /\ host' = [host EXCEPT ![w] = h]
             /\ UNCHANGED unconfirmed
          \/ /\ Go(w, IF stage = "ping" /\ windows THEN "idle" ELSE "count") /\ UNCHANGED host
             /\ unconfirmed' = IF stage = "ping" THEN unconfirmed \cup {h} ELSE unconfirmed
  /\ UNCHANGED <<stage, cut, stop, windows, pings, table, candidates, summary, listVars, socketVars,
                 progressVars>>

\* Run.advance, the part without a lock.
Advance(w) ==
  /\ pc[w] = "count"
  /\ CountUnit /\ host' = [host EXCEPT ![w] = Nobody]
  /\ Go(w, IF CrossesPercent(done + 1) THEN "show" ELSE "idle")
  /\ UNCHANGED <<scanVars, listVars, socketVars>>

\* And under the stdout lock.
Show(w) ==
  /\ pc[w] = "show"
  /\ ShowProgress
  /\ Go(w, "idle")
  /\ UNCHANGED <<host, scanVars, listVars, socketVars>>

\* No more work, or none wanted; what is in flight may still be settled.
Leave(w) ==
  /\ pc[w] = "idle" /\ (jobs = {} \/ stop \/ cut)
  /\ Go(w, "off")
  /\ UNCHANGED <<host, scanVars, listVars, socketVars, progressVars>>

\* error.OutOfSockets of the sweep; no memory; pings that cannot be sent or spawned.
StageFails ==
  /\ stage \in {"sweep", "ping"} /\ ~Joined /\ ~cut
  /\ cut' = TRUE
  /\ UNCHANGED <<pc, host, stage, jobs, stop, windows, pings, table, candidates, unconfirmed, summary,
                 listVars, socketVars, progressVars>>

WorkerStep(w) == Settle(w) \/ Advance(w) \/ Show(w) \/ Leave(w) \/ ReportHost(w) \/ PrintHost(w)

-----------------------------------------------------------------------------
\* The scan's own thread.

\* The socket of multicast.c: bound to a port of its own, woken by an empty
\* datagram to itself, which may be lost or find another one waiting, and closed.
McOpen == socket' = "open"
McWake == mail' \in {mail, "wake"}
McClose == socket' = "closed" /\ closes' = closes + 1

\* MulticastListener.start: no attached subnet or no socket; no thread, and the
\* socket is closed again; or a listener. A ping scan has none.
Start ==
  /\ pc[Main] = "start"
  /\ \/ /\ Go(Main, "sweep") /\ UNCHANGED <<socket, closes>>
     \/ /\ ~pings /\ McClose /\ Go(Main, "sweep")
     \/ /\ ~pings /\ McOpen /\ UNCHANGED closes
        /\ pc' = [pc EXCEPT ![Main] = "sweep", ![Listener] = "loop"]
  /\ UNCHANGED <<host, scanVars, listVars, quit, mail, progressVars>>

\* sweepHosts, or pingSweep: by icmp_ping_sweep, or by ping(1) where that is
\* not allowed.
SweepHosts ==
  /\ pc[Main] = "sweep"
  /\ StartPhase(Cardinality(Hosts))
  /\ \E ofOne \in (IF pings THEN BOOLEAN ELSE {TRUE}) : StartStage("sweep", Hosts, Pool(ofOne))
  /\ UNCHANGED <<host, stop, windows, pings, table, candidates, unconfirmed, summary, listVars, socketVars>>

\* harvestArp reads the table, or cannot.
ReadTable ==
  /\ pc[Main] = "table"
  /\ StartPhase(0)
  /\ \/ Go(Main, "finish") /\ UNCHANGED table
     \/ Go(Main, "harvest") /\ table' \in [Resolved -> {"none", "fresh", "old"}]
  /\ UNCHANGED <<host, stage, jobs, cut, stop, windows, pings, candidates, unconfirmed, summary, listVars,
                 socketVars>>

\* One row: found already, proof enough, or one to ping.
HarvestRow ==
  /\ pc[Main] = "harvest" /\ lock = Nobody
  /\ \E h \in Resolved :
       /\ table[h] # "none"
       /\ table' = [table EXCEPT ![h] = "none"]
       /\ \/ /\ h \in found
             /\ UNCHANGED <<pc, host, candidates>>
          \/ /\ h \notin found /\ table[h] = "fresh"
             /\ Go(Main, "report") /\ host' = [host EXCEPT ![Main] = h]
             /\ UNCHANGED candidates
          \/ /\ h \notin found /\ table[h] = "old"
             /\ candidates' = candidates \cup {h}
             /\ UNCHANGED <<pc, host>>
  /\ UNCHANGED <<stage, jobs, cut, stop, windows, pings, unconfirmed, summary, listVars, socketVars,
                 progressVars>>

\* The candidates are pinged, unless there are none or the scan is stopped.
Confirm ==
  /\ pc[Main] = "harvest" /\ \A h \in Resolved : table[h] = "none"
  /\ IF candidates = {} \/ stop
       THEN Go(Main, "finish") /\ UNCHANGED <<stage, jobs, cut, phase, total, done, lastClaimed, shown>>
       ELSE /\ StartPhase(Cardinality(candidates))
            /\ \E ofOne \in BOOLEAN : StartStage("ping", candidates, Pool(ofOne))
  /\ UNCHANGED <<host, stop, windows, pings, table, candidates, unconfirmed, summary, listVars, socketVars>>

\* What follows a stage. A ping scan whose pings failed returns the error.
AfterStage ==
  CASE stage = "sweep" /\ ~pings -> "table"
    [] stage = "sweep" /\ pings  -> IF cut THEN "failed" ELSE "results"
    [] stage \in {"ping", "arp"} -> "finish"
    [] stage = "identify"        -> "over"

\* A stage is over; on Windows SendARP follows the pings, for whoever did not
\* answer or, the scan being stopped, was not pinged.
StageOver ==
  /\ pc[Main] = "stage" /\ Joined
  /\ IF stage = "ping" /\ windows /\ ~cut /\ unconfirmed \cup jobs # {}
       THEN /\ StartStage("arp", unconfirmed \cup jobs, Pool(FALSE))
            /\ UNCHANGED summary
       ELSE /\ stage' = "none" /\ jobs' = {} /\ UNCHANGED cut
            /\ Go(Main, AfterStage)
            /\ summary' = IF stage = "identify" THEN found ELSE summary
  /\ UNCHANGED <<host, stop, windows, pings, table, candidates, unconfirmed, listVars, socketVars,
                 progressVars>>

\* MulticastListener.finish: the flag and the wake-up, the join, the close.
Finish ==
  /\ pc[Main] = "finish"
  /\ IF socket # "open"
       THEN Go(Main, "results") /\ UNCHANGED <<quit, mail>>
       ELSE Go(Main, "join") /\ quit' = TRUE /\ McWake
  /\ UNCHANGED <<host, scanVars, listVars, socket, closes, progressVars>>

\* Mutation: the thread is not waited for.
ListenerJoinedAlways == TRUE

ListenerJoined == pc[Listener] = "off"

Join ==
  /\ pc[Main] = "join" /\ ListenerJoined
  /\ McClose /\ mail' = Nobody
  /\ Go(Main, "results")
  /\ UNCHANGED <<host, scanVars, listVars, quit, progressVars>>

\* reportResults: names first, when asked for and there is a host to name.
Results ==
  /\ pc[Main] = "results"
  /\ \/ /\ Go(Main, "over") /\ summary' = found
        /\ UNCHANGED <<stage, jobs, cut, progressVars>>
     \/ /\ found # {}
        /\ StartPhase(Cardinality(found)) /\ StartStage("identify", found, Pool(FALSE))
        /\ UNCHANGED summary
  /\ UNCHANGED <<host, stop, windows, pings, table, candidates, unconfirmed, listVars, socketVars>>

MainStep ==
  \/ Start \/ SweepHosts \/ ReadTable \/ HarvestRow \/ Confirm \/ StageOver \/ Finish \/ Join
  \/ Results \/ ReportHost(Main) \/ PrintHost(Main)

-----------------------------------------------------------------------------
\* The listener's thread; every step but the report's uses the socket.

\* The top of its loop; the queries may go out a second time.
Loop ==
  /\ pc[Listener] = "loop"
  /\ Go(Listener, IF quit \/ stop THEN "off" ELSE "recv")
  /\ UNCHANGED <<host, scanVars, listVars, socketVars, progressVars>>

\* Mutation: recv waits for as long as it takes.
RecvWaits ==
  /\ pc[Listener] = "recv" /\ mail # Nobody
  /\ mail' = Nobody
  /\ IF mail \in Talkers
       THEN Go(Listener, "report") /\ host' = [host EXCEPT ![Listener] = mail]
       ELSE Go(Listener, "loop") /\ UNCHANGED host
  /\ UNCHANGED <<scanVars, listVars, socket, quit, closes, progressVars>>

\* A host's reply; nothing for POLL_MS, an empty datagram, or one that is not
\* a reply of a scanned host.
Recv ==
  /\ pc[Listener] = "recv"
  /\ mail' = Nobody
  /\ IF mail \in Talkers
       THEN Go(Listener, "report") /\ host' = [host EXCEPT ![Listener] = mail]
       ELSE Go(Listener, "loop") /\ UNCHANGED host
  /\ UNCHANGED <<scanVars, listVars, socket, quit, closes, progressVars>>

RecvFails ==
  /\ pc[Listener] = "recv"
  /\ Go(Listener, "off")
  /\ UNCHANGED <<host, scanVars, listVars, socketVars, progressVars>>

\* askName, once per host.
AskName ==
  /\ pc[Listener] = "ask"
  /\ Go(Listener, "loop")
  /\ UNCHANGED <<host, scanVars, listVars, socketVars, progressVars>>

ListenerStep == Loop \/ Recv \/ AskName \/ ReportHost(Listener) \/ PrintHost(Listener)

-----------------------------------------------------------------------------
\* External.
Datagram ==
  /\ socket = "open" /\ mail = Nobody
  /\ mail' \in Talkers
  /\ UNCHANGED <<pc, host, scanVars, listVars, socket, quit, closes, progressVars>>

StopRequest ==
  /\ ~stop /\ ~Over
  /\ stop' = TRUE
  /\ UNCHANGED <<pc, host, stage, jobs, cut, windows, pings, table, candidates, unconfirmed, summary,
                 listVars, socketVars, progressVars>>

Next ==
  \/ MainStep \/ ListenerStep \/ RecvFails \/ (\E w \in Workers : WorkerStep(w))
  \/ StageFails \/ Datagram \/ StopRequest
  \/ Over /\ UNCHANGED vars

Spec == Init /\ [][Next]_vars

\* Threads run. The list's lock is held only for hosts that are new, so it is free in
\* the end and needs no fairness of its own.
FairSpec ==
  /\ Spec
  /\ WF_vars(MainStep) /\ WF_vars(ListenerStep) /\ \A w \in Workers : WF_vars(WorkerStep(w))

-----------------------------------------------------------------------------
(* Whichever of sweep, listener and harvest report a host, and however often, it
   is listed once and has one event; the event is out before the unit that
   found it is counted, although another actor may have listed it; and the
   summary, if the scan gets to one, has exactly the hosts that had an event:
   nothing is added once finish() has returned. *)
EventsMatchSummary ==
  /\ \A h \in Hosts : events[h] = IF h \in found /\ ~\E a \in Actors : pc[a] = "event" /\ host[a] = h
                                    THEN 1 ELSE 0
  /\ \A w \in Workers : pc[w] = "count" /\ host[w] # Nobody => events[host[w]] = 1
  /\ pc[Main] = "over" => summary = {h \in Hosts : events[h] = 1}

(* The listener's socket is open for as long as its thread may use it, closed
   once, and not left open. *)
SocketOutlivesListener ==
  /\ pc[Listener] # "off" => socket = "open"
  /\ closes <= 1
  /\ Over => socket # "open"

(* Within a phase printed counts only increase, and phases come in order,
   although workers reach the output lock in any order (docs/README.md:
   "Within a phase `done` only increases"). *)
CountsOnlyIncrease ==
  [][shown' # shown => \/ shown[1] < shown'[1]
                       \/ shown[1] = shown'[1] /\ shown[2] < shown'[2]]_vars

(* A phase that was neither stopped nor cut short ends with its total printed,
   whichever worker was last to count or to print, though on Windows pings and
   SendARP share its units; and the total is never printed before every unit is
   done (docs/README.md: "each phase ends with exactly one `done == total`
   event"). *)
PhaseEndsFull ==
  /\ stage = "none" /\ ~stop /\ ~cut /\ total # 0 => shown[1] = phase /\ shown[2] = total
  /\ total # 0 /\ shown[1] = phase /\ shown[2] = total =>
       jobs = {} /\ \A w \in Workers : pc[w] \in {"off", "idle", "show"}

(* A scan comes to its summary, or to the error of a ping scan, whether or not the datagram that wakes the
   listener arrives, and with every lock taken by any of its threads. *)
DiscoveryEnds == <>Over
=============================================================================
