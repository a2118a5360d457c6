------------------------------ MODULE IcmpSweep ------------------------------
(***************************************************************************)
(* icmp_ping_sweep on Linux and macOS: one thread that sends paced echoes  *)
(* to the hosts in order, hears replies, and counts a host as down when    *)
(* its wait is over; and icmpSweep of the scanner, which records what it   *)
(* is told in `alive`.                                                     *)
(*                                                                         *)
(* The clock counts milliseconds. The loop is prompt: the clock moves only *)
(* while it polls, and poll may return up to a millisecond late.           *)
(***************************************************************************)
EXTENDS Integers, FiniteSets

CONSTANTS Count,        \* hosts, numbered from 0
          Timeout,      \* timeout_ms
          MaxInFlight,  \* max_in_flight, at least 1
          SendsPerMs,   \* SENDS_PER_MS
          GiveUp,       \* BUSY_GIVE_UP_MS
          Garbage,      \* waits an unwritten sent_at may lead to, negative ones as 0
          MaxWaiting    \* bound of the model: messages waiting in the sockets

ASSUME SweepAssumption ==
  /\ Count \in Nat \ {0} /\ Timeout \in Nat \ {0} /\ MaxInFlight \in Nat \ {0}
  /\ SendsPerMs \in Nat \ {0} /\ GiveUp \in Nat \ {0} /\ Garbage \subseteq Nat /\ Garbage # {}
  /\ MaxWaiting \in Nat \ {0}

Hosts == 0..(Count - 1)
Unset == -1

VARIABLES
  pc,        \* "open", "look" (top of the loop), "send", "poll", "done"
  result,    \* what the sweep returned, or "running"
  now,       \* the loop's copy of the clock, read at the top
  next, oldest, inFlight, stopped, busy, busySince,
  state, sentAt,
  wake,      \* when poll's timeout ends
  alive,     \* the scanner's answer, per host
  clock, stopReq,
  inbox,     \* what waits in the sockets: a host and whether the reply is to this sweep
  reports,   \* history: how often pinged was called for a host
  replied,   \* history: hosts whose own reply to this sweep arrived
  refused,   \* history: hosts the kernel would not send to in this turn
  fullFrom   \* history: when host `next` first found every socket full

sweepVars == <<result, alive, reports, state, inFlight>>
sendVars == <<next, sentAt, busy, busySince, refused, fullFrom>>
worldVars == <<clock, stopReq, inbox, replied>>
vars == <<pc, now, oldest, stopped, wake, sweepVars, sendVars, worldVars>>

Init ==
  /\ pc = "open" /\ result = "running" /\ now = 0 /\ wake = 0
  /\ next = 0 /\ oldest = 0 /\ inFlight = 0 /\ stopped = FALSE
  /\ busy = FALSE /\ busySince = Unset
  /\ state = [h \in Hosts |-> "waiting"] /\ sentAt = [h \in Hosts |-> Unset]
  /\ alive = [h \in Hosts |-> FALSE]
  /\ clock = 0 /\ stopReq = FALSE /\ inbox = {}
  /\ reports = [h \in Hosts |-> 0] /\ replied = {} /\ refused = {}
  /\ fullFrom = Unset

\* report, and the scanner's pinged behind it, for every host of S.
Report(S, answered) ==
  /\ state' = [h \in Hosts |-> IF h \in S THEN "reported" ELSE state[h]]
  /\ alive' = [h \in Hosts |-> IF h \in S THEN answered ELSE alive[h]]
  /\ reports' = [h \in Hosts |-> IF h \in S THEN reports[h] + 1 ELSE reports[h]]

\* The hosts of S still waited for.
Flying(S) == {h \in S : state[h] = "inFlight"}

\* Sockets and arrays: with no socket or no memory nothing is sent.
Open ==
  /\ pc = "open"
  /\ \/ pc' = "look" /\ UNCHANGED result
     \/ pc' = "done" /\ result' \in {"unavailable", "noMemory"}
  /\ UNCHANGED <<now, oldest, stopped, wake, alive, reports, state, inFlight, sendVars, worldVars>>

\* How far `oldest` walks at time t: past every reported host and every host
\* whose wait is over.
Walked(t) ==
  CHOOSE i \in oldest..next :
    /\ i = next \/ (state[i] = "inFlight" /\ t < sentAt[i] + Timeout)
    /\ \A h \in oldest..(i - 1) : state[h] # "inFlight" \/ t >= sentAt[h] + Timeout

\* The top of the loop: the time, the hosts whose wait is over, a stop.
Look ==
  LET over == Flying(oldest..(Walked(clock) - 1))
  IN /\ pc = "look"
     /\ now' = clock
     /\ Report(over, FALSE)
     /\ inFlight' = inFlight - Cardinality(over)
     /\ oldest' = Walked(clock)
     /\ stopped' = (stopped \/ stopReq)
     /\ busy' = FALSE /\ refused' = {}
     /\ pc' = "send"
     /\ UNCHANGED <<result, next, sentAt, busySince, fullFrom, wake, worldVars>>

SendBudget(elapsed, sent) ==
  LET allowed == (elapsed + 1) * SendsPerMs
  IN IF allowed > sent THEN allowed - sent ELSE 0

\* One more echo may go out in this turn. `next` counts every echo the budget
\* was spent on, so what is left of the budget follows from it.
MaySend ==
  ~stopped /\ next < Count /\ inFlight < MaxInFlight /\ SendBudget(now, next) > 0 /\ ~busy

\* Mutation: the next host inherits how long this one found the sockets full.
AdvanceStillBusy == next' = next + 1 /\ fullFrom' = Unset /\ UNCHANGED busySince

\* On to the next host.
Advance == next' = next + 1 /\ fullFrom' = Unset /\ busySince' = Unset

SendOk ==
  /\ pc = "send" /\ MaySend
  /\ state' = [state EXCEPT ![next] = "inFlight"]
  /\ sentAt' = [sentAt EXCEPT ![next] = now]
  /\ inFlight' = inFlight + 1
  /\ Advance
  /\ UNCHANGED <<pc, result, now, oldest, stopped, wake, alive, reports, busy, refused,
                 worldVars>>

SendFailed ==
  /\ pc = "send" /\ MaySend
  /\ Report({next}, FALSE)
  /\ refused' = refused \cup {next}
  /\ Advance
  /\ UNCHANGED <<pc, result, now, oldest, stopped, wake, sentAt, inFlight, busy, worldVars>>

\* Every socket is full: wait for room, or give the host up.
SendBusy ==
  LET since == IF busySince = Unset THEN now ELSE busySince
  IN /\ pc = "send" /\ MaySend
     /\ IF now - since < GiveUp
          THEN /\ busy' = TRUE /\ busySince' = since
               /\ fullFrom' = IF fullFrom = Unset THEN now ELSE fullFrom
               /\ UNCHANGED <<next, alive, reports, state>>
          ELSE /\ Report({next}, FALSE)
               /\ Advance /\ UNCHANGED busy
     /\ UNCHANGED <<pc, result, now, oldest, stopped, wake, sentAt, inFlight, refused, worldVars>>

\* Mutation: a full wait from now, not from when the oldest echo left.
WaitsFromNow ==
  IF ~stopped /\ next < Count /\ (busy \/ inFlight < MaxInFlight) THEN {1} ELSE {Timeout}

\* How long poll may sleep. sent_at of a host no echo left for was never
\* written, and gives any wait.
Waits ==
  IF ~stopped /\ next < Count /\ (busy \/ inFlight < MaxInFlight) THEN {1}
  ELSE IF oldest = next THEN {Timeout}
  ELSE IF sentAt[oldest] = Unset THEN Garbage
  ELSE {IF sentAt[oldest] + Timeout > now THEN sentAt[oldest] + Timeout - now ELSE 0}

\* Mutation: a stop leaves the echoes in flight behind.
OverOnceStopped == stopped \/ (inFlight = 0 /\ next = Count)

Over == inFlight = 0 /\ (stopped \/ next = Count)

Leave ==
  /\ pc = "send" /\ ~MaySend /\ Over
  /\ pc' = "done" /\ result' = "done"
  /\ UNCHANGED <<now, oldest, stopped, wake, alive, reports, state, inFlight, sendVars, worldVars>>

Sleep ==
  /\ pc = "send" /\ ~MaySend /\ ~Over
  /\ \E wait \in Waits : wake' = now + wait
  /\ pc' = "poll"
  /\ UNCHANGED <<now, oldest, stopped, sweepVars, sendVars, worldVars>>

\* Mutation: poll without a timeout.
PollInterrupted ==
  /\ pc = "poll" /\ stopReq /\ ~stopped
  /\ pc' = "look"
  /\ UNCHANGED <<now, oldest, stopped, wake, sweepVars, sendVars, worldVars>>

\* poll returns with nothing: its time is over, or a signal interrupted it.
PollEmpty ==
  /\ pc = "poll"
  /\ \/ clock >= wake /\ inbox = {}
     \/ stopReq /\ ~stopped
  /\ pc' = "look"
  /\ UNCHANGED <<now, oldest, stopped, wake, sweepVars, sendVars, worldVars>>

\* Mutation: the token is not compared.
MatchedAnyToken(heard) == {h \in Hosts : \E sweep \in {"own", "other"} : <<h, sweep>> \in heard}

\* The host a reply answers: match_reply drops replies to another sweep, and
\* those that are not from the host they name.
Matched(heard) == {h \in Hosts : <<h, "own">> \in heard}

\* Drain the sockets that poll found readable.
Drain ==
  /\ pc = "poll"
  /\ \E heard \in SUBSET inbox :
       LET answered == Flying(Matched(heard))
       IN /\ heard # {}
          /\ Report(answered, TRUE)
          /\ inFlight' = inFlight - Cardinality(answered)
          /\ inbox' = inbox \ heard
  /\ pc' = "look"
  /\ UNCHANGED <<result, now, oldest, stopped, wake, sendVars, clock, stopReq, replied>>

-----------------------------------------------------------------------------
(* Around the loop: the clock, a stop request, and the network. A reply may *)
(* come late, or again (macOS gives each socket a copy); replies of other   *)
(* sweeps, and forwarded ones, may come for any host.                       *)
LoopStep == Open \/ Look \/ SendOk \/ SendFailed \/ SendBusy \/ Leave \/ Sleep \/ PollEmpty \/ Drain

Tick ==
  /\ pc = "poll" /\ clock <= wake
  /\ clock' = clock + 1
  /\ UNCHANGED <<pc, now, oldest, stopped, wake, sweepVars, sendVars, stopReq, inbox, replied>>

StopRequest ==
  /\ pc # "done" /\ ~stopReq
  /\ stopReq' = TRUE
  /\ UNCHANGED <<pc, now, oldest, stopped, wake, sweepVars, sendVars, clock, inbox, replied>>

Reply ==
  /\ pc = "poll" /\ Cardinality(inbox) < MaxWaiting
  /\ \E h \in Hosts : /\ sentAt[h] # Unset
                      /\ inbox' = inbox \cup {<<h, "own">>}
                      /\ replied' = replied \cup {h}
  /\ UNCHANGED <<pc, now, oldest, stopped, wake, sweepVars, sendVars, clock, stopReq>>

Stray ==
  /\ pc = "poll" /\ Cardinality(inbox) < MaxWaiting
  /\ \E h \in Hosts : inbox' = inbox \cup {<<h, "other">>}
  /\ UNCHANGED <<pc, now, oldest, stopped, wake, sweepVars, sendVars, clock, stopReq, replied>>

Finished == pc = "done" /\ UNCHANGED vars

Next == LoopStep \/ Tick \/ StopRequest \/ Reply \/ Stray \/ Finished

Spec == Init /\ [][Next]_vars

-----------------------------------------------------------------------------
TypeOK ==
  /\ pc \in {"open", "look", "send", "poll", "done"}
  /\ result \in {"running", "done", "unavailable", "noMemory"}
  /\ now \in Nat /\ wake \in Nat /\ clock \in Nat
  /\ next \in 0..Count /\ oldest \in 0..next /\ inFlight \in Int /\ inFlight <= MaxInFlight
  /\ stopped \in BOOLEAN /\ busy \in BOOLEAN /\ stopReq \in BOOLEAN
  /\ busySince \in Nat \cup {Unset}
  /\ state \in [Hosts -> {"waiting", "inFlight", "reported"}]
  /\ sentAt \in [Hosts -> Nat \cup {Unset}] /\ fullFrom \in Nat \cup {Unset}
  /\ alive \in [Hosts -> BOOLEAN] /\ reports \in [Hosts -> Nat]
  /\ inbox \subseteq Hosts \X {"own", "other"}
  /\ replied \subseteq Hosts /\ refused \subseteq Hosts

(* However replies, copies of replies and expiring waits fall together,
   icmp_ping_sweep calls pinged once for every host it got to and not at all
   for the others; and it gets to all of them unless it was stopped or never
   started. *)
EachHostOnce ==
  /\ \A h \in Hosts : reports[h] <= 1 /\ (reports[h] = 1 => h < next)
  /\ pc = "done" =>
       /\ \A h \in Hosts : reports[h] = 1 <=> h < next
       /\ next = Count \/ stopped \/ (result # "done" /\ next = 0)

(* A host counts as up only if it answered an echo of this very sweep: not
   another program's ping, an earlier sweep's late reply or another host. *)
AliveMeansReplied == \A h \in Hosts : alive[h] => h \in replied /\ sentAt[h] # Unset

(* "Never report a host down that no echo reached": without an echo a host is
   reported only when the kernel refuses it, or after this host, not one
   before it, has found every socket full for the whole patience. *)
DownWithoutEcho ==
  [][\A h \in Hosts :
       reports'[h] # reports[h] /\ ~alive'[h] /\ sentAt[h] = Unset /\ h \notin refused'
         => h = next /\ fullFrom # Unset /\ now - fullFrom >= GiveUp]_vars

(* The sleep is cut to the wait of the first host in flight, so that no host
   outlives its wait by more than poll's own delay, whatever became of the
   hosts before it; only behind a host no echo left for may the loop sleep
   longer. *)
OversleepsOnlyBehindUnsent ==
  \A h \in Hosts :
    pc = "poll" /\ state[h] = "inFlight" /\ clock > sentAt[h] + Timeout + 1
      => sentAt[oldest] = Unset

(* "A host still unanswered timeout_ms after its echo left counts as down"
   (icmp_ping.c), give or take poll's delay. *)
DownAfterTimeout ==
  \A h \in Hosts : state[h] = "inFlight" => clock <= sentAt[h] + Timeout + 1

(* Every sweep ends, whatever the sockets, the network and a stop do: full
   sockets are given up on and every echo's wait runs out. *)
SweepEnds == <>(pc = "done")
=============================================================================
