------------------------------- MODULE TcpProbe -------------------------------
(***************************************************************************)
(* The three calls behind a connect on Windows (tcp_probe.c), as a loop of *)
(* the engine makes them: start, wait on all pending sockets at once, and  *)
(* finish those that were signalled or ran out of time, walking backwards  *)
(* over arrays that removal swaps the last slot into. Winsock hands a      *)
(* closed socket's handle out again.                                       *)
(*                                                                         *)
(* Deadlines are flags: Expire lets one pass. Reading SO_ERROR succeeds.   *)
(***************************************************************************)
EXTENDS Integers, Sequences, FiniteSets, Functions

CONSTANTS Jobs,      \* the targets to connect to
          NoJob,     \* the owner of a handle that is not open
          Handles,   \* socket handles
          Capacity   \* connects in flight

ASSUME ProbeAssumption ==
  /\ IsFiniteSet(Jobs) /\ NoJob \notin Jobs
  /\ Capacity \in Nat \ {0} /\ Capacity <= Cardinality(Handles)

VARIABLES
  pc,        \* "fill", "wait", "collect"
  todo,      \* jobs to start
  jobs, socks, settled,  \* the connects in flight, as parallel arrays
  k,         \* the slot to look at next
  verdict,   \* per job: what was reported, or what start could not have
  expired,   \* jobs past their deadline
  own,       \* the targets are this machine's own addresses
  listens,   \* the targets with a listener
  conn,      \* the kernel's: the connect behind each handle
  state,     \* the kernel's: what a job's connect came to
  met,       \* the kernel's: who a connect that succeeded met
  seen       \* history: connects that had succeeded when select last looked

flight == <<jobs, socks, settled>>
kernel == <<conn, state, met>>
vars == <<pc, todo, flight, k, verdict, expired, own, listens, kernel, seen>>

Init ==
  /\ pc = "fill" /\ todo = Jobs /\ jobs = <<>> /\ socks = <<>> /\ settled = <<>> /\ k = 0
  /\ verdict = [j \in Jobs |-> "none"] /\ expired = {}
  /\ own \in BOOLEAN /\ listens \in SUBSET Jobs
  /\ conn = [h \in Handles |-> NoJob]
  /\ state = [j \in Jobs |-> "idle"] /\ met = [j \in Jobs |-> "nobody"] /\ seen = {}

Free == {h \in Handles : conn[h] = NoJob}

\* What a connect can come to, and whom it can meet: a listener, or, on this
\* machine, itself or another connect of the scan; "failed" is every error
\* that is not a refusal.
Ends(j) ==
  (IF j \in listens THEN {<<"connected", "listener">>} ELSE {<<"refused", "nobody">>})
  \cup {<<"failed", "nobody">>}
  \cup (IF own THEN {<<"connected", "itself">>, <<"connected", "other">>} ELSE {})

\* The verdict on an error.
Classify(end) == IF end = "refused" THEN "refused" ELSE "filtered"

\* The verdict on a connect without an error. One that has not connected yet
\* has no peer to name, and passes for open.
Connected(end, whom) ==
  IF end # "connected" \/ ~own THEN "open"
  ELSE IF whom = "itself" THEN "refused" ELSE "unconfirmed"

\* Mutation: the socket of a connect that settled at once stays open.
ClosedKept(c, h, j) == [c EXCEPT ![h] = j]

\* The handles once j's socket h is closed.
Closed(c, h, j) == [c EXCEPT ![h] = NoJob]

MayStart(j) == pc = "fill" /\ j \in todo /\ Len(jobs) < Capacity

\* No socket, not non-blocking, no buffers, or no local port: nothing went out,
\* and the caller tries again.
StartShort(j) ==
  /\ MayStart(j)
  /\ \/ conn' = conn
     \/ \E h \in Free : conn' = Closed([conn EXCEPT ![h] = j], h, j)
  /\ \E short \in {"noSocket", "noAddress"} : verdict' = [verdict EXCEPT ![j] = short]
  /\ UNCHANGED <<pc, todo, flight, k, expired, own, listens, state, met, seen>>

\* The connect settles at once.
StartDone(j) ==
  /\ MayStart(j)
  /\ \E h \in Free, e \in Ends(j) :
       /\ state' = [state EXCEPT ![j] = e[1]] /\ met' = [met EXCEPT ![j] = e[2]]
       /\ verdict' = [verdict EXCEPT ![j] = IF e[1] = "connected" THEN Connected(e[1], e[2])
                                                                  ELSE Classify(e[1])]
       /\ conn' = Closed([conn EXCEPT ![h] = j], h, j)
  /\ todo' = todo \ {j}
  /\ UNCHANGED <<pc, flight, k, expired, own, listens, seen>>

StartPending(j) ==
  /\ MayStart(j)
  /\ \E h \in Free : conn' = [conn EXCEPT ![h] = j] /\ socks' = Append(socks, h)
  /\ jobs' = Append(jobs, j) /\ settled' = Append(settled, FALSE)
  /\ state' = [state EXCEPT ![j] = "connecting"]
  /\ verdict' = [verdict EXCEPT ![j] = "none"]
  /\ todo' = todo \ {j}
  /\ UNCHANGED <<pc, k, expired, own, listens, met, seen>>

Filled ==
  /\ pc = "fill" /\ jobs # <<>> /\ pc' = "wait"
  /\ UNCHANGED <<todo, flight, k, verdict, expired, own, listens, kernel, seen>>

\* What select leaves in its two sets: the sockets that connected and those that failed.
Writable == {h \in Range(socks) : state[conn[h]] = "connected"}
Failed == {h \in Range(socks) : state[conn[h]] \in {"refused", "failed"}}

Collecting == pc' = "collect" /\ k' = Len(jobs)

\* select found some: each watched socket is looked up among them.
WaitReady ==
  /\ pc = "wait" /\ Writable \cup Failed # {}
  /\ settled' = [i \in DOMAIN socks |-> socks[i] \in Writable \cup Failed]
  /\ seen' = {conn[h] : h \in Writable}
  /\ Collecting
  /\ UNCHANGED <<todo, jobs, socks, verdict, expired, own, listens, kernel>>

\* The time is over with nothing there, select failed or there is no memory
\* for its sets: nothing is marked.
WaitNothing ==
  /\ pc = "wait"
  /\ settled' = [i \in DOMAIN socks |-> FALSE] /\ seen' = {}
  /\ Collecting
  /\ UNCHANGED <<todo, jobs, socks, verdict, expired, own, listens, kernel>>

\* Mutation: an unsignalled connect without an error is taken for a success.
FinishUnsignalled(j, answered) ==
  IF state[j] \in {"connecting", "connected"} THEN Connected(state[j], met[j])
  ELSE Classify(state[j])

\* tcp_probe_finish: a late refusal counts, a late success does not.
Finish(j, answered) ==
  IF state[j] \in {"connecting", "connected"}
    THEN IF answered THEN Connected(state[j], met[j]) ELSE "filtered"
    ELSE Classify(state[j])

SwapRemove(s, i) == SubSeq([s EXCEPT ![i] = s[Len(s)]], 1, Len(s) - 1)

\* One slot: still in flight, or finished and removed.
Collect ==
  /\ pc = "collect" /\ k > 0
  /\ k' = k - 1
  /\ IF settled[k] \/ jobs[k] \in expired
       THEN /\ verdict' = [verdict EXCEPT ![jobs[k]] = Finish(conn[socks[k]], settled[k])]
            /\ conn' = Closed(conn, socks[k], jobs[k])
            /\ jobs' = SwapRemove(jobs, k) /\ socks' = SwapRemove(socks, k)
            /\ settled' = SwapRemove(settled, k)
       ELSE UNCHANGED <<verdict, conn, flight>>
  /\ UNCHANGED <<pc, todo, expired, own, listens, state, met, seen>>

Collected ==
  /\ pc = "collect" /\ k = 0 /\ pc' = "fill"
  /\ UNCHANGED <<todo, flight, k, verdict, expired, own, listens, kernel, seen>>

-----------------------------------------------------------------------------
\* The kernel settles a connect, at any time before its socket is closed.
Settle ==
  /\ \E h \in Handles \ Free : \E e \in Ends(conn[h]) :
       /\ state[conn[h]] = "connecting"
       /\ state' = [state EXCEPT ![conn[h]] = e[1]]
       /\ met' = [met EXCEPT ![conn[h]] = e[2]]
  /\ UNCHANGED <<pc, todo, flight, k, verdict, expired, own, listens, conn, seen>>

Expire ==
  /\ \E i \in DOMAIN jobs : jobs[i] \notin expired /\ expired' = expired \cup {jobs[i]}
  /\ UNCHANGED <<pc, todo, flight, k, verdict, own, listens, kernel, seen>>

Finished == pc = "fill" /\ todo = {} /\ jobs = <<>> /\ UNCHANGED vars

Next ==
  \/ \E j \in Jobs : StartShort(j) \/ StartDone(j) \/ StartPending(j)
  \/ Filled \/ WaitReady \/ WaitNothing \/ Collect \/ Collected \/ Settle \/ Expire \/ Finished

Spec == Init /\ [][Next]_vars

-----------------------------------------------------------------------------
Verdicts == {"none", "noSocket", "noAddress", "open", "refused", "filtered", "unconfirmed"}

TypeOK ==
  /\ pc \in {"fill", "wait", "collect"} /\ todo \subseteq Jobs /\ expired \subseteq Jobs
  /\ jobs \in Seq(Jobs) /\ socks \in Seq(Handles) /\ settled \in Seq(BOOLEAN)
  /\ Len(socks) = Len(jobs) /\ Len(settled) = Len(jobs) /\ k \in 0..Capacity
  /\ verdict \in [Jobs -> Verdicts] /\ own \in BOOLEAN /\ listens \subseteq Jobs
  /\ conn \in [Handles -> Jobs \cup {NoJob}]
  /\ state \in [Jobs -> {"idle", "connecting", "connected", "refused", "failed"}]
  /\ met \in [Jobs -> {"nobody", "listener", "itself", "other"}] /\ seen \subseteq Jobs

(* "Only a signaled success counts as open -- anything still in flight at the
   deadline is no answer, never open": an open port was connected to by its own
   job and met a listener, and without a confirmation never on this machine;
   refused means a refusal or a connect to itself; and silence is reported
   neither of a connect that was refused, however late, nor of one that select
   had seen succeed. *)
VerdictEarned ==
  \A j \in Jobs :
    /\ verdict[j] = "open" => state[j] = "connected" /\ met[j] = "listener" /\ ~own
    /\ verdict[j] = "refused" => state[j] = "refused" \/ met[j] = "itself"
    /\ verdict[j] = "filtered" => state[j] # "refused" /\ j \notin seen

(* The handles open are exactly those of the connects in flight, each once,
   whatever start met and however handles are reused: a leaked one would make
   the scan run out of sockets, one closed early would be another connect's. *)
HandlesConserved ==
  /\ \A i \in DOMAIN jobs : conn[socks[i]] = jobs[i]
  /\ Cardinality(Handles \ Free) = Len(jobs)
=============================================================================
