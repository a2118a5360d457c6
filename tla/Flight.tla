-------------------------------- MODULE Flight --------------------------------
(***************************************************************************)
(* connects.zig's deadlines, with a clock: the connects a port scan sends  *)
(* before the host's first answer (Target.cut_floor_ms set), each in       *)
(* flight in one of the run's loops. Once the source has learned a wait,   *)
(* such a connect may be cut short to it (Cut, Flight.deadline), and a     *)
(* loop must wake early enough to do so although the answer that taught    *)
(* the wait reached another loop (Flight.earliestWake).                    *)
(*                                                                         *)
(* Loops are prompt: whatever a loop is due to do at an instant it does    *)
(* before the clock moves on, from reading the time to storing it, so the  *)
(* last answer's stamp never runs back. wait_cap_ms and                    *)
(* last_cuttable_answer_ns are read without the lock and unordered: a loop *)
(* may read, of either, the value it had at the end of the instant before. *)
(***************************************************************************)
EXTENDS MaxMin, FiniteSets

CONSTANTS
  Loops, Conns,
  Home,       \* the loop each connect is started by
  Floor,      \* cut_floor_ms, PORT_TIMEOUT_FLOOR_MS
  Timeout,    \* timeout_ms of a blind try, PORT_TIMEOUT_MS
  Waits,      \* the waits the source may learn (RttEstimator.timeoutMs)
  MaxTime     \* bound of the model: the clock stops there

NoCap == 0
NoAnswer == -1
Never == MaxTime + 1

MaxOf(S) == CHOOSE x \in S : \A y \in S : y <= x
MinOf(S) == CHOOSE x \in S : \A y \in S : x <= y

ASSUME FlightAssumption ==
  /\ Home \in [Conns -> Loops]
  /\ Floor \in Nat \ {0} /\ Timeout \in Nat /\ MaxTime \in Nat /\ Floor < Timeout
  /\ Waits \subseteq Floor..Timeout /\ Waits # {} /\ IsFiniteSet(Waits)

VARIABLES
  clock,
  status,    \* "idle", "flight", "settled" (its socket is), "answered", "silent"
  started,   \* Flight.started
  cap,       \* wait_cap_ms
  last,      \* last_cuttable_answer_ns
  oldCap, oldLast,  \* the same, at the end of the instant before
  host,      \* what fastest_answer_us says of it: "unknown", "far", "near"
  wake,      \* when each loop's poll times out
  \* History.
  heard,     \* when the host's answer to a connect arrived at this machine
  checked    \* connects whose floor passed with a cap set, and set ever since

vars == <<clock, status, started, cap, last, oldCap, oldLast, host, wake, heard, checked>>

-----------------------------------------------------------------------------

Cuts == [wait : {cap, oldCap}, last : {last, oldLast}]

\* Mutation: a cut deadline replaces the connect's own.
DeadlineExtends(s, cut) ==
  IF cut.wait = NoCap THEN s + Timeout
                      ELSE Larger(s, cut.last) + Larger(cut.wait, Floor)

\* Flight.deadline for a connect started at s.
Deadline(s, cut) ==
  IF cut.wait = NoCap
    THEN s + Timeout
    ELSE Smaller(s + Timeout, Larger(s, cut.last) + Larger(cut.wait, Floor))

\* Mutation: no look at the floor.
WakeForDeadline(s, cut, now) == Deadline(s, cut)

\* One connect's share of earliestWake: its deadline, and, with nothing to
\* cut it to yet, the moment its floor has passed.
WakeFor(s, cut, now) ==
  IF cut.wait = NoCap /\ s + Floor > now
    THEN Smaller(Deadline(s, cut), s + Floor)
    ELSE Deadline(s, cut)

\* Flight.earliestWake over the start times of what is in flight.
EarliestWake(starts, cut, now) ==
  IF starts = {} THEN Never ELSE MinOf({WakeFor(s, cut, now) : s \in starts})

\* PortScan.waitCap: none while the host is far (its fastest answer took
\* longer than the floor), or while two tries of the learned wait do not fit.
WaitCaps(where) == IF where = "near" THEN Waits \cup {NoCap} ELSE {NoCap}

Mine(l, what) == {c \in Conns : Home[c] = l /\ status[c] = what}

\* What the answer to connect c, collected now, says of the host.
Shows(c) == IF clock - started[c] > Floor THEN "far" ELSE "near"

\* Mutation: with a wait learned, the burst's answers no longer move the stamp.
ReportUntilLearned(answers, later) ==
  LET shown == {Shows(c) : c \in answers} \cup later \cup {host}
  IN /\ host' = IF "near" \in shown THEN "near" ELSE IF "far" \in shown THEN "far" ELSE "unknown"
     /\ last' = IF answers = {} \/ cap # NoCap THEN last ELSE clock
     /\ IF answers = {} /\ later = {} THEN UNCHANGED cap ELSE cap' \in WaitCaps(host')

\* Shared.done on what a turn collected, `later` being what answers to tries
\* after the burst show: answers of the burst move the stamp, and every
\* answer moves what the source has learned.
Report(answers, later) ==
  LET shown == {Shows(c) : c \in answers} \cup later \cup {host}
  IN /\ host' = IF "near" \in shown THEN "near" ELSE IF "far" \in shown THEN "far" ELSE "unknown"
     /\ last' = IF answers = {} THEN last ELSE clock
     /\ IF answers = {} /\ later = {} THEN UNCHANGED cap ELSE cap' \in WaitCaps(host')

\* Tries after the burst are made once the host has answered.
LaterTries == IF host = "unknown" THEN {{}} ELSE {{}, {"far"}, {"near"}}

\* What the loop may read before it sleeps: what is there if it has just held
\* the lock to report, else as stale as Cuts.
CutsAfter(reported) ==
  IF reported THEN [wait : {cap'}, last : {last'}]
              ELSE [wait : {cap', oldCap}, last : {last', oldLast}]

\* Connects of loop l past their deadline, as `cut` has it.
Expired(l, cut) == {c \in Mine(l, "flight") : clock >= Deadline(started[c], cut)}

\* One turn of a loop: collect what settled or ran out of time, report it,
\* start what the window allows (blind tries only while the host has
\* answered nothing), and sleep.
Turn(l) ==
  \E lost \in {Expired(l, cut) : cut \in Cuts}, new \in SUBSET Mine(l, "idle"), later \in LaterTries :
    LET answers == Mine(l, "settled")
        going == (Mine(l, "flight") \ lost) \cup new
        reported == answers \cup lost # {} \/ later # {}
    IN /\ Report(answers, later)
       /\ new # {} => host' = "unknown"
       /\ status' = [c \in Conns |->
            CASE c \in answers -> "answered" [] c \in lost -> "silent"
              [] c \in new -> "flight" [] OTHER -> status[c]]
       /\ started' = [c \in Conns |-> IF c \in new THEN clock ELSE started[c]]
       /\ \E at \in {EarliestWake({started'[c] : c \in going}, cut, clock) : cut \in CutsAfter(reported)} :
            wake' = [wake EXCEPT ![l] = at]
       /\ checked' = IF cap' = NoCap THEN {} ELSE checked \ (answers \cup lost)
       /\ UNCHANGED <<clock, oldCap, oldLast, heard>>

Answer(c) ==
  /\ status[c] = "flight"
  /\ status' = [status EXCEPT ![c] = "settled"]
  /\ heard' = [heard EXCEPT ![c] = clock]
  /\ UNCHANGED <<clock, started, cap, last, oldCap, oldLast, host, wake, checked>>

\* A loop's poll has returned: a socket settled, or its time is up.
Awake(l) == Mine(l, "settled") # {} \/ clock >= wake[l]

Tick ==
  /\ clock < MaxTime
  /\ \A l \in Loops : ~Awake(l)
  /\ clock' = clock + 1
  /\ oldCap' = cap /\ oldLast' = last
  /\ checked' = checked \cup
       {c \in Conns : status[c] = "flight" /\ started[c] + Floor = clock + 1 /\ cap # NoCap}
  /\ UNCHANGED <<status, started, cap, last, host, wake, heard>>

Init ==
  /\ clock = 0
  /\ status = [c \in Conns |-> "idle"] /\ started = [c \in Conns |-> 0]
  /\ cap = NoCap /\ last = 0 /\ oldCap = NoCap /\ oldLast = 0
  /\ host = "unknown" /\ heard = [c \in Conns |-> NoAnswer] /\ checked = {}
  /\ wake = [l \in Loops |-> 0]

Next ==
  \/ \E l \in Loops : Turn(l)
  \/ \E c \in Conns : Answer(c)
  \/ Tick

Spec == Init /\ [][Next]_vars

-----------------------------------------------------------------------------

TypeOK ==
  /\ clock \in 0..MaxTime
  /\ status \in [Conns -> {"idle", "flight", "settled", "answered", "silent"}]
  /\ started \in [Conns -> 0..MaxTime]
  /\ cap \in Waits \cup {NoCap} /\ oldCap \in Waits \cup {NoCap}
  /\ last \in 0..MaxTime /\ oldLast \in 0..MaxTime
  /\ host \in {"unknown", "far", "near"} /\ heard \in [Conns -> Nat \cup {NoAnswer}]
  /\ wake \in [Loops -> Nat] /\ checked \subseteq Conns

(* Connect c has had a learned wait since it started and since every answer
   of the burst that arrived at any of `instants`. *)
QuietLongEnough(c, instants) ==
  \E wait \in {cap, oldCap} \ {NoCap} :
    /\ clock >= started[c] + wait
    /\ \A d \in Conns : heard[d] \in instants => clock >= heard[d] + wait

(* A connect is given up on only after its own wait, or once a wait the
   source has taught has passed both since it started and since every
   answer the burst had got before this instant, whichever loop's socket
   that answer came to, and however stale what this loop reads. *)
CutsOnlyQuietBurst ==
  [][\A c \in Conns :
       status[c] = "flight" /\ status'[c] = "silent" =>
         clock >= started[c] + Timeout \/ QuietLongEnough(c, 0..clock - 1)]_vars

(* What the comment on Cut says, which does not hold: with the two relaxed
   loads of Shared.cut, a wait just taught may be read beside the last answer
   before the one that taught it, and then the burst is cut in the very
   instant it got an answer. *)
NeverCutsAnsweredBurst ==
  [][\A c \in Conns :
       status[c] = "flight" /\ status'[c] = "silent" =>
         clock >= started[c] + Timeout \/ QuietLongEnough(c, 0..clock)]_vars

(* No connect outlives its own wait, whatever its loop slept on. *)
NoneOverstays ==
  \A c \in Conns : status[c] = "flight" => clock <= started[c] + Timeout

(* A connect whose floor passed with a wait already learned, by whichever
   loop, is given up on a learned wait after the burst's last answer, not
   at the end of its own wait: earliestWake's look at the floor is enough
   for a loop that no answer ever wakes. *)
FloorCheckSuffices ==
  \A c \in checked :
    status[c] = "flight" => clock <= Larger(started[c], last) + MaxOf(Waits)
=============================================================================
