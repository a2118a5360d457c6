------------------------------- MODULE Connects -------------------------------
(***************************************************************************)
(* The connect engine, src/core/connects.zig: `run` spreads the connects a *)
(* source hands out over a few loop threads. A loop takes jobs under the   *)
(* run's lock, starts a non-blocking connect for each, keeps the ones that *)
(* this machine could not start (Held), waits on the ones in flight        *)
(* (Flight) and reports verdicts in batches (Shared.done).                 *)
(*                                                                         *)
(* One action per step that touches something another thread or the        *)
(* kernel can see; the local code between two such steps belongs to the    *)
(* step before it. Clocks are abstracted to the comparisons the code makes *)
(* with them: a deadline, a retry pause or STALL_LIMIT_NS "has passed"     *)
(* when an environment action says so (Flight.tla has the deadlines with a *)
(* clock). The window is abstracted to its bounds, which Window.tla        *)
(* establishes: each reported batch leaves any size between them.          *)
(***************************************************************************)
EXTENDS Integers, Sequences, FiniteSets

CONSTANTS
  Loops,       \* the threads of the run
  Main,        \* the loop run() executes on the caller's thread
  Jobs,        \* what the source can hand out, one connect each
  OwnJobs,     \* the jobs that target one of the machine's own addresses
  Shortages,   \* what a connect may be short of: subset of Shortage
  MinWindow,   \* Window.min
  Limit,       \* inFlightLimit(), Window.max
  StartBatch,  \* START_BATCH
  MemoryFails, \* whether appending to `unconfirmed` may run out of memory
  NoJob        \* "no job in hand"

Shortage == {"socket", "address"}
Outcome == {"open", "refused", "filtered"}
Verdict == Outcome \cup {"unconfirmed"}

ASSUME LoopsAssumption == Main \in Loops /\ IsFiniteSet(Loops)
ASSUME JobsAssumption == NoJob \notin Jobs /\ OwnJobs \subseteq Jobs /\ IsFiniteSet(Jobs)
ASSUME ShortagesAssumption == Shortages \subseteq Shortage
ASSUME SizesAssumption ==
  /\ MinWindow \in Nat \ {0} /\ Limit \in Nat /\ StartBatch \in Nat \ {0}
  /\ MinWindow <= Limit /\ Cardinality(Loops) <= MinWindow
ASSUME MemoryAssumption == MemoryFails \in BOOLEAN

VARIABLES
  \* The source.
  todo,        \* jobs it has not handed out
  stopped,     \* the scan was asked to stop: next() returns null from now on
  \* Shared.
  size,        \* window.size
  unconfirmed, \* connects to the machine itself, for run to confirm
  starved,     \* a loop gave up on the run
  \* The loops' own variables.
  pc, dry, batch,
  hand,        \* the job taken or popped, about to be started
  held,        \* Held.jobs[0..len]
  suspect, short,
  flight,      \* the jobs in Flight
  settled,     \* the jobs in the `settled` buffer, waiting to be reported
  verdict,     \* their verdicts
  \* Time and kernel, as the loops can observe them.
  pauseOver,   \* now >= held.retry_at
  stalled,     \* now - held.since >= STALL_LIMIT_NS
  expired,     \* jobs in flight past their deadline
  sock,        \* what happened to the socket of a job in flight
  listener,    \* the jobs whose target port has a listener
  \* What the caller sees.
  result,
  outcome,     \* the Outcome source.done() was told
  \* History.
  reports,     \* calls of source.done() per job
  tried,       \* how far a job got: never started, short of what, or asked
  outOfMemory  \* an append to `unconfirmed` failed

sourceVars == <<todo, stopped>>
heldVars == <<held, suspect, short, pauseOver, stalled>>
kernelVars == <<expired, sock, listener>>
callerVars == <<size, unconfirmed, outcome, reports, outOfMemory>>
vars == <<sourceVars, starved, pc, dry, batch, hand, heldVars, flight, settled,
          verdict, kernelVars, callerVars, result, tried>>

-----------------------------------------------------------------------------
(* Sizes. *)

\* Shared.take's limit for one loop.
Share == LET even == size \div Cardinality(Loops) IN IF even >= 1 THEN even ELSE 1

\* Flight's capacity: an even share of the largest window, rounded up.
Capacity == (Limit + Cardinality(Loops) - 1) \div Cardinality(Loops)

-----------------------------------------------------------------------------
(* Held: the predicates. *)

Due(l) == held[l] # <<>> /\ ~suspect[l] /\ (~short[l] \/ pauseOver[l])

Open(l) == held[l] = <<>> \/ suspect[l]

\* Mutation: a second address failure makes a suspect too.
OnlySuspectBoth(l, shortage) == shortage = "address" /\ ~short[l]

\* Mutation: whatever is short, the target is suspected.
OnlySuspectAny(l, shortage) == ~short[l] /\ held[l] = <<>>

\* hold(): a lone address failure while connects were starting fine.
OnlySuspect(l, shortage) ==
  shortage = "address" /\ ~short[l] /\ held[l] = <<>>

\* Mutation: retry for ever.
GivesUpNever(l, shortage) == FALSE

\* hold() returns false: only a shortage that has lasted since an earlier
\* failure can have lasted STALL_LIMIT_NS.
GivesUp(l, shortage) == short[l] /\ stalled[l]

\* held = .{}
ClearHeld(l) ==
  /\ held' = [held EXCEPT ![l] = <<>>]
  /\ suspect' = [suspect EXCEPT ![l] = FALSE]
  /\ short' = [short EXCEPT ![l] = FALSE]
  /\ pauseOver' = [pauseOver EXCEPT ![l] = FALSE]
  /\ stalled' = [stalled EXCEPT ![l] = FALSE]

-----------------------------------------------------------------------------
(* Verdicts. *)

\* Mutation: a connect that succeeds is taken to have met a listener.
ConnectedIsOpen(j, met) == "open"

\* connected(): what a socket that connected proves. It met a listener, or
\* another connect of this run ("crossed"), or itself ("self").
Connected(j, met) ==
  CASE j \notin OwnJobs -> "open"
    [] j \in OwnJobs /\ met = "self" -> "refused"
    [] OTHER -> "unconfirmed"

\* finish(): `seen` is whether poll reported the socket. Past its deadline
\* a connect that poll did not report is read once more: an error counts,
\* a success does not.
Finish(j, seen) ==
  CASE sock[j] = "reset" -> "refused"
    [] sock[j] \in {"pending", "unreachable"} -> "filtered"
    [] sock[j] \in {"listener", "crossed", "self"} ->
         IF seen THEN Connected(j, sock[j]) ELSE "filtered"

\* What connect() can return at once for job j, as verdicts. A connect to
\* the machine itself may meet a connect in flight right there.
Crossable(j) ==
  {k \in OwnJobs \ (listener \cup {j}) :
     j \in OwnJobs \ listener /\ sock[k] = "pending"}

Immediate(j) ==
  IF j \in listener THEN {Connected(j, "listener"), "filtered"}
                    ELSE {"refused", "filtered"}

\* Verdict.alone
Alone(v) == IF v = "unconfirmed" THEN "open" ELSE v

-----------------------------------------------------------------------------
(* Shared.done: report the jobs of S with verdicts v, one lock for all of  *)
(* them. Unconfirmed ones are kept for run, or count as open when there is *)
(* no memory to keep them.                                                 *)
Done(S, v) ==
  LET held_back == {j \in S : v[j] = "unconfirmed"}
  IN \E lost \in SUBSET held_back :
       LET told == (S \ held_back) \cup lost
       IN /\ lost # {} => MemoryFails
          /\ unconfirmed' = unconfirmed \cup (held_back \ lost)
          /\ outcome' = [j \in Jobs |-> IF j \in told THEN Alone(v[j]) ELSE outcome[j]]
          /\ reports' = [j \in Jobs |-> IF j \in told THEN reports[j] + 1 ELSE reports[j]]
          /\ outOfMemory' = (outOfMemory \/ lost # {})
          /\ IF told = {} THEN UNCHANGED size ELSE size' \in MinWindow..Limit

-----------------------------------------------------------------------------
(* The loop. *)

Goto(l, label) == pc' = [pc EXCEPT ![l] = label]

\* The top of the while: once the run has starved, start nothing more.
Top(l) ==
  /\ pc[l] = "top"
  /\ IF starved
       THEN ClearHeld(l) /\ dry' = [dry EXCEPT ![l] = TRUE]
       ELSE UNCHANGED <<heldVars, dry>>
  /\ batch' = [batch EXCEPT ![l] = 0]
  /\ Goto(l, "fill")
  /\ UNCHANGED <<sourceVars, starved, hand, flight, settled, verdict, kernelVars,
                 callerVars, result, tried>>

Filling(l) ==
  /\ pc[l] = "fill"
  /\ Cardinality(flight[l]) < Capacity
  /\ batch[l] < StartBatch

\* The batch is full, or Flight is, or the loop is short and must not take.
StopFilling(l) ==
  /\ pc[l] = "fill"
  /\ Filling(l) => ~Due(l) /\ ~Open(l)
  /\ Goto(l, "report")
  /\ UNCHANGED <<sourceVars, starved, dry, batch, hand, heldVars, flight, settled,
                 verdict, kernelVars, callerVars, result, tried>>

\* held.pop()
Pop(l) ==
  /\ Filling(l)
  /\ Due(l)
  /\ hand' = [hand EXCEPT ![l] = Head(held[l])]
  /\ held' = [held EXCEPT ![l] = Tail(held[l])]
  /\ Goto(l, "start")
  /\ UNCHANGED <<sourceVars, starved, dry, batch, suspect, short, pauseOver, stalled,
                 flight, settled, verdict, kernelVars, callerVars, result, tried>>

MayTake(l) == Filling(l) /\ ~Due(l) /\ Open(l)

TakeFull(l) ==
  /\ MayTake(l) /\ ~dry[l]
  /\ Cardinality(flight[l]) >= Share
  /\ Goto(l, "report")
  /\ UNCHANGED <<sourceVars, starved, dry, batch, hand, heldVars, flight, settled,
                 verdict, kernelVars, callerVars, result, tried>>

TakeJob(l) ==
  /\ MayTake(l) /\ ~dry[l]
  /\ Cardinality(flight[l]) < Share
  /\ ~stopped
  /\ \E j \in todo :
       /\ todo' = todo \ {j}
       /\ hand' = [hand EXCEPT ![l] = j]
  /\ Goto(l, "start")
  /\ UNCHANGED <<stopped, starved, dry, batch, heldVars, flight, settled, verdict,
                 kernelVars, callerVars, result, tried>>

\* The source has no more: a suspect is given up on.
TakeDry(l) ==
  /\ MayTake(l)
  /\ dry[l] \/ (Cardinality(flight[l]) < Share /\ (stopped \/ todo = {}))
  /\ dry' = [dry EXCEPT ![l] = TRUE]
  /\ Goto(l, IF suspect[l] THEN "dropDry" ELSE "report")
  /\ UNCHANGED <<sourceVars, starved, batch, hand, heldVars, flight, settled,
                 verdict, kernelVars, callerVars, result, tried>>

\* shared.unanswered(held.dropSuspect()): when the source ran dry, and when
\* the target after the suspect started.
DropSuspect(l) ==
  /\ pc[l] \in {"dropDry", "dropStarted"}
  /\ Done({Head(held[l])}, [j \in {Head(held[l])} |-> "filtered"])
  /\ held' = [held EXCEPT ![l] = Tail(held[l])]
  /\ suspect' = [suspect EXCEPT ![l] = FALSE]
  /\ Goto(l, IF pc[l] = "dropDry" THEN "report" ELSE "fill")
  /\ UNCHANGED <<sourceVars, starved, dry, batch, hand, short, pauseOver, stalled,
                 flight, settled, verdict, kernelVars, result, tried>>

-----------------------------------------------------------------------------
(* start(target), and what the loop does with each answer. *)

\* The connect is out: held.started(), and the suspect's fate is sealed.
Started(l) ==
  /\ pc[l] = "start"
  /\ short' = [short EXCEPT ![l] = FALSE]
  /\ pauseOver' = [pauseOver EXCEPT ![l] = FALSE]
  /\ stalled' = [stalled EXCEPT ![l] = FALSE]
  /\ tried' = [tried EXCEPT ![hand[l]] = "asked"]
  /\ hand' = [hand EXCEPT ![l] = NoJob]
  /\ batch' = [batch EXCEPT ![l] = @ + 1]
  /\ Goto(l, IF suspect[l] THEN "dropStarted" ELSE "fill")
  /\ UNCHANGED <<sourceVars, starved, dry, held, suspect, callerVars, result, listener>>

StartPending(l) ==
  /\ Started(l)
  /\ flight' = [flight EXCEPT ![l] = @ \cup {hand[l]}]
  /\ sock' = [sock EXCEPT ![hand[l]] = "pending"]
  /\ UNCHANGED <<settled, verdict, expired>>

StartDone(l) ==
  /\ Started(l)
  /\ \/ \E v \in Immediate(hand[l]) :
          verdict' = [verdict EXCEPT ![hand[l]] = v] /\ UNCHANGED sock
     \/ \E k \in Crossable(hand[l]) :
          /\ verdict' = [verdict EXCEPT ![hand[l]] = Connected(hand[l], "crossed")]
          /\ sock' = [sock EXCEPT ![k] = "crossed"]
  /\ settled' = [settled EXCEPT ![l] = @ \cup {hand[l]}]
  /\ UNCHANGED <<flight, expired>>

\* Mutation: one slot, so a failure after a suspect's overwrites it.
HoldOne(l, shortage) ==
  /\ held' = [held EXCEPT ![l] = <<hand[l]>>]
  /\ suspect' = [suspect EXCEPT ![l] = OnlySuspect(l, shortage)]
  /\ short' = [short EXCEPT ![l] = ~OnlySuspect(l, shortage)]
  /\ pauseOver' = [pauseOver EXCEPT ![l] = FALSE]
  /\ stalled' = [stalled EXCEPT ![l] = @ /\ short[l]]

\* held.hold(job, shortage): the first failure of its kind makes a suspect,
\* any other a shortage.
Hold(l, shortage) ==
  /\ held' = [held EXCEPT ![l] = Append(@, hand[l])]
  /\ IF OnlySuspect(l, shortage)
       THEN /\ suspect' = [suspect EXCEPT ![l] = TRUE]
            /\ UNCHANGED <<short, pauseOver, stalled>>
       ELSE /\ suspect' = [suspect EXCEPT ![l] = FALSE]
            /\ short' = [short EXCEPT ![l] = TRUE]
            /\ pauseOver' = [pauseOver EXCEPT ![l] = FALSE]
            /\ stalled' = [stalled EXCEPT ![l] = @ /\ short[l]]

StartUnprobed(l) ==
  /\ pc[l] = "start"
  /\ \E shortage \in Shortages :
       /\ tried' = [tried EXCEPT ![hand[l]] = shortage]
       /\ IF GivesUp(l, shortage)
            THEN ClearHeld(l) /\ starved' = TRUE /\ dry' = [dry EXCEPT ![l] = TRUE]
            ELSE Hold(l, shortage) /\ UNCHANGED <<starved, dry>>
  /\ hand' = [hand EXCEPT ![l] = NoJob]
  /\ batch' = [batch EXCEPT ![l] = @ + 1]
  /\ Goto(l, "fill")
  /\ UNCHANGED <<sourceVars, flight, settled, verdict, kernelVars, callerVars, result>>

-----------------------------------------------------------------------------
(* Reporting and waiting. *)

\* Mutation: a starved run's loop leaves its connects in flight behind.
AfterReportAbandons(l) ==
  CASE starved -> "end"
    [] ~starved /\ flight[l] # {} -> "wait"
    [] ~starved /\ flight[l] = {} /\ short[l] -> "sleep"
    [] ~starved /\ flight[l] = {} /\ ~short[l] /\ dry[l] /\ held[l] = <<>> -> "end"
    [] OTHER -> "top"

\* Where the loop goes once the batch it started is reported: wait on what
\* is in flight, pause for what is short, return, or go round again.
AfterReport(l) ==
  CASE flight[l] # {} -> "wait"
    [] flight[l] = {} /\ short[l] -> "sleep"
    [] flight[l] = {} /\ ~short[l] /\ dry[l] /\ held[l] = <<>> -> "end"
    [] OTHER -> "top"

Report(l) ==
  /\ pc[l] \in {"report", "collected"}
  /\ Done(settled[l], verdict)
  /\ verdict' = [j \in Jobs |-> IF j \in settled[l] THEN "none" ELSE verdict[j]]
  /\ settled' = [settled EXCEPT ![l] = {}]
  /\ Goto(l, IF pc[l] = "report" THEN AfterReport(l) ELSE "top")
  /\ UNCHANGED <<sourceVars, starved, dry, batch, hand, heldVars, flight, kernelVars,
                 result, tried>>

\* io.sleep until held.retry_at.
Sleep(l) ==
  /\ pc[l] = "sleep"
  /\ pauseOver[l]
  /\ Goto(l, "top")
  /\ UNCHANGED <<sourceVars, starved, dry, batch, hand, heldVars, flight, settled,
                 verdict, kernelVars, callerVars, result, tried>>

\* What poll may report: the sockets no longer pending.
Pollable(l) == {j \in flight[l] : sock[j] # "pending"}

\* waitSettled, then finish() for every connect that settled or ran out of
\* time. The wait may end with nothing settled: a floor check, the next try
\* at a held connect, a signal. What settles after poll looked is not seen.
Collect(l) ==
  /\ pc[l] = "wait"
  /\ \E seen \in SUBSET Pollable(l) :
       LET gone == seen \cup (flight[l] \cap expired)
       IN /\ settled' = [settled EXCEPT ![l] = gone]
          /\ verdict' = [j \in Jobs |-> IF j \in gone THEN Finish(j, j \in seen) ELSE verdict[j]]
          /\ flight' = [flight EXCEPT ![l] = @ \ gone]
          /\ sock' = [j \in Jobs |-> IF j \in gone THEN "none" ELSE sock[j]]
          /\ expired' = expired \ gone
  /\ Goto(l, "collected")
  /\ UNCHANGED <<sourceVars, starved, dry, batch, hand, heldVars, listener, callerVars,
                 result, tried>>

LoopStep(l) ==
  \/ Top(l) \/ StopFilling(l) \/ Pop(l)
  \/ TakeFull(l) \/ TakeJob(l) \/ TakeDry(l) \/ DropSuspect(l)
  \/ StartPending(l) \/ StartDone(l) \/ StartUnprobed(l)
  \/ Report(l) \/ Sleep(l) \/ Collect(l)

-----------------------------------------------------------------------------
(* run, once its loops are through. *)

Ended(l) == pc[l] \in {"end", "failed"}

Joined == result = "running" /\ \A l \in Loops : Ended(l)

\* connectOnce for one unconfirmed job: what it finds, or "filtered", which is
\* no answer, no way to the address, and a shortage that outlasts the stall
\* limit alike. It can meet another connect only if one is in flight.
ConnectOnce(j) ==
  {"filtered"} \cup
  (IF j \in listener THEN {Alone(Connected(j, "listener"))} ELSE {"refused"}) \cup
  (IF Crossable(j) # {} THEN {Alone(Connected(j, "crossed"))} ELSE {})

Confirm(j) ==
  /\ Joined /\ pc[Main] # "failed" /\ ~starved
  /\ j \in unconfirmed
  /\ \E o \in ConnectOnce(j) : outcome' = [outcome EXCEPT ![j] = o]
  /\ reports' = [reports EXCEPT ![j] = @ + 1]
  /\ unconfirmed' = unconfirmed \ {j}
  /\ UNCHANGED <<sourceVars, size, outOfMemory, starved, pc, dry, batch, hand, heldVars,
                 flight, settled, verdict, kernelVars, result, tried>>

Return ==
  /\ Joined
  /\ result' = CASE pc[Main] = "failed" -> "OutOfMemory"
                 [] pc[Main] # "failed" /\ starved -> "OutOfSockets"
                 [] OTHER -> "ok"
  /\ (pc[Main] # "failed" /\ ~starved) => unconfirmed = {}
  /\ UNCHANGED <<sourceVars, starved, pc, dry, batch, hand, heldVars, flight, settled,
                 verdict, kernelVars, callerVars, tried>>

-----------------------------------------------------------------------------
(* The scan's caller, the clock, the kernel and the network. *)

Stop ==
  /\ result = "running" /\ ~stopped
  /\ stopped' = TRUE
  /\ UNCHANGED <<todo, starved, pc, dry, batch, hand, heldVars, flight, settled, verdict,
                 kernelVars, callerVars, result, tried>>

PauseOver(l) ==
  /\ short[l] /\ ~pauseOver[l]
  /\ pauseOver' = [pauseOver EXCEPT ![l] = TRUE]
  /\ UNCHANGED <<sourceVars, starved, pc, dry, batch, hand, held, suspect, short, stalled,
                 flight, settled, verdict, kernelVars, callerVars, result, tried>>

StallLimitOver(l) ==
  /\ short[l] /\ ~stalled[l]
  /\ stalled' = [stalled EXCEPT ![l] = TRUE]
  /\ UNCHANGED <<sourceVars, starved, pc, dry, batch, hand, held, suspect, short, pauseOver,
                 flight, settled, verdict, kernelVars, callerVars, result, tried>>

InFlight == UNION {flight[l] : l \in Loops}

Expire(j) ==
  /\ j \in InFlight \ expired
  /\ expired' = expired \cup {j}
  /\ UNCHANGED <<sourceVars, starved, pc, dry, batch, hand, heldVars, flight, settled,
                 verdict, sock, listener, callerVars, result, tried>>

\* The target answers, or the connect meets itself.
Answer(j) ==
  /\ sock[j] = "pending"
  /\ \E a \in IF j \in listener THEN {"listener"}
              ELSE {"reset", "unreachable"} \cup (IF j \in OwnJobs THEN {"self"} ELSE {}) :
       sock' = [sock EXCEPT ![j] = a]
  /\ UNCHANGED <<sourceVars, starved, pc, dry, batch, hand, heldVars, flight, settled,
                 verdict, expired, listener, callerVars, result, tried>>

\* Two connects of this run meet each other: neither met a listener.
Cross(j, k) ==
  /\ sock[j] = "pending" /\ k \in Crossable(j)
  /\ sock' = [sock EXCEPT ![j] = "crossed", ![k] = "crossed"]
  /\ UNCHANGED <<sourceVars, starved, pc, dry, batch, hand, heldVars, flight, settled,
                 verdict, expired, listener, callerVars, result, tried>>

Environment ==
  \/ Stop
  \/ \E l \in Loops : PauseOver(l) \/ StallLimitOver(l)
  \/ \E j \in Jobs : Expire(j) \/ Answer(j)
  \/ \E j \in Jobs, k \in Jobs : Cross(j, k)

Finished == result # "running" /\ UNCHANGED vars

-----------------------------------------------------------------------------

\* Spawning a loop's thread or allocating its buffers may fail: another
\* loop's costs its share of the window, the caller's own fails the run.
Init ==
  /\ todo = Jobs /\ stopped = FALSE
  /\ size = MinWindow /\ unconfirmed = {} /\ starved = FALSE
  /\ pc \in {f \in [Loops -> {"top", "end", "failed"}] :
               \A l \in Loops : f[l] \in IF l = Main THEN {"top", "failed"} ELSE {"top", "end"}}
  /\ dry = [l \in Loops |-> FALSE] /\ batch = [l \in Loops |-> 0]
  /\ hand = [l \in Loops |-> NoJob] /\ held = [l \in Loops |-> <<>>]
  /\ suspect = [l \in Loops |-> FALSE] /\ short = [l \in Loops |-> FALSE]
  /\ pauseOver = [l \in Loops |-> FALSE] /\ stalled = [l \in Loops |-> FALSE]
  /\ flight = [l \in Loops |-> {}] /\ settled = [l \in Loops |-> {}]
  /\ verdict = [j \in Jobs |-> "none"] /\ expired = {}
  /\ sock = [j \in Jobs |-> "none"] /\ listener \in SUBSET Jobs
  /\ result = "running" /\ outcome = [j \in Jobs |-> "none"]
  /\ reports = [j \in Jobs |-> 0] /\ tried = [j \in Jobs |-> "never"]
  /\ outOfMemory = FALSE

Next ==
  \/ \E l \in Loops : LoopStep(l)
  \/ \E j \in Jobs : Confirm(j)
  \/ Return
  \/ Environment
  \/ Finished

Spec == Init /\ [][Next]_vars

(* The scheduler runs every loop, and the caller's thread once they ended;
   clocks advance: while deadlines, pauses or stall limits are awaited, some
   of them pass. Nothing is assumed of the network. *)
Fairness ==
  /\ \A l \in Loops : WF_vars(LoopStep(l))
  /\ WF_vars(\E l \in Loops : PauseOver(l))
  /\ WF_vars(\E l \in Loops : StallLimitOver(l))
  /\ WF_vars(\E j \in Jobs : Expire(j))
  /\ WF_vars(Return \/ \E j \in Jobs : Confirm(j))

FairSpec == Spec /\ Fairness

-----------------------------------------------------------------------------
(* Properties. *)

(* Every variable has its type. Held never exceeds its two slots, which
   Held.hold asserts, and a suspect is alone in it. *)
TypeOK ==
  /\ todo \subseteq Jobs /\ stopped \in BOOLEAN
  /\ size \in MinWindow..Limit /\ unconfirmed \subseteq Jobs /\ starved \in BOOLEAN
  /\ pc \in [Loops -> {"top", "fill", "start", "dropDry", "dropStarted", "report", "sleep",
                        "wait", "collected", "end", "failed"}]
  /\ dry \in [Loops -> BOOLEAN] /\ batch \in [Loops -> 0..StartBatch]
  /\ hand \in [Loops -> Jobs \cup {NoJob}]
  /\ held \in [Loops -> Seq(Jobs)] /\ \A l \in Loops : Len(held[l]) <= 2
  /\ suspect \in [Loops -> BOOLEAN] /\ short \in [Loops -> BOOLEAN]
  /\ \A l \in Loops : suspect[l] => Len(held[l]) = 1
  /\ pauseOver \in [Loops -> BOOLEAN] /\ stalled \in [Loops -> BOOLEAN]
  /\ flight \in [Loops -> SUBSET Jobs] /\ settled \in [Loops -> SUBSET Jobs]
  /\ verdict \in [Jobs -> Verdict \cup {"none"}]
  /\ expired \subseteq Jobs /\ listener \subseteq Jobs
  /\ sock \in [Jobs -> {"none", "pending", "listener", "reset", "unreachable", "crossed", "self"}]
  /\ result \in {"running", "ok", "OutOfSockets", "OutOfMemory"}
  /\ outcome \in [Jobs -> Outcome \cup {"none"}] /\ reports \in [Jobs -> Nat]
  /\ tried \in [Jobs -> Shortage \cup {"never", "asked"}] /\ outOfMemory \in BOOLEAN

(* The engine implements its contract: every job the loops take from the
   source is reported exactly once, whatever order the loops, the shortages
   and the deadlines come in, and run returns normally only when none is
   left behind. *)
Contract == INSTANCE ConnectRun WITH pulled <- Jobs \ todo
EachJobOnce == Contract!Spec

(* A port of the machine itself is reported open only if something listens
   on it: two connects of the run that met each other, or one that met
   itself, never count, unless there was no memory left to hold the port
   back for confirmation. *)
NoPhantomOpen ==
  \A j \in Jobs : outcome[j] = "open" => j \in listener \/ outOfMemory

(* A loop's connect that could not start for want of a socket never counts
   as unanswered: of the jobs no connect of the run ever asked, only one whose
   last failure was its address is ever reported filtered. A job confirmed at
   the end has asked already, so what connectOnce makes of a shortage (it
   counts as unanswered, too) is not its case. *)
NoSocketIsNotSilence ==
  \A j \in Jobs : outcome[j] = "filtered" => tried[j] \in {"asked", "address"}

(* However the run ends, a job that was taken and whose connect went out is
   reported, or still waits for the confirmation a failed run skips: giving
   up loses only jobs that never started. *)
AskedIsReported ==
  result # "running" =>
    \A j \in Jobs : tried[j] = "asked" => reports[j] = 1 \/ j \in unconfirmed

(* The run always ends: no shortage, silence or starved loop keeps a loop
   going, and none waits for another. *)
Termination == <>(result # "running")

(* What the comment on `run` says of a connect that cannot start: "it is
   never reported as unanswered, since it never asked the target anything". *)
NeverUnansweredUnasked ==
  \A j \in Jobs : outcome[j] = "filtered" => tried[j] = "asked"

=============================================================================
