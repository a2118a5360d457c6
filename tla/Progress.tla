------------------------------- MODULE Progress -------------------------------
(***************************************************************************)
(* progress.zig's Tracker and scanner.zig's Run.advance: workers count the *)
(* units of a phase without a lock, and whoever moves the whole percentage *)
(* prints a `progress` event under the stdout lock. Between the count and  *)
(* the lock any number of other workers may count, lock and print.         *)
(***************************************************************************)
EXTENDS Integers

CONSTANT Steps    \* 100: the whole percentages a phase has

ASSUME ProgressAssumption == Steps \in Nat \ {0}

VARIABLES
  phase,        \* which phase runs, counted from 1; 0 before the first
  total, done, lastClaimed,   \* of Tracker
  shown         \* the last progress event printed: phase, count, how many in the phase

progressVars == <<phase, total, done, lastClaimed, shown>>

ProgressInit == phase = 0 /\ total = 0 /\ done = 0 /\ lastClaimed = 0 /\ shown = <<0, 0, 0>>

\* Tracker.startPhase.
StartPhase(n) ==
  /\ phase' = phase + 1 /\ total' = n
  /\ done' = 0 /\ lastClaimed' = 0
  /\ UNCHANGED shown

\* Mutation: the last unit is due no event.
CrossesPercentBelow(n) ==
  /\ total # 0 /\ n # 0 /\ n < total
  /\ (n * Steps) \div total # ((n - 1) * Steps) \div total

CrossesPercent(n) ==
  /\ total # 0 /\ n # 0 /\ n <= total
  /\ (n * Steps) \div total # ((n - 1) * Steps) \div total

\* Tracker.advance; an event is due when CrossesPercent(done').
CountUnit == done' = done + 1 /\ UNCHANGED <<phase, total, lastClaimed, shown>>

Newest == IF done < total THEN done ELSE total

\* The event; the third part counts the phase's events.
Event(n) == <<phase, n, IF shown[1] = phase THEN shown[3] + 1 ELSE 1>>

\* Mutation: printed without a claim.
ShowProgressUnclaimed ==
  /\ lastClaimed' = Newest /\ shown' = Event(Newest)
  /\ UNCHANGED <<phase, total, done>>

\* Under the stdout lock: Tracker.claim, and the event unless a newer one is
\* already out.
ShowProgress ==
  /\ IF Newest <= lastClaimed
       THEN UNCHANGED <<lastClaimed, shown>>
       ELSE lastClaimed' = Newest /\ shown' = Event(Newest)
  /\ UNCHANGED <<phase, total, done>>
=============================================================================
