-------------------------------- MODULE Window --------------------------------
(***************************************************************************)
(* connects.zig's Window: how many connects a run keeps in flight, steered *)
(* by how fast the target answers. Loops call observe under the run's      *)
(* lock, but each with the time it read before it took the lock: the       *)
(* stamps the window sees may run backwards, by up to Skew.                *)
(* Round trips and stamps share one unit of time.                          *)
(***************************************************************************)
EXTENDS Integers

CONSTANTS
  Min,        \* Window.min: the old thread pool's pace
  Limit,      \* the most connects in flight, init's `max`
  Slack,      \* SLACK_US
  DarkAfter,  \* DARK_NS
  Rtts,       \* the round trips answers may take
  Skew,       \* how late a loop may come with a stamp
  MaxTime, MaxSettled  \* bounds of the model: the clock, and connects settled

ASSUME WindowAssumption ==
  /\ Min \in Nat \ {0} /\ Limit \in Nat /\ Min <= Limit
  /\ Slack \in Nat /\ DarkAfter \in Nat /\ Rtts \subseteq Nat
  /\ Skew \in Nat /\ MaxTime \in Nat /\ MaxSettled \in Nat

VARIABLES
  pace,        \* what init was called with; it never changes
  size,
  fastest,     \* fastest_us, NoAnswer while null
  hold,        \* hold_until_ns
  settled, answered,
  lastAnswer,  \* last_answer_ns
  dark,
  clock,       \* the machine's clock
  \* History.
  heard,       \* the clock, not the stamp, when the last answer was observed
  lead,        \* answers observed less silences
  quiet,       \* a host with the lead has been silent for sure: DarkAfter
               \* since its last answer, however late the stamps
  beforeCut,   \* the size the last cut halved
  holding      \* every stamp since that cut was still before `hold`

vars == <<pace, size, fastest, hold, settled, answered, lastAnswer, dark, clock,
          heard, lead, quiet, beforeCut, holding>>

NoAnswer == -1

Paces == {"adaptive", "fixed", "pool"}
Adaptive == pace = "adaptive"
Max == IF pace = "pool" THEN Min ELSE Limit

Largest(a, b) == IF a > b THEN a ELSE b
Least(a, b) == IF a < b THEN a ELSE b

Init ==
  /\ pace \in Paces
  /\ size = IF pace = "fixed" THEN Limit ELSE Min
  /\ fastest = NoAnswer /\ hold = 0
  /\ settled = 0 /\ answered = 0 /\ lastAnswer = 0 /\ dark = FALSE
  /\ clock = Skew + 1    \* no stamp is 0
  /\ heard = 0 /\ lead = 0 /\ quiet = FALSE
  /\ beforeCut = 0 /\ holding = FALSE

-----------------------------------------------------------------------------
(* observe, by the way it goes. *)

Fastest(rtt) == IF fastest = NoAnswer THEN rtt ELSE Least(fastest, rtt)

\* An answer so much slower than the fastest that it must have queued.
Queued(rtt) == rtt > 2 * Fastest(rtt) + Slack

\* Mutation: every queued answer cuts.
HalveEveryTime(rtt, now) == size' = Largest(Min, size \div 2) /\ hold' = now + rtt

\* A queued answer halves the window, once per round trip.
Halve(rtt, now) ==
  IF now >= hold
    THEN size' = Largest(Min, size \div 2) /\ hold' = now + rtt
    ELSE UNCHANGED <<size, hold>>

\* Past the last cut's round trip, a settled connect grows the window.
Grow(now) ==
  /\ size' = IF now < hold THEN size ELSE Least(Max, size + 1)
  /\ UNCHANGED hold

ObserveAnswer(rtt, now) ==
  /\ settled' = settled + 1 /\ answered' = answered + 1
  /\ lastAnswer' = now /\ dark' = FALSE
  /\ fastest' = Fastest(rtt)
  /\ IF Queued(rtt) THEN Halve(rtt, now) ELSE Grow(now)
  /\ heard' = clock /\ lead' = lead + 1 /\ quiet' = FALSE
  /\ beforeCut' = IF Queued(rtt) /\ now >= hold THEN size ELSE beforeCut
  /\ holding' = IF now >= hold THEN Queued(rtt) ELSE holding

\* Mutation: any silence of a host that answers most probes.
GoesDarkAtOnce(now) ==
  /\ ~dark
  /\ answered # 0 /\ 2 * answered >= settled + 1

\* goneDark: a host that answered most probes has stopped answering. The
\* connect that settles just now is already counted.
GoesDark(now) ==
  /\ ~dark
  /\ answered # 0 /\ 2 * answered >= settled + 1
  /\ now - lastAnswer >= DarkAfter

ObserveSilence(now) ==
  /\ settled' = settled + 1
  /\ CASE GoesDark(now) -> size' = Min /\ UNCHANGED hold
       [] ~GoesDark(now) /\ dark -> UNCHANGED <<size, hold>>
       [] ~GoesDark(now) /\ ~dark -> Grow(now)
  /\ dark' = (dark \/ GoesDark(now))
  /\ lead' = lead - 1
  /\ quiet' = (quiet \/ (heard # 0 /\ lead' >= 0 /\ clock - heard >= DarkAfter + Skew))
  /\ holding' = (holding /\ ~GoesDark(now) /\ (dark \/ now < hold))
  /\ UNCHANGED <<fastest, answered, lastAnswer, heard, beforeCut>>

\* One connect settled; a window that is not adaptive ignores it.
Observe(outcome, rtt, now) ==
  /\ IF ~Adaptive
       THEN UNCHANGED <<size, fastest, hold, settled, answered, lastAnswer, dark,
                        heard, lead, quiet, beforeCut, holding>>
       ELSE IF outcome = "filtered" THEN ObserveSilence(now)
                                    ELSE ObserveAnswer(rtt, now)
  /\ UNCHANGED <<pace, clock>>

Tick ==
  /\ clock < MaxTime
  /\ clock' = clock + 1
  /\ UNCHANGED <<pace, size, fastest, hold, settled, answered, lastAnswer, dark,
                 heard, lead, quiet, beforeCut, holding>>

Stamps == {t \in 0..clock : clock <= t + Skew}

Next ==
  \/ Tick
  \/ /\ settled < MaxSettled
     /\ \E outcome \in {"open", "refused", "filtered"}, rtt \in Rtts, now \in Stamps :
          Observe(outcome, rtt, now)

Spec == Init /\ [][Next]_vars

-----------------------------------------------------------------------------

TypeOK ==
  /\ pace \in Paces /\ size \in Nat /\ fastest \in Nat \cup {NoAnswer}
  /\ hold \in Nat /\ settled \in Nat /\ answered \in Nat /\ lastAnswer \in Nat
  /\ dark \in BOOLEAN /\ clock \in Nat
  /\ heard \in Nat /\ lead \in Int /\ quiet \in BOOLEAN /\ beforeCut \in Nat /\ holding \in BOOLEAN

(* The window never drops below the old thread pool's pace nor grows past
   the in-flight limit; a fixed or a pool window never moves. *)
SizeInBounds ==
  /\ Min <= size /\ size <= Max
  /\ ~Adaptive => size = IF pace = "fixed" THEN Limit ELSE Min

(* A host that has gone dark is asked at the old pool's pace, however many
   of its probes settle, until it answers again. *)
DarkMeansMin == dark => size = Min

(* The window follows the host's real silences, through any sequence of
   dark, answering and dark again. A host that answers most probes and has
   answered none for DARK_NS is asked at the old pool's pace until it
   answers again, whatever else settles meanwhile; and it is called dark
   only after such a silence since its latest answer, never for an older
   one. Loops reporting out of order blur either by no more than Skew. *)
DarkFollowsSilence ==
  /\ quiet => size = Min
  /\ dark => heard # 0 /\ clock - heard >= DarkAfter - Skew

(* Slow answers of one round trip are one slowdown: as long as every stamp
   since a cut lies within the slow answer's round trip, the window is
   exactly half of what it was, with no second cut and no growth. *)
OneCutPerRoundTrip ==
  holding => size = Largest(Min, beforeCut \div 2)

=============================================================================
