--------------------------- MODULE Connects_proofs ---------------------------
(***************************************************************************)
(* Proofs about the connect engine, for any number of loops, jobs and      *)
(* connects in flight: its types, that a job is never lost or reported     *)
(* twice, that it implements the contract of ConnectRun, and that a        *)
(* shortage of sockets is never reported as an unanswered port.            *)
(***************************************************************************)
EXTENDS Connects, SequenceTheorems, TLAPS

(* Where a loop is says what it has in hand and how full Held is. *)
Control ==
  /\ \A l \in Loops : pc[l] = "start" <=> hand[l] # NoJob
  /\ \A l \in Loops : pc[l] = "start" => batch[l] < StartBatch /\ Len(held[l]) <= 1
  /\ \A l \in Loops : pc[l] \in {"dropDry", "dropStarted"} => suspect[l]

TInv == TypeOK /\ Control

(* The places a loop keeps a job it has taken and not yet reported. *)
InHeld(l, j) ==
  \/ Len(held[l]) >= 1 /\ held[l][1] = j
  \/ Len(held[l]) = 2 /\ held[l][2] = j
Owns(l, j) == hand[l] = j \/ InHeld(l, j) \/ j \in flight[l] \/ j \in settled[l]

(* A job in a loop's hands is nowhere else, and not reported. *)
Exclusive ==
  /\ \A l \in Loops, j \in Jobs :
       Owns(l, j) => j \notin todo /\ j \notin unconfirmed /\ reports[j] = 0
  /\ \A l \in Loops, m \in Loops, j \in Jobs : Owns(l, j) /\ Owns(m, j) => l = m
  /\ \A l \in Loops, j \in Jobs :
       /\ hand[l] = j => ~InHeld(l, j) /\ j \notin flight[l] /\ j \notin settled[l]
       /\ InHeld(l, j) => j \notin flight[l] /\ j \notin settled[l]
       /\ j \in flight[l] => j \notin settled[l]
  /\ \A l \in Loops : Len(held[l]) = 2 => held[l][1] # held[l][2]
  /\ \A j \in Jobs : j \in todo => j \notin unconfirmed /\ reports[j] = 0
  /\ \A j \in Jobs : j \in unconfirmed => reports[j] = 0
  /\ \A j \in Jobs : reports[j] \in {0, 1}

(* No job is forgotten, short of a starved run. *)
Covered ==
  starved \/ \A j \in Jobs : \/ j \in todo \/ j \in unconfirmed \/ reports[j] = 1
                             \/ \E l \in Loops : Owns(l, j)

(* A loop reports everything it settled before it waits, sleeps or goes
   round, and ends with nothing left; the run outlives its loops. *)
Emptied ==
  /\ \A l \in Loops : pc[l] \in {"top", "sleep", "wait", "end", "failed"} => settled[l] = {}
  /\ \A l \in Loops : Ended(l) => flight[l] = {} /\ held[l] = <<>>
  /\ result # "running" => \A l \in Loops : Ended(l)

(* A job in flight has its socket. *)
Socketed == \A l \in Loops : \A j \in flight[l] : sock[j] # "none"

(* The inductive invariant. *)
IInv == TInv /\ Socketed /\ Exclusive /\ Covered /\ Emptied

-----------------------------------------------------------------------------
(* Types. *)

(* TypeOK in two halves: Held's variables, and the rest. *)
HeldType ==
  /\ held \in [Loops -> Seq(Jobs)] /\ \A l \in Loops : Len(held[l]) <= 2
  /\ suspect \in [Loops -> BOOLEAN] /\ short \in [Loops -> BOOLEAN]
  /\ \A l \in Loops : suspect[l] => Len(held[l]) = 1
  /\ pauseOver \in [Loops -> BOOLEAN] /\ stalled \in [Loops -> BOOLEAN]

RestType ==
  /\ todo \subseteq Jobs /\ stopped \in BOOLEAN
  /\ size \in MinWindow..Limit /\ unconfirmed \subseteq Jobs /\ starved \in BOOLEAN
  /\ pc \in [Loops -> {"top", "fill", "start", "dropDry", "dropStarted", "report", "sleep",
                        "wait", "collected", "end", "failed"}]
  /\ dry \in [Loops -> BOOLEAN] /\ batch \in [Loops -> 0..StartBatch]
  /\ hand \in [Loops -> Jobs \cup {NoJob}]
  /\ flight \in [Loops -> SUBSET Jobs] /\ settled \in [Loops -> SUBSET Jobs]
  /\ verdict \in [Jobs -> Verdict \cup {"none"}]
  /\ expired \subseteq Jobs /\ listener \subseteq Jobs
  /\ sock \in [Jobs -> {"none", "pending", "listener", "reset", "unreachable", "crossed", "self"}]
  /\ result \in {"running", "ok", "OutOfSockets", "OutOfMemory"}
  /\ outcome \in [Jobs -> Outcome \cup {"none"}] /\ reports \in [Jobs -> Nat]
  /\ tried \in [Jobs -> Shortage \cup {"never", "asked"}] /\ outOfMemory \in BOOLEAN

(* TypeOK is its two halves, in this state and in the next. *)
LEMMA TypeParts == TypeOK <=> HeldType /\ RestType
  BY DEF TypeOK, HeldType, RestType

(* The same of the next state. *)
LEMMA TypePartsNext == HeldType' /\ RestType' => TypeOK'
  BY DEF TypeOK, HeldType, RestType

(* Shared.done leaves what it writes in its type. *)
LEMMA DoneTypes ==
  ASSUME TInv, NEW S \in SUBSET Jobs, NEW v, Done(S, v),
         \A j \in S : v[j] \in Verdict \cup {"none"}
  PROVE  /\ unconfirmed' \subseteq Jobs /\ size' \in MinWindow..Limit
         /\ outcome' \in [Jobs -> Outcome \cup {"none"}] /\ reports' \in [Jobs -> Nat]
         /\ outOfMemory' \in BOOLEAN
  <1>1. PICK lost \in SUBSET {j \in S : v[j] = "unconfirmed"} :
          LET held_back == {j \in S : v[j] = "unconfirmed"}
              told == (S \ held_back) \cup lost
          IN /\ unconfirmed' = unconfirmed \cup (held_back \ lost)
             /\ outcome' = [j \in Jobs |-> IF j \in told THEN Alone(v[j]) ELSE outcome[j]]
             /\ reports' = [j \in Jobs |-> IF j \in told THEN reports[j] + 1 ELSE reports[j]]
             /\ outOfMemory' = (outOfMemory \/ lost # {})
             /\ IF told = {} THEN UNCHANGED size ELSE size' \in MinWindow..Limit
    BY DEF Done
  <1>2. unconfirmed' \subseteq Jobs /\ size' \in MinWindow..Limit
    BY <1>1 DEF TInv, TypeOK
  <1>3. \A j \in S : Alone(v[j]) \in Outcome \cup {"none"}
    BY DEF Alone, Verdict, Outcome
  <1>4. outcome' \in [Jobs -> Outcome \cup {"none"}]
    BY <1>1, <1>3 DEF TInv, TypeOK
  <1>5. reports' \in [Jobs -> Nat]
    BY <1>1 DEF TInv, TypeOK
  <1>6. outOfMemory' \in BOOLEAN
    BY <1>1
  <1> QED
    BY <1>2, <1>4, <1>5, <1>6

(* held = .{} empties one loop's Held and leaves the others alone. *)
LEMMA ClearHeldTypes ==
  ASSUME TInv, NEW l \in Loops, ClearHeld(l)
  PROVE  /\ HeldType' /\ ~suspect'[l] /\ held'[l] = <<>>
         /\ \A m \in Loops : m # l => held'[m] = held[m] /\ suspect'[m] = suspect[m]
  <1>1. /\ held' \in [Loops -> Seq(Jobs)] /\ held'[l] = <<>>
        /\ \A m \in Loops : m # l => held'[m] = held[m]
    BY DEF ClearHeld, TInv, TypeOK
  <1>2. /\ suspect' \in [Loops -> BOOLEAN] /\ ~suspect'[l]
        /\ \A m \in Loops : m # l => suspect'[m] = suspect[m]
    BY DEF ClearHeld, TInv, TypeOK
  <1>3. /\ short' \in [Loops -> BOOLEAN] /\ pauseOver' \in [Loops -> BOOLEAN]
        /\ stalled' \in [Loops -> BOOLEAN]
    BY DEF ClearHeld, TInv, TypeOK
  <1>4. ASSUME NEW m \in Loops
        PROVE  Len(held'[m]) <= 2 /\ (suspect'[m] => Len(held'[m]) = 1)
    <2>1. CASE m = l
      <3>1. Len(held'[m]) = 0
        BY <1>1, <2>1
      <3> QED
        BY <1>2, <2>1, <3>1
    <2>2. CASE m # l
      BY <1>1, <1>2, <2>2 DEF TInv, TypeOK
    <2> QED
      BY <2>1, <2>2
  <1> QED
    BY <1>1, <1>2, <1>3, <1>4 DEF HeldType

(* The top of the loop preserves the types. *)
LEMMA TopTypes == ASSUME TInv, NEW l \in Loops, Top(l) PROVE TInv'
  <1>1. /\ pc[l] = "top" /\ pc' = [pc EXCEPT ![l] = "fill"]
        /\ batch' = [batch EXCEPT ![l] = 0]
    BY DEF Top, Goto
  <1>4. UNCHANGED <<sourceVars, starved, hand, flight, settled, verdict, kernelVars,
                    callerVars, result, tried>>
    BY DEF Top
  <1>2. CASE starved
    <2>1. ClearHeld(l) /\ dry' = [dry EXCEPT ![l] = TRUE]
      BY <1>2 DEF Top
    <2>2. dry' \in [Loops -> BOOLEAN]
      BY <2>1 DEF TInv, TypeOK
    <2>3. RestType'
      <3>1. batch' \in [Loops -> 0..StartBatch]
        BY <1>1, SizesAssumption DEF TInv, TypeOK
      <3>2. pc' \in [Loops -> {"top", "fill", "start", "dropDry", "dropStarted", "report",
                               "sleep", "wait", "collected", "end", "failed"}]
        BY <1>1 DEF TInv, TypeOK
      <3> QED
        BY <1>4, <2>2, <3>1, <3>2 DEF TInv, TypeOK, RestType, sourceVars, heldVars,
           kernelVars, callerVars
    <2>4. TypeOK'
      BY <2>1, <2>3, ClearHeldTypes, TypePartsNext
    <2>5. Control'
      BY <1>1, <2>1, ClearHeldTypes DEF Top, TInv, TypeOK, Control, sourceVars, heldVars,
         kernelVars, callerVars
    <2> QED
      BY <2>4, <2>5 DEF TInv
  <1>3. CASE ~starved
    BY <1>1, <1>3, SizesAssumption DEF Top, TInv, TypeOK, Control, sourceVars, heldVars,
       kernelVars, callerVars
  <1> QED
    BY <1>2, <1>3 DEF TInv, TypeOK

(* A loop takes a job only with room for it in Held: Held is empty, or holds
   one suspect. *)
LEMMA TakeJobTypes == ASSUME TInv, NEW l \in Loops, TakeJob(l) PROVE TInv'
  <1>1. PICK j \in Jobs : todo' = todo \ {j} /\ hand' = [hand EXCEPT ![l] = j]
    BY DEF TakeJob, TInv, TypeOK
  <1>2. pc[l] = "fill" /\ batch[l] < StartBatch /\ pc' = [pc EXCEPT ![l] = "start"]
    BY DEF TakeJob, MayTake, Filling, Goto
  <1>3. Len(held[l]) <= 1
    <2>1. held[l] = <<>> \/ suspect[l]
      BY DEF TakeJob, MayTake, Open
    <2>2. CASE held[l] = <<>>
      BY <2>2
    <2>3. CASE suspect[l]
      <3>1. Len(held[l]) = 1
        BY <2>3 DEF TInv, TypeOK
      <3> QED
        BY <3>1
    <2> QED
      BY <2>1, <2>2, <2>3
  <1>4. TypeOK'
    BY <1>1, <1>2 DEF TakeJob, TInv, TypeOK, sourceVars, heldVars, kernelVars, callerVars
  <1>5. Control'
    BY <1>1, <1>2, <1>3, JobsAssumption DEF TakeJob, TInv, TypeOK, Control, sourceVars,
       heldVars, kernelVars, callerVars
  <1> QED
    BY <1>4, <1>5 DEF TInv

(* Dropping the suspect empties Held. *)
LEMMA DropSuspectTypes == ASSUME TInv, NEW l \in Loops, DropSuspect(l) PROVE TInv'
  <1>1. /\ pc[l] \in {"dropDry", "dropStarted"} /\ suspect[l]
        /\ held[l] \in Seq(Jobs) /\ Len(held[l]) = 1 /\ Head(held[l]) \in Jobs
    BY DEF DropSuspect, TInv, TypeOK, Control
  <1>2. /\ unconfirmed' \subseteq Jobs /\ size' \in MinWindow..Limit
        /\ outcome' \in [Jobs -> Outcome \cup {"none"}] /\ reports' \in [Jobs -> Nat]
        /\ outOfMemory' \in BOOLEAN
    <2> DEFINE S == {Head(held[l])}
    <2> DEFINE v == [j \in S |-> "filtered"]
    <2>1. Done(S, v)
      BY DEF DropSuspect
    <2>2. S \in SUBSET Jobs /\ \A i \in S : v[i] \in Verdict \cup {"none"}
      BY <1>1 DEF Verdict, Outcome
    <2> HIDE DEF S, v
    <2> QED
      BY <2>1, <2>2, DoneTypes
  <1>3. /\ held' = [held EXCEPT ![l] = Tail(held[l])] /\ Tail(held[l]) \in Seq(Jobs)
        /\ Len(Tail(held[l])) = 0
        /\ suspect' = [suspect EXCEPT ![l] = FALSE]
    BY <1>1 DEF DropSuspect
  <1>4. \E x \in {"report", "fill"} : pc' = [pc EXCEPT ![l] = x]
    BY DEF DropSuspect, Goto
  <1>5. /\ suspect' \in [Loops -> BOOLEAN]
        /\ \A m \in Loops : Len(held'[m]) <= 2 /\ (suspect'[m] => Len(held'[m]) = 1)
    BY <1>3 DEF TInv, TypeOK
  <1>6. TypeOK'
    BY <1>2, <1>3, <1>4, <1>5 DEF DropSuspect, TInv, TypeOK, sourceVars, heldVars,
       kernelVars, callerVars
  <1>7. Control'
    BY <1>1, <1>3, <1>4 DEF DropSuspect, TInv, TypeOK, Control, sourceVars, heldVars,
       kernelVars, callerVars
  <1> QED
    BY <1>6, <1>7 DEF TInv

(* connected() always has a verdict. *)
LEMMA ConnectedTypes ==
  ASSUME NEW j, NEW met PROVE Connected(j, met) \in Verdict
  BY DEF Connected, Verdict, Outcome

(* A connect that settles as it starts preserves the types. *)
LEMMA StartDoneTypes == ASSUME TInv, NEW l \in Loops, StartDone(l) PROVE TInv'
  <1>1. hand[l] \in Jobs /\ pc[l] = "start"
    BY DEF StartDone, Started, TInv, TypeOK, Control
  <1>2. /\ verdict' \in [Jobs -> Verdict \cup {"none"}]
        /\ sock' \in [Jobs -> {"none", "pending", "listener", "reset", "unreachable",
                               "crossed", "self"}]
    <2>1. CASE \E v \in Immediate(hand[l]) :
                  verdict' = [verdict EXCEPT ![hand[l]] = v] /\ UNCHANGED sock
      <3>1. Immediate(hand[l]) \subseteq Verdict
        BY ConnectedTypes DEF Immediate, Verdict, Outcome
      <3> QED
        BY <1>1, <2>1, <3>1 DEF TInv, TypeOK
    <2>2. CASE \E k \in Crossable(hand[l]) :
                  /\ verdict' = [verdict EXCEPT ![hand[l]] = Connected(hand[l], "crossed")]
                  /\ sock' = [sock EXCEPT ![k] = "crossed"]
      <3>1. Connected(hand[l], "crossed") \in Verdict
        BY ConnectedTypes
      <3>2. verdict' \in [Jobs -> Verdict \cup {"none"}]
        BY <2>2, <3>1 DEF TInv, TypeOK
      <3>3. PICK k \in Crossable(hand[l]) : sock' = [sock EXCEPT ![k] = "crossed"]
        BY <2>2
      <3> QED
        BY <3>2, <3>3 DEF TInv, TypeOK
    <2> QED
      BY <2>1, <2>2 DEF StartDone
  <1>3. settled' \in [Loops -> SUBSET Jobs] /\ UNCHANGED <<flight, expired>>
    BY <1>1 DEF StartDone, TInv, TypeOK
  <1>4. /\ short' \in [Loops -> BOOLEAN] /\ pauseOver' \in [Loops -> BOOLEAN]
        /\ stalled' \in [Loops -> BOOLEAN]
    BY DEF StartDone, Started, TInv, TypeOK
  <1>5. HeldType'
    BY <1>4 DEF StartDone, Started, TInv, TypeOK, HeldType
  <1>6. /\ pc' = [pc EXCEPT ![l] = IF suspect[l] THEN "dropStarted" ELSE "fill"]
        /\ hand' = [hand EXCEPT ![l] = NoJob] /\ batch' = [batch EXCEPT ![l] = @ + 1]
        /\ tried' = [tried EXCEPT ![hand[l]] = "asked"]
        /\ UNCHANGED <<sourceVars, starved, dry, held, suspect, callerVars, result, listener>>
    BY DEF StartDone, Started, Goto
  <1>7. RestType'
    BY <1>1, <1>2, <1>3, <1>6, SizesAssumption DEF TInv, TypeOK, Control, RestType,
       sourceVars, heldVars, kernelVars, callerVars
  <1>8. Control'
    BY <1>1, <1>6, JobsAssumption DEF TInv, TypeOK, Control, sourceVars, heldVars,
       kernelVars, callerVars
  <1> QED
    BY <1>5, <1>7, <1>8, TypePartsNext DEF TInv

(* Held.hold has a free slot: nothing is started with both slots taken. *)
LEMMA HoldTypes ==
  ASSUME TInv, NEW l \in Loops, NEW shortage, Hold(l, shortage),
         hand[l] \in Jobs, Len(held[l]) <= 1
  PROVE  HeldType' /\ \A m \in Loops : m # l => held'[m] = held[m] /\ suspect'[m] = suspect[m]
  <1>1. held' = [held EXCEPT ![l] = Append(held[l], hand[l])]
    BY DEF Hold
  <1>2. /\ held' \in [Loops -> Seq(Jobs)] /\ held'[l] = Append(held[l], hand[l])
        /\ Len(held'[l]) = Len(held[l]) + 1 /\ Len(held[l]) \in Nat
        /\ \A m \in Loops : m # l => held'[m] = held[m]
    BY <1>1 DEF TInv, TypeOK
  <1>3. /\ suspect' \in [Loops -> BOOLEAN] /\ (suspect'[l] => held[l] = <<>>)
        /\ \A m \in Loops : m # l => suspect'[m] = suspect[m]
    <2>1. CASE OnlySuspect(l, shortage)
      <3>1. suspect' = [suspect EXCEPT ![l] = TRUE] /\ held[l] = <<>>
        BY <2>1 DEF Hold, OnlySuspect
      <3> QED
        BY <3>1 DEF TInv, TypeOK
    <2>2. CASE ~OnlySuspect(l, shortage)
      <3>1. suspect' = [suspect EXCEPT ![l] = FALSE]
        BY <2>2 DEF Hold
      <3> QED
        BY <3>1 DEF TInv, TypeOK
    <2> QED
      BY <2>1, <2>2
  <1>4. /\ short' \in [Loops -> BOOLEAN] /\ pauseOver' \in [Loops -> BOOLEAN]
        /\ stalled' \in [Loops -> BOOLEAN]
    <2>1. CASE OnlySuspect(l, shortage)
      BY <2>1 DEF Hold, TInv, TypeOK
    <2>2. CASE ~OnlySuspect(l, shortage)
      <3>1. /\ short' = [short EXCEPT ![l] = TRUE]
            /\ pauseOver' = [pauseOver EXCEPT ![l] = FALSE]
            /\ stalled' = [stalled EXCEPT ![l] = stalled[l] /\ short[l]]
        BY <2>2 DEF Hold
      <3> QED
        BY <3>1 DEF TInv, TypeOK
    <2> QED
      BY <2>1, <2>2
  <1>5. \A m \in Loops : Len(held'[m]) <= 2 /\ (suspect'[m] => Len(held'[m]) = 1)
    <2> SUFFICES ASSUME NEW m \in Loops
                 PROVE  Len(held'[m]) <= 2 /\ (suspect'[m] => Len(held'[m]) = 1)
      OBVIOUS
    <2>1. CASE m = l
      <3>1. held[l] = <<>> => Len(held[l]) = 0
        OBVIOUS
      <3> QED
        BY <1>2, <1>3, <2>1, <3>1
    <2>2. CASE m # l
      <3>1. held'[m] = held[m] /\ suspect'[m] = suspect[m]
        BY <1>2, <1>3, <2>2
      <3> QED
        BY <3>1 DEF TInv, TypeOK
    <2> QED
      BY <2>1, <2>2
  <1> QED
    BY <1>2, <1>3, <1>4, <1>5 DEF HeldType

(* A connect that cannot start preserves the types, held or given up on. *)
LEMMA StartUnprobedTypes == ASSUME TInv, NEW l \in Loops, StartUnprobed(l) PROVE TInv'
  <1>1. PICK shortage \in Shortages :
          /\ tried' = [tried EXCEPT ![hand[l]] = shortage]
          /\ IF GivesUp(l, shortage)
               THEN ClearHeld(l) /\ starved' = TRUE /\ dry' = [dry EXCEPT ![l] = TRUE]
               ELSE Hold(l, shortage) /\ UNCHANGED <<starved, dry>>
    BY DEF StartUnprobed
  <1>2. /\ hand[l] \in Jobs /\ pc[l] = "start" /\ pc' = [pc EXCEPT ![l] = "fill"]
        /\ hand' = [hand EXCEPT ![l] = NoJob] /\ batch' = [batch EXCEPT ![l] = @ + 1]
        /\ batch[l] < StartBatch /\ Len(held[l]) <= 1 /\ held[l] \in Seq(Jobs)
    BY DEF StartUnprobed, Goto, TInv, TypeOK, Control
  <1>3. tried' \in [Jobs -> Shortage \cup {"never", "asked"}]
    BY <1>1, ShortagesAssumption DEF TInv, TypeOK
  <1>4. /\ HeldType' /\ dry' \in [Loops -> BOOLEAN] /\ starved' \in BOOLEAN
        /\ \A m \in Loops : m # l => held'[m] = held[m] /\ suspect'[m] = suspect[m]
    <2>1. CASE GivesUp(l, shortage)
      <3>1. ClearHeld(l) /\ starved' = TRUE /\ dry' = [dry EXCEPT ![l] = TRUE]
        BY <1>1, <2>1
      <3>2. dry' \in [Loops -> BOOLEAN] /\ starved' \in BOOLEAN
        BY <3>1 DEF TInv, TypeOK
      <3> QED
        BY <3>1, <3>2, ClearHeldTypes
    <2>2. CASE ~GivesUp(l, shortage)
      <3>1. Hold(l, shortage) /\ starved' = starved /\ dry' = dry
        BY <1>1, <2>2
      <3>2. HeldType' /\ \A m \in Loops : m # l => held'[m] = held[m] /\ suspect'[m] = suspect[m]
        BY <1>2, <3>1, HoldTypes
      <3> QED
        BY <3>1, <3>2 DEF TInv, TypeOK
    <2> QED
      BY <2>1, <2>2
  <1>5. RestType'
    <2>1. UNCHANGED <<sourceVars, flight, settled, verdict, kernelVars, callerVars, result>>
      BY DEF StartUnprobed
    <2> QED
      <3>1. batch' \in [Loops -> 0..StartBatch]
        BY <1>2, SizesAssumption DEF TInv, TypeOK
      <3>2. /\ pc' \in [Loops -> {"top", "fill", "start", "dropDry", "dropStarted", "report",
                                  "sleep", "wait", "collected", "end", "failed"}]
            /\ hand' \in [Loops -> Jobs \cup {NoJob}]
        BY <1>2 DEF TInv, TypeOK
      <3> QED
        BY <1>3, <1>4, <2>1, <3>1, <3>2 DEF TInv, TypeOK, RestType, sourceVars,
           heldVars, kernelVars, callerVars
  <1>6. Control'
    BY <1>2, <1>4, JobsAssumption DEF StartUnprobed, TInv, TypeOK, Control, sourceVars,
       heldVars, kernelVars, callerVars
  <1> QED
    BY <1>4, <1>5, <1>6, TypePartsNext DEF TInv

(* A batch of verdicts preserves the types. *)
LEMMA ReportTypes == ASSUME TInv, NEW l \in Loops, Report(l) PROVE TInv'
  <1>1. /\ unconfirmed' \subseteq Jobs /\ size' \in MinWindow..Limit
        /\ outcome' \in [Jobs -> Outcome \cup {"none"}] /\ reports' \in [Jobs -> Nat]
        /\ outOfMemory' \in BOOLEAN
    <2>1. Done(settled[l], verdict) /\ settled[l] \in SUBSET Jobs
      BY DEF Report, TInv, TypeOK
    <2>2. \A j \in settled[l] : verdict[j] \in Verdict \cup {"none"}
      BY DEF TInv, TypeOK
    <2> QED
      BY <2>1, <2>2, DoneTypes
  <1>2. verdict' \in [Jobs -> Verdict \cup {"none"}]
    BY DEF Report, TInv, TypeOK
  <1>3. /\ pc[l] \in {"report", "collected"}
        /\ \E x \in {"wait", "sleep", "end", "top"} : pc' = [pc EXCEPT ![l] = x]
    BY DEF Report, Goto, AfterReport
  <1>4. TypeOK'
    BY <1>1, <1>2, <1>3 DEF Report, TInv, TypeOK, sourceVars, heldVars, kernelVars,
       callerVars
  <1>5. Control'
    BY <1>3 DEF Report, TInv, TypeOK, Control, sourceVars, heldVars, kernelVars, callerVars
  <1> QED
    BY <1>4, <1>5 DEF TInv

(* A connect in flight has a socket for finish() to read, so it gets a verdict. *)
LEMMA CollectTypes == ASSUME TInv, Socketed, NEW l \in Loops, Collect(l) PROVE TInv'
  <1>1. PICK seen \in SUBSET Pollable(l) :
          LET gone == seen \cup (flight[l] \cap expired)
          IN /\ settled' = [settled EXCEPT ![l] = gone]
             /\ verdict' = [j \in Jobs |-> IF j \in gone THEN Finish(j, j \in seen) ELSE verdict[j]]
             /\ flight' = [flight EXCEPT ![l] = @ \ gone]
             /\ sock' = [j \in Jobs |-> IF j \in gone THEN "none" ELSE sock[j]]
             /\ expired' = expired \ gone
    BY DEF Collect
  <1> DEFINE gone == seen \cup (flight[l] \cap expired)
  <1>2. pc[l] = "wait" /\ pc' = [pc EXCEPT ![l] = "collected"] /\ gone \subseteq Jobs
    BY DEF Collect, Pollable, Goto, TInv, TypeOK
  <1>3. verdict' \in [Jobs -> Verdict \cup {"none"}]
    <2>1. SUFFICES \A j \in gone : Finish(j, j \in seen) \in Verdict \cup {"none"}
      BY <1>1 DEF TInv, TypeOK
    <2>2. TAKE j \in gone
    <2>3. sock[j] \in {"pending", "listener", "reset", "unreachable", "crossed", "self"}
      BY <1>2 DEF Pollable, TInv, TypeOK, Socketed
    <2> QED
      BY <2>3, ConnectedTypes DEF Finish, Verdict, Outcome
  <1>4. /\ settled' \in [Loops -> SUBSET Jobs] /\ flight' \in [Loops -> SUBSET Jobs]
        /\ expired' \subseteq Jobs
        /\ sock' \in [Jobs -> {"none", "pending", "listener", "reset", "unreachable",
                               "crossed", "self"}]
    BY <1>1, <1>2 DEF TInv, TypeOK
  <1>5. TypeOK'
    BY <1>2, <1>3, <1>4 DEF Collect, TInv, TypeOK, sourceVars, heldVars, kernelVars,
       callerVars
  <1>6. Control'
    BY <1>2 DEF Collect, TInv, TypeOK, Control, sourceVars, heldVars, kernelVars, callerVars
  <1> QED
    BY <1>5, <1>6 DEF TInv

-----------------------------------------------------------------------------
(* Jobs: none lost, none in two places. *)

(* What is left of a Held of one or two jobs without its first. *)
LEMMA TailFacts ==
  ASSUME NEW s \in Seq(Jobs), s # <<>>, Len(s) <= 2
  PROVE  /\ Head(s) = s[1] /\ s[1] \in Jobs /\ Len(s) \in {1, 2}
         /\ Tail(s) \in Seq(Jobs) /\ Len(Tail(s)) = Len(s) - 1
         /\ Len(s) = 2 => Tail(s)[1] = s[2] /\ s[2] \in Jobs
  <1>1. Len(s) \in Nat /\ Len(s) # 0
    BY EmptySeq
  <1>2. Len(s) \in {1, 2}
    <2>1. \A n \in Nat : n # 0 /\ n <= 2 => n \in {1, 2}
      OBVIOUS
    <2> QED
      BY <1>1, <2>1, Zenon
  <1>3. Head(s) = s[1] /\ s[1] \in Jobs /\ (Len(s) = 2 => s[2] \in Jobs)
    BY <1>2
  <1>4. Tail(s) \in Seq(Jobs) /\ Len(Tail(s)) = Len(s) - 1
    BY HeadTailProperties
  <1>5. Len(s) = 2 => Tail(s)[1] = s[2]
    BY <1>1, HeadTailProperties
  <1> QED
    BY <1>2, <1>3, <1>4, <1>5

(* A Held of at most one job, with another at its end. *)
LEMMA AppendFacts ==
  ASSUME NEW s \in Seq(Jobs), NEW x \in Jobs, Len(s) <= 1
  PROVE  /\ Len(s) \in {0, 1} /\ Len(Append(s, x)) = Len(s) + 1
         /\ Len(s) = 0 => Append(s, x)[1] = x
         /\ Len(s) = 1 => Append(s, x)[1] = s[1] /\ Append(s, x)[2] = x
  <1>1. Len(s) \in Nat /\ Len(s) \in {0, 1}
    OBVIOUS
  <1>2. /\ Len(Append(s, x)) = Len(s) + 1
        /\ \A i \in 1..Len(s) : Append(s, x)[i] = s[i]
        /\ Append(s, x)[Len(s) + 1] = x
    BY AppendProperties
  <1>3. Len(s) = 0 => Append(s, x)[1] = x
    BY <1>2
  <1>4. Len(s) = 1 => Append(s, x)[1] = s[1] /\ Append(s, x)[2] = x
    BY <1>2
  <1> QED
    BY <1>1, <1>2, <1>3, <1>4

(* held.pop() moves one job from Held to the loop's hand. *)
LEMMA PopJobs == ASSUME IInv, NEW l \in Loops, Pop(l) PROVE Exclusive' /\ Covered'
  <1>1. /\ held[l] \in Seq(Jobs) /\ held[l] # <<>> /\ Len(held[l]) <= 2
        /\ hand[l] = NoJob
    BY DEF Pop, Filling, Due, IInv, TInv, TypeOK, Control
  <1>2. /\ hand' = [hand EXCEPT ![l] = held[l][1]]
        /\ held' = [held EXCEPT ![l] = Tail(held[l])]
        /\ UNCHANGED <<todo, unconfirmed, reports, flight, settled, starved>>
    BY <1>1, TailFacts DEF Pop, sourceVars, heldVars, kernelVars, callerVars
  <1>3. ASSUME NEW m \in Loops, m # l, NEW j \in Jobs
        PROVE  (InHeld(m, j)' <=> InHeld(m, j)) /\ (Owns(m, j)' <=> Owns(m, j))
    BY <1>2, <1>3 DEF InHeld, Owns, IInv, TInv, TypeOK
  <1>4. ASSUME NEW j \in Jobs
        PROVE  /\ InHeld(l, j) <=> InHeld(l, j)' \/ j = held[l][1]
               /\ InHeld(l, j)' => j # held[l][1]
    <2>1. held'[l] = Tail(held[l])
      BY <1>2 DEF IInv, TInv, TypeOK
    <2> QED
      BY <1>1, <2>1, TailFacts DEF InHeld, IInv, Exclusive
  <1>5. ASSUME NEW j \in Jobs PROVE Owns(l, j)' <=> Owns(l, j)
    BY <1>1, <1>2, <1>4, JobsAssumption DEF Owns, IInv, TInv, TypeOK
  <1>6. \A m \in Loops, j \in Jobs : Owns(m, j)' <=> Owns(m, j)
    BY <1>3, <1>5
  <1>7. Covered'
    BY <1>2, <1>6 DEF Covered, IInv
  <1>8. Len(held'[l]) < 2
    BY <1>1, <1>2, TailFacts DEF IInv, TInv, TypeOK
  <1>9. \A m \in Loops : Len(held'[m]) = 2 => held'[m][1] # held'[m][2]
    <2>1. \A m \in Loops : m # l => held'[m] = held[m]
      BY <1>2 DEF IInv, TInv, TypeOK
    <2> QED
      BY <1>8, <2>1 DEF IInv, Exclusive
  <1>10. \A m \in Loops, j \in Jobs :
           /\ hand'[m] = j => ~InHeld(m, j)' /\ j \notin flight'[m] /\ j \notin settled'[m]
           /\ InHeld(m, j)' => j \notin flight'[m] /\ j \notin settled'[m]
           /\ j \in flight'[m] => j \notin settled'[m]
    BY <1>2, <1>3, <1>4 DEF IInv, TInv, TypeOK, Exclusive
  <1> QED
    BY <1>2, <1>6, <1>7, <1>9, <1>10 DEF IInv, Exclusive

(* Clearing one loop's Held takes jobs from nobody else. *)
LEMMA ClearHeldJobs ==
  ASSUME IInv, NEW l \in Loops, ClearHeld(l), UNCHANGED <<flight, settled>>,
         NEW m \in Loops, NEW j \in Jobs
  PROVE  /\ InHeld(m, j)' <=> m # l /\ InHeld(m, j)
         /\ hand'[m] = hand[m] => (Owns(m, j)' => Owns(m, j))
         /\ Len(held'[m]) = 2 => m # l /\ Len(held[m]) = 2 /\ held'[m] = held[m]
  <1>1. held'[l] = <<>> /\ (m # l => held'[m] = held[m])
    BY DEF ClearHeld, IInv, TInv, TypeOK
  <1>2. Len(<<>>) = 0
    OBVIOUS
  <1>3. InHeld(m, j)' <=> m # l /\ InHeld(m, j)
    BY <1>1, <1>2 DEF InHeld
  <1>4. Len(held'[m]) = 2 => m # l /\ Len(held[m]) = 2 /\ held'[m] = held[m]
    <2>1. CASE m = l
      <3>1. Len(held'[m]) = 0
        BY <1>1, <1>2, <2>1
      <3>2. Len(held'[m]) # 2
        BY <3>1
      <3> QED
        BY <3>2
    <2>2. CASE m # l
      BY <1>1, <2>2
    <2> QED
      BY <2>1, <2>2
  <1> QED
    BY <1>3, <1>4 DEF Owns

(* The top of the loop moves no job to another place. *)
LEMMA TopJobs == ASSUME IInv, NEW l \in Loops, Top(l) PROVE Exclusive'
  <1>1. UNCHANGED <<hand, flight, settled, todo, unconfirmed, reports>>
    BY DEF Top, sourceVars, heldVars, kernelVars, callerVars
  <1>2. CASE starved
    <2>1. ClearHeld(l)
      BY <1>2 DEF Top
    <2>2. \A m \in Loops, j \in Jobs :
            /\ InHeld(m, j)' => InHeld(m, j)
            /\ Owns(m, j)' => Owns(m, j)
            /\ Len(held'[m]) = 2 => Len(held[m]) = 2 /\ held'[m] = held[m]
      BY <1>1, <2>1, ClearHeldJobs
    <2>3. \A m \in Loops : Len(held'[m]) = 2 => held'[m][1] # held'[m][2]
      <3>1. SUFFICES ASSUME NEW m \in Loops, Len(held'[m]) = 2
                     PROVE  held'[m][1] # held'[m][2]
        OBVIOUS
      <3>2. m # l
        <4>1. held'[l] = <<>>
          BY <2>1 DEF ClearHeld, IInv, TInv, TypeOK
        <4> QED
          BY <3>1, <4>1
      <3>3. held'[m] = held[m]
        BY <2>1, <3>2 DEF ClearHeld, IInv, TInv, TypeOK
      <3> QED
        BY <3>1, <3>3 DEF IInv, Exclusive
    <2> QED
      BY <1>1, <2>2, <2>3 DEF IInv, Exclusive
  <1>3. CASE ~starved
    <2>1. held' = held
      BY <1>3 DEF Top, sourceVars, heldVars, kernelVars, callerVars
    <2> QED
      BY <1>1, <2>1 DEF IInv, Exclusive, Owns, InHeld
  <1> QED
    BY <1>2, <1>3

(* A taken job goes from the source to the loop's hand. *)
LEMMA TakeJobJobs == ASSUME IInv, NEW l \in Loops, TakeJob(l) PROVE Covered'
  <1>1. PICK j \in todo : todo' = todo \ {j} /\ hand' = [hand EXCEPT ![l] = j]
    BY DEF TakeJob
  <1>2. UNCHANGED <<held, flight, settled, unconfirmed, reports, starved>> /\ hand[l] = NoJob
    BY DEF TakeJob, MayTake, Filling, sourceVars, heldVars, kernelVars, callerVars,
       IInv, TInv, Control
  <1>3. Owns(l, j)'
    BY <1>1 DEF Owns, IInv, TInv, TypeOK
  <1>4. \A m \in Loops, k \in Jobs : Owns(m, k) => Owns(m, k)'
    BY <1>1, <1>2, JobsAssumption DEF Owns, InHeld, IInv, TInv, TypeOK
  <1> QED
    BY <1>1, <1>2, <1>3, <1>4 DEF IInv, Covered

(* Every job of a reported batch ends up reported once or held back to be
   confirmed, and no other job is touched. *)
LEMMA DoneJobs ==
  ASSUME IInv, NEW S \in SUBSET Jobs, NEW v, Done(S, v),
         \A j \in S : j \notin todo /\ j \notin unconfirmed /\ reports[j] = 0
  PROVE  /\ \A j \in S : \/ j \in unconfirmed' /\ reports'[j] = 0
                         \/ j \notin unconfirmed' /\ reports'[j] = 1
         /\ \A j \in Jobs \ S : /\ reports'[j] = reports[j]
                                /\ j \in unconfirmed' <=> j \in unconfirmed
  BY DEF Done, IInv, TInv, TypeOK

(* A dropped suspect leaves Held as it is reported. *)
LEMMA DropSuspectJobs == ASSUME IInv, NEW l \in Loops, DropSuspect(l) PROVE Exclusive' /\ Covered'
  <1>1. /\ held[l] \in Seq(Jobs) /\ held[l] # <<>> /\ Len(held[l]) = 1 /\ Len(held[l]) <= 2
    BY DEF DropSuspect, IInv, TInv, TypeOK, Control
  <1> DEFINE x == held[l][1]
  <1>2. /\ x \in Jobs /\ Owns(l, x) /\ InHeld(l, x)
        /\ x \notin todo /\ x \notin unconfirmed /\ reports[x] = 0
    BY <1>1, TailFacts DEF Owns, InHeld, IInv, Exclusive
  <1>3. /\ held' = [held EXCEPT ![l] = Tail(held[l])]
        /\ UNCHANGED <<todo, hand, flight, settled, starved>>
        /\ Done({x}, [j \in {x} |-> "filtered"])
    BY <1>1, TailFacts DEF DropSuspect, sourceVars, heldVars, kernelVars, callerVars
  <1>4. /\ reports'[x] = 1 /\ x \notin unconfirmed'
        /\ \A j \in Jobs : j # x => /\ reports'[j] = reports[j]
                                    /\ j \in unconfirmed' <=> j \in unconfirmed
    BY <1>2, <1>3 DEF Done, IInv, TInv, TypeOK
  <1>5. Len(held'[l]) = 0
    BY <1>1, <1>3, TailFacts DEF IInv, TInv, TypeOK
  <1>6. \A m \in Loops : m # l => held'[m] = held[m]
    BY <1>3 DEF IInv, TInv, TypeOK
  <1>7. ASSUME NEW m \in Loops, NEW j \in Jobs
        PROVE  /\ InHeld(m, j)' <=> InHeld(m, j) /\ j # x
               /\ Owns(m, j)' <=> Owns(m, j) /\ j # x
    <2>1. CASE m = l
      <3>1. InHeld(l, j) <=> j = x
        BY <1>1 DEF InHeld
      <3>2. ~InHeld(l, j)'
        BY <1>5 DEF InHeld
      <3>3. j = x => hand[l] # j /\ j \notin flight[l] /\ j \notin settled[l]
        BY <3>1 DEF IInv, Exclusive
      <3> QED
        BY <1>3, <2>1, <3>1, <3>2, <3>3 DEF Owns
    <2>2. CASE m # l
      <3>1. InHeld(m, j)' <=> InHeld(m, j)
        BY <1>6, <2>2 DEF InHeld
      <3>2. Owns(m, j) => j # x
        BY <1>2, <2>2 DEF IInv, Exclusive
      <3> QED
        BY <1>3, <3>1, <3>2 DEF Owns
    <2> QED
      BY <2>1, <2>2
  <1>8. Covered'
    BY <1>3, <1>4, <1>7 DEF IInv, Covered
  <1>9. \A m \in Loops : Len(held'[m]) = 2 => held'[m][1] # held'[m][2]
    BY <1>5, <1>6 DEF IInv, Exclusive
  <1> QED
    BY <1>2, <1>3, <1>4, <1>7, <1>8, <1>9 DEF IInv, Exclusive

(* A job that cannot start goes to Held, or the run has starved. *)
LEMMA StartUnprobedJobs ==
  ASSUME IInv, NEW l \in Loops, StartUnprobed(l) PROVE Exclusive' /\ Covered'
  <1>1. PICK shortage \in Shortages :
          IF GivesUp(l, shortage)
            THEN ClearHeld(l) /\ starved' = TRUE /\ dry' = [dry EXCEPT ![l] = TRUE]
            ELSE Hold(l, shortage) /\ UNCHANGED <<starved, dry>>
    BY DEF StartUnprobed
  <1> DEFINE x == hand[l]
  <1>2. /\ x \in Jobs /\ Len(held[l]) <= 1 /\ held[l] \in Seq(Jobs)
        /\ hand' = [hand EXCEPT ![l] = NoJob]
        /\ UNCHANGED <<todo, flight, settled, unconfirmed, reports>>
    BY DEF StartUnprobed, IInv, TInv, TypeOK, Control, sourceVars, heldVars, kernelVars,
       callerVars
  <1>3. /\ hand'[l] = NoJob /\ \A m \in Loops : m # l => hand'[m] = hand[m]
        /\ \A j \in Jobs : j # NoJob
    BY <1>2, JobsAssumption DEF IInv, TInv, TypeOK
  <1>4. CASE GivesUp(l, shortage)
    <2>1. ClearHeld(l) /\ starved'
      BY <1>1, <1>4
    <2>2. \A m \in Loops, j \in Jobs :
            /\ InHeld(m, j)' <=> m # l /\ InHeld(m, j)
            /\ Len(held'[m]) = 2 => m # l /\ Len(held[m]) = 2 /\ held'[m] = held[m]
      BY <1>2, <2>1, ClearHeldJobs
    <2>3. \A m \in Loops, j \in Jobs : Owns(m, j)' => Owns(m, j)
      BY <1>2, <1>3, <2>2 DEF Owns
    <2>4. \A m \in Loops : Len(held'[m]) = 2 => held'[m][1] # held'[m][2]
      BY <1>2, <2>2 DEF IInv, Exclusive
    <2>5. Covered'
      BY <2>1 DEF Covered
    <2> QED
      BY <1>2, <1>3, <2>2, <2>3, <2>4, <2>5 DEF IInv, Exclusive
  <1>5. CASE ~GivesUp(l, shortage)
    <2>1. held' = [held EXCEPT ![l] = Append(held[l], x)] /\ starved' = starved
      BY <1>1, <1>5 DEF Hold
    <2>2. held'[l] = Append(held[l], x) /\ \A m \in Loops : m # l => held'[m] = held[m]
      BY <2>1 DEF IInv, TInv, TypeOK
    <2>3. ASSUME NEW j \in Jobs PROVE InHeld(l, j)' <=> InHeld(l, j) \/ j = x
      BY <1>2, <2>2, AppendFacts DEF InHeld
    <2>4. ASSUME NEW m \in Loops, m # l, NEW j \in Jobs PROVE InHeld(m, j)' <=> InHeld(m, j)
      BY <2>2, <2>4 DEF InHeld
    <2>5. \A m \in Loops, j \in Jobs : Owns(m, j)' <=> Owns(m, j)
      BY <1>2, <1>3, <2>3, <2>4 DEF Owns
    <2>6. \A m \in Loops : Len(held'[m]) = 2 => held'[m][1] # held'[m][2]
      <3>1. Len(held'[l]) = 2 => held'[l][1] # held'[l][2]
        BY <1>2, <2>2, AppendFacts DEF IInv, Exclusive, InHeld
      <3> QED
        BY <2>2, <3>1 DEF IInv, Exclusive
    <2>7. Covered'
      BY <1>2, <2>1, <2>5 DEF IInv, Covered
    <2>8. \A m \in Loops, j \in Jobs :
            /\ hand'[m] = j => ~InHeld(m, j)' /\ j \notin flight'[m] /\ j \notin settled'[m]
            /\ InHeld(m, j)' => j \notin flight'[m] /\ j \notin settled'[m]
            /\ j \in flight'[m] => j \notin settled'[m]
      BY <1>2, <1>3, <2>3, <2>4 DEF IInv, Exclusive
    <2> QED
      BY <1>2, <2>5, <2>6, <2>7, <2>8 DEF IInv, Exclusive
  <1> QED
    BY <1>4, <1>5

(* No job of a reported batch is lost. *)
LEMMA ReportJobs == ASSUME IInv, NEW l \in Loops, Report(l) PROVE Covered'
  <1>1. /\ settled' = [settled EXCEPT ![l] = {}] /\ Done(settled[l], verdict)
        /\ UNCHANGED <<todo, hand, held, flight, starved>> /\ settled[l] \in SUBSET Jobs
    BY DEF Report, sourceVars, heldVars, kernelVars, callerVars, IInv, TInv, TypeOK
  <1>2. \A j \in settled[l] : j \notin todo /\ j \notin unconfirmed /\ reports[j] = 0
    BY <1>1 DEF IInv, Exclusive, Owns
  <1>3. \A m \in Loops, j \in Jobs : Owns(m, j) => Owns(m, j)' \/ j \in settled[l]
    BY <1>1 DEF Owns, InHeld, IInv, TInv, TypeOK
  <1>4. /\ \A j \in settled[l] : j \in unconfirmed' \/ reports'[j] = 1
        /\ \A j \in Jobs \ settled[l] : /\ reports'[j] = reports[j]
                                        /\ j \in unconfirmed' <=> j \in unconfirmed
    BY <1>1, <1>2, DoneJobs
  <1>5. SUFFICES ASSUME ~starved', NEW j \in Jobs
                 PROVE  j \in todo' \/ j \in unconfirmed' \/ reports'[j] = 1
                        \/ \E m \in Loops : Owns(m, j)'
    BY DEF Covered
  <1>6. CASE j \in settled[l]
    BY <1>4, <1>6
  <1>7. CASE j \notin settled[l]
    <2>1. \/ j \in todo \/ j \in unconfirmed \/ reports[j] = 1
          \/ \E m \in Loops : Owns(m, j)
      BY <1>1, <1>5 DEF IInv, Covered
    <2>2. CASE \E m \in Loops : Owns(m, j)
      BY <1>3, <1>7, <2>2
    <2>3. CASE j \in todo \/ j \in unconfirmed \/ reports[j] = 1
      <3>1. todo' = todo /\ reports'[j] = reports[j] /\ (j \in unconfirmed => j \in unconfirmed')
        BY <1>1, <1>4, <1>7
      <3> QED
        BY <2>3, <3>1
    <2> QED
      BY <2>1, <2>2, <2>3
  <1> QED
    BY <1>6, <1>7

(* A collected connect goes from Flight to the settled buffer, which was empty. *)
LEMMA CollectJobs == ASSUME IInv, NEW l \in Loops, Collect(l) PROVE Covered'
  <1>1. PICK seen \in SUBSET Pollable(l) :
          LET gone == seen \cup (flight[l] \cap expired)
          IN /\ settled' = [settled EXCEPT ![l] = gone]
             /\ flight' = [flight EXCEPT ![l] = @ \ gone]
    BY DEF Collect
  <1>2. settled[l] = {} /\ UNCHANGED <<todo, hand, held, starved, unconfirmed, reports>>
    BY DEF Collect, sourceVars, heldVars, kernelVars, callerVars, IInv, Emptied
  <1>3. \A m \in Loops, j \in Jobs : Owns(m, j) => Owns(m, j)'
    BY <1>1, <1>2 DEF Pollable, Owns, InHeld, IInv, TInv, TypeOK
  <1> QED
    BY <1>2, <1>3 DEF IInv, Covered

(* A confirmed job is reported. *)
LEMMA ConfirmJobs == ASSUME IInv, NEW j \in Jobs, Confirm(j) PROVE Covered'
  <1>1. /\ reports' = [reports EXCEPT ![j] = @ + 1] /\ unconfirmed' = unconfirmed \ {j}
        /\ reports[j] = 0 /\ UNCHANGED <<todo, hand, held, flight, settled, starved>>
    BY DEF Confirm, sourceVars, heldVars, kernelVars, callerVars, IInv, Exclusive
  <1>2. reports'[j] = 1 /\ \A k \in Jobs : k # j => reports'[k] = reports[k]
    BY <1>1 DEF IInv, TInv, TypeOK
  <1>3. \A m \in Loops, k \in Jobs : Owns(m, k)' <=> Owns(m, k)
    BY <1>1 DEF Owns, InHeld
  <1> QED
    BY <1>1, <1>2, <1>3 DEF IInv, Covered

(* A connect that settles as it starts goes to the settled buffer. *)
LEMMA StartDoneJobs == ASSUME IInv, NEW l \in Loops, StartDone(l) PROVE Covered'
  <1>1. /\ hand' = [hand EXCEPT ![l] = NoJob] /\ hand[l] \in Jobs
        /\ settled' = [settled EXCEPT ![l] = @ \cup {hand[l]}]
        /\ UNCHANGED <<todo, held, flight, unconfirmed, reports, starved>>
    BY DEF StartDone, Started, IInv, TInv, TypeOK, Control, sourceVars, heldVars,
       kernelVars, callerVars
  <1>2. \A m \in Loops, j \in Jobs : Owns(m, j) => Owns(m, j)'
    BY <1>1 DEF Owns, InHeld, IInv, TInv, TypeOK
  <1> QED
    BY <1>1, <1>2 DEF IInv, Covered

(* A step that moves no job keeps every job where it was. *)
LEMMA NoJobMoves ==
  ASSUME IInv, UNCHANGED <<todo, hand, held, flight, settled, unconfirmed, reports, starved>>
  PROVE  Exclusive' /\ Covered'
  BY DEF IInv, Exclusive, Covered, Owns, InHeld

-----------------------------------------------------------------------------
(* The invariant is inductive. *)

(* Top preserves the invariant. *)
LEMMA TopStep ==
  ASSUME IInv, NEW l \in Loops, Top(l) PROVE IInv'
  <1>1. TInv'
    BY TopTypes DEF IInv
  <1>2. Exclusive'
    BY TopJobs
  <1>3. Covered'
    BY <1>1, JobsAssumption DEF Top, ClearHeld, Goto, IInv, TInv, TypeOK, Control,
       Covered, Owns, InHeld, sourceVars, heldVars, kernelVars, callerVars
  <1>4. Emptied'
    BY <1>1, JobsAssumption DEF Top, ClearHeld, Goto, IInv, TInv, TypeOK, Control,
       Emptied, Ended, sourceVars, heldVars, kernelVars, callerVars
  <1>5. Socketed'
    BY <1>1, JobsAssumption DEF Top, ClearHeld, Goto, IInv, TInv, TypeOK, Control,
       Socketed, Owns, Exclusive, sourceVars, heldVars, kernelVars, callerVars
  <1> QED
    BY <1>1, <1>2, <1>3, <1>4, <1>5 DEF IInv

(* StopFilling preserves the invariant. *)
LEMMA StopFillingStep ==
  ASSUME IInv, NEW l \in Loops, StopFilling(l) PROVE IInv'
  <1>1. TInv'
    BY DEF StopFilling, Filling, Due, Open, Goto, IInv, TInv, TypeOK, Control, sourceVars,
       heldVars, kernelVars, callerVars
  <1>2. Exclusive' /\ Covered'
    BY NoJobMoves DEF StopFilling, sourceVars, heldVars, kernelVars, callerVars
  <1>3. Emptied' /\ Socketed'
    BY <1>1 DEF StopFilling, Filling, Due, Open, Goto, IInv, TInv, TypeOK, Control,
       Emptied, Socketed, Ended, sourceVars, heldVars, kernelVars, callerVars
  <1> QED
    BY <1>1, <1>2, <1>3 DEF IInv

(* Pop preserves the invariant. *)
LEMMA PopStep ==
  ASSUME IInv, NEW l \in Loops, Pop(l) PROVE IInv'
  <1>1. TInv'
    BY SizesAssumption, JobsAssumption DEF Pop, Filling, Due, Goto, IInv, TInv, TypeOK,
       Control, sourceVars, heldVars, kernelVars, callerVars
  <1>2. Exclusive'
    BY PopJobs
  <1>3. Covered'
    BY PopJobs
  <1>4. Emptied'
    BY <1>1, JobsAssumption DEF Pop, Filling, Due, Goto, IInv, TInv, TypeOK, Control,
       Emptied, Ended, sourceVars, heldVars, kernelVars, callerVars
  <1>5. Socketed'
    BY <1>1, JobsAssumption DEF Pop, Filling, Due, Goto, IInv, TInv, TypeOK, Control,
       Socketed, Owns, Exclusive, sourceVars, heldVars, kernelVars, callerVars
  <1> QED
    BY <1>1, <1>2, <1>3, <1>4, <1>5 DEF IInv

(* TakeFull preserves the invariant. *)
LEMMA TakeFullStep ==
  ASSUME IInv, NEW l \in Loops, TakeFull(l) PROVE IInv'
  <1>1. TInv'
    BY DEF TakeFull, MayTake, Filling, Due, Open, Goto, IInv, TInv, TypeOK, Control,
       sourceVars, heldVars, kernelVars, callerVars
  <1>2. Exclusive' /\ Covered'
    BY NoJobMoves DEF TakeFull, sourceVars, heldVars, kernelVars, callerVars
  <1>3. Emptied' /\ Socketed'
    BY <1>1 DEF TakeFull, MayTake, Filling, Due, Open, Goto, IInv, TInv, TypeOK, Control,
       Emptied, Socketed, Ended, sourceVars, heldVars, kernelVars, callerVars
  <1> QED
    BY <1>1, <1>2, <1>3 DEF IInv

(* TakeJob preserves the invariant. *)
LEMMA TakeJobStep ==
  ASSUME IInv, NEW l \in Loops, TakeJob(l) PROVE IInv'
  <1>1. TInv'
    BY TakeJobTypes DEF IInv
  <1>2. Exclusive'
    BY <1>1, JobsAssumption DEF TakeJob, MayTake, Filling, Due, Open, Goto, IInv, TInv,
       TypeOK, Control, Exclusive, Owns, InHeld, sourceVars, heldVars, kernelVars,
       callerVars
  <1>3. Covered'
    BY TakeJobJobs
  <1>4. Emptied'
    BY <1>1, JobsAssumption DEF TakeJob, MayTake, Filling, Due, Open, Goto, IInv, TInv,
       TypeOK, Control, Emptied, Ended, sourceVars, heldVars, kernelVars, callerVars
  <1>5. Socketed'
    BY <1>1, JobsAssumption DEF TakeJob, MayTake, Filling, Due, Open, Goto, IInv, TInv,
       TypeOK, Control, Socketed, Owns, Exclusive, sourceVars, heldVars, kernelVars,
       callerVars
  <1> QED
    BY <1>1, <1>2, <1>3, <1>4, <1>5 DEF IInv

(* TakeDry preserves the invariant. *)
LEMMA TakeDryStep ==
  ASSUME IInv, NEW l \in Loops, TakeDry(l) PROVE IInv'
  <1>1. TInv'
    BY DEF TakeDry, MayTake, Filling, Due, Open, Goto, IInv, TInv, TypeOK, Control,
       sourceVars, heldVars, kernelVars, callerVars
  <1>2. Exclusive' /\ Covered'
    BY NoJobMoves DEF TakeDry, sourceVars, heldVars, kernelVars, callerVars
  <1>3. Emptied' /\ Socketed'
    BY <1>1 DEF TakeDry, MayTake, Filling, Due, Open, Goto, IInv, TInv, TypeOK, Control,
       Emptied, Socketed, Ended, sourceVars, heldVars, kernelVars, callerVars
  <1> QED
    BY <1>1, <1>2, <1>3 DEF IInv

(* DropSuspect preserves the invariant. *)
LEMMA DropSuspectStep ==
  ASSUME IInv, NEW l \in Loops, DropSuspect(l) PROVE IInv'
  <1>1. TInv'
    BY DropSuspectTypes DEF IInv
  <1>2. Exclusive'
    BY DropSuspectJobs
  <1>3. Covered'
    BY DropSuspectJobs
  <1>4. Emptied'
    BY <1>1, JobsAssumption DEF DropSuspect, Done, Goto, IInv, TInv, TypeOK, Control,
       Emptied, Ended, sourceVars, heldVars, kernelVars, callerVars
  <1>5. Socketed'
    BY <1>1, JobsAssumption DEF DropSuspect, Done, Goto, IInv, TInv, TypeOK, Control,
       Socketed, Owns, Exclusive, sourceVars, heldVars, kernelVars, callerVars
  <1> QED
    BY <1>1, <1>2, <1>3, <1>4, <1>5 DEF IInv

(* StartPending preserves the invariant. *)
LEMMA StartPendingStep ==
  ASSUME IInv, NEW l \in Loops, StartPending(l) PROVE IInv'
  <1>1. TInv'
    BY SizesAssumption, JobsAssumption DEF StartPending, Started, Goto, IInv, TInv,
       TypeOK, Control, sourceVars, heldVars, kernelVars, callerVars
  <1>2. Exclusive'
    BY <1>1, JobsAssumption DEF StartPending, Started, Goto, IInv, TInv, TypeOK, Control,
       Exclusive, Owns, InHeld, sourceVars, heldVars, kernelVars, callerVars
  <1>3. Covered'
    BY <1>1, JobsAssumption DEF StartPending, Started, Goto, IInv, TInv, TypeOK, Control,
       Covered, Owns, InHeld, sourceVars, heldVars, kernelVars, callerVars
  <1>4. Emptied'
    BY <1>1, JobsAssumption DEF StartPending, Started, Goto, IInv, TInv, TypeOK, Control,
       Emptied, Ended, sourceVars, heldVars, kernelVars, callerVars
  <1>5. Socketed'
    BY <1>1, JobsAssumption DEF StartPending, Started, Goto, IInv, TInv, TypeOK, Control,
       Socketed, Owns, Exclusive, sourceVars, heldVars, kernelVars, callerVars
  <1> QED
    BY <1>1, <1>2, <1>3, <1>4, <1>5 DEF IInv

(* StartDone preserves the invariant. *)
LEMMA StartDoneStep ==
  ASSUME IInv, NEW l \in Loops, StartDone(l) PROVE IInv'
  <1>1. TInv'
    BY StartDoneTypes DEF IInv
  <1>2. Exclusive'
    BY <1>1, JobsAssumption DEF StartDone, Started, Immediate, Connected, Crossable, Goto,
       IInv, TInv, TypeOK, Control, Exclusive, Owns, InHeld, sourceVars, heldVars,
       kernelVars, callerVars
  <1>3. Covered'
    BY StartDoneJobs
  <1>4. Emptied'
    BY <1>1, JobsAssumption DEF StartDone, Started, Immediate, Connected, Crossable, Goto,
       IInv, TInv, TypeOK, Control, Emptied, Ended, sourceVars, heldVars, kernelVars,
       callerVars
  <1>5. Socketed'
    BY <1>1, JobsAssumption DEF StartDone, Started, Immediate, Connected, Crossable, Goto,
       IInv, TInv, TypeOK, Control, Socketed, Owns, Exclusive, sourceVars, heldVars,
       kernelVars, callerVars
  <1> QED
    BY <1>1, <1>2, <1>3, <1>4, <1>5 DEF IInv

(* StartUnprobed preserves the invariant. *)
LEMMA StartUnprobedStep ==
  ASSUME IInv, NEW l \in Loops, StartUnprobed(l) PROVE IInv'
  <1>1. TInv'
    BY StartUnprobedTypes DEF IInv
  <1>2. Exclusive'
    BY StartUnprobedJobs
  <1>3. Covered'
    BY StartUnprobedJobs
  <1>4. Emptied'
    BY <1>1, JobsAssumption DEF StartUnprobed, Hold, ClearHeld, OnlySuspect, GivesUp,
       Goto, IInv, TInv, TypeOK, Control, Emptied, Ended, sourceVars, heldVars,
       kernelVars, callerVars
  <1>5. Socketed'
    BY <1>1, JobsAssumption DEF StartUnprobed, Hold, ClearHeld, OnlySuspect, GivesUp,
       Goto, IInv, TInv, TypeOK, Control, Socketed, Owns, Exclusive, sourceVars, heldVars,
       kernelVars, callerVars
  <1> QED
    BY <1>1, <1>2, <1>3, <1>4, <1>5 DEF IInv

(* Report preserves the invariant. *)
LEMMA ReportStep ==
  ASSUME IInv, NEW l \in Loops, Report(l) PROVE IInv'
  <1>1. TInv'
    BY ReportTypes DEF IInv
  <1>2. Exclusive'
    BY <1>1, JobsAssumption DEF Report, Done, Alone, AfterReport, Goto, IInv, TInv,
       TypeOK, Control, Exclusive, Owns, InHeld, sourceVars, heldVars, kernelVars,
       callerVars
  <1>3. Covered'
    BY ReportJobs
  <1>4. Emptied'
    BY <1>1, JobsAssumption DEF Report, Done, Alone, AfterReport, Goto, IInv, TInv,
       TypeOK, Control, Emptied, Ended, sourceVars, heldVars, kernelVars, callerVars
  <1>5. Socketed'
    BY <1>1, JobsAssumption DEF Report, Done, Alone, AfterReport, Goto, IInv, TInv,
       TypeOK, Control, Socketed, Owns, Exclusive, sourceVars, heldVars, kernelVars,
       callerVars
  <1> QED
    BY <1>1, <1>2, <1>3, <1>4, <1>5 DEF IInv

(* Sleep preserves the invariant. *)
LEMMA SleepStep ==
  ASSUME IInv, NEW l \in Loops, Sleep(l) PROVE IInv'
  <1>1. TInv'
    BY DEF Sleep, Goto, IInv, TInv, TypeOK, Control, sourceVars, heldVars, kernelVars,
       callerVars
  <1>2. Exclusive' /\ Covered'
    BY NoJobMoves DEF Sleep, sourceVars, heldVars, kernelVars, callerVars
  <1>3. Emptied' /\ Socketed'
    BY <1>1 DEF Sleep, Goto, IInv, TInv, TypeOK, Control, Emptied, Socketed, Ended,
       sourceVars, heldVars, kernelVars, callerVars
  <1> QED
    BY <1>1, <1>2, <1>3 DEF IInv

(* Collect preserves the invariant. *)
LEMMA CollectStep ==
  ASSUME IInv, NEW l \in Loops, Collect(l) PROVE IInv'
  <1>1. TInv'
    BY CollectTypes DEF IInv
  <1>2. Exclusive'
    BY <1>1, JobsAssumption DEF Collect, Pollable, Finish, Connected, Goto, IInv, TInv, TypeOK,
       Control, Exclusive, Owns, InHeld, sourceVars, heldVars, kernelVars, callerVars
  <1>3. Covered'
    BY CollectJobs
  <1>4. Emptied'
    BY <1>1, JobsAssumption DEF Collect, Pollable, Finish, Connected, Goto, IInv, TInv, TypeOK,
       Control, Emptied, Ended, sourceVars, heldVars, kernelVars, callerVars
  <1>5. Socketed'
    BY <1>1, JobsAssumption DEF Collect, Pollable, Finish, Connected, Goto, IInv, TInv, TypeOK,
       Control, Socketed, Owns, Exclusive, sourceVars, heldVars, kernelVars, callerVars
  <1> QED
    BY <1>1, <1>2, <1>3, <1>4, <1>5 DEF IInv

(* Confirm preserves the invariant. *)
LEMMA ConfirmStep ==
  ASSUME IInv, NEW j \in Jobs, Confirm(j) PROVE IInv'
  <1>1. TInv'
    BY DEF Confirm, ConnectOnce, Alone, Connected, Outcome, Goto, IInv, TInv, TypeOK,
       Control, sourceVars, heldVars, kernelVars, callerVars
  <1>2. Exclusive'
    BY <1>1, JobsAssumption DEF Confirm, ConnectOnce, Alone, Connected, Goto, IInv, TInv,
       TypeOK, Control, Exclusive, Owns, InHeld, sourceVars, heldVars, kernelVars,
       callerVars
  <1>3. Covered'
    BY ConfirmJobs
  <1>4. Emptied'
    BY <1>1, JobsAssumption DEF Confirm, ConnectOnce, Alone, Connected, Goto, IInv, TInv,
       TypeOK, Control, Emptied, Ended, sourceVars, heldVars, kernelVars, callerVars
  <1>5. Socketed'
    BY <1>1, JobsAssumption DEF Confirm, ConnectOnce, Alone, Connected, Goto, IInv, TInv,
       TypeOK, Control, Socketed, Owns, Exclusive, sourceVars, heldVars, kernelVars,
       callerVars
  <1> QED
    BY <1>1, <1>2, <1>3, <1>4, <1>5 DEF IInv

(* Return preserves the invariant. *)
LEMMA ReturnStep ==
  ASSUME IInv, Return PROVE IInv'
  <1>1. TInv'
    BY DEF Return, Goto, IInv, TInv, TypeOK, Control, sourceVars, heldVars, kernelVars,
       callerVars
  <1>2. Exclusive' /\ Covered'
    BY NoJobMoves DEF Return, sourceVars, heldVars, kernelVars, callerVars
  <1>3. Emptied' /\ Socketed'
    BY <1>1 DEF Return, Joined, Goto, IInv, TInv, TypeOK, Control, Emptied, Socketed,
       Ended, sourceVars, heldVars, kernelVars, callerVars
  <1> QED
    BY <1>1, <1>2, <1>3 DEF IInv

(* Stop preserves the invariant. *)
LEMMA StopStep ==
  ASSUME IInv, Stop PROVE IInv'
  <1>1. TInv'
    BY DEF Stop, Goto, IInv, TInv, TypeOK, Control, sourceVars, heldVars, kernelVars,
       callerVars
  <1>2. Exclusive' /\ Covered'
    BY NoJobMoves DEF Stop, sourceVars, heldVars, kernelVars, callerVars
  <1>3. Emptied' /\ Socketed'
    BY <1>1 DEF Stop, Goto, IInv, TInv, TypeOK, Control, Emptied, Socketed, Ended,
       sourceVars, heldVars, kernelVars, callerVars
  <1> QED
    BY <1>1, <1>2, <1>3 DEF IInv

(* PauseOver preserves the invariant. *)
LEMMA PauseOverStep ==
  ASSUME IInv, NEW l \in Loops, PauseOver(l) PROVE IInv'
  <1>1. TInv'
    BY DEF PauseOver, Goto, IInv, TInv, TypeOK, Control, sourceVars, heldVars, kernelVars,
       callerVars
  <1>2. Exclusive' /\ Covered'
    BY NoJobMoves DEF PauseOver, sourceVars, heldVars, kernelVars, callerVars
  <1>3. Emptied' /\ Socketed'
    BY <1>1 DEF PauseOver, Goto, IInv, TInv, TypeOK, Control, Emptied, Socketed, Ended,
       sourceVars, heldVars, kernelVars, callerVars
  <1> QED
    BY <1>1, <1>2, <1>3 DEF IInv

(* StallLimitOver preserves the invariant. *)
LEMMA StallLimitOverStep ==
  ASSUME IInv, NEW l \in Loops, StallLimitOver(l) PROVE IInv'
  <1>1. TInv'
    BY DEF StallLimitOver, Goto, IInv, TInv, TypeOK, Control, sourceVars, heldVars,
       kernelVars, callerVars
  <1>2. Exclusive' /\ Covered'
    BY NoJobMoves DEF StallLimitOver, sourceVars, heldVars, kernelVars, callerVars
  <1>3. Emptied' /\ Socketed'
    BY <1>1 DEF StallLimitOver, Goto, IInv, TInv, TypeOK, Control, Emptied, Socketed,
       Ended, sourceVars, heldVars, kernelVars, callerVars
  <1> QED
    BY <1>1, <1>2, <1>3 DEF IInv

(* Expire preserves the invariant. *)
LEMMA ExpireStep ==
  ASSUME IInv, NEW j \in Jobs, Expire(j) PROVE IInv'
  <1>1. TInv'
    BY DEF Expire, InFlight, Goto, IInv, TInv, TypeOK, Control, sourceVars, heldVars,
       kernelVars, callerVars
  <1>2. Exclusive' /\ Covered'
    BY NoJobMoves DEF Expire, sourceVars, heldVars, kernelVars, callerVars
  <1>3. Emptied' /\ Socketed'
    BY <1>1 DEF Expire, InFlight, Goto, IInv, TInv, TypeOK, Control, Emptied, Socketed,
       Ended, sourceVars, heldVars, kernelVars, callerVars
  <1> QED
    BY <1>1, <1>2, <1>3 DEF IInv

(* Answer preserves the invariant. *)
LEMMA AnswerStep ==
  ASSUME IInv, NEW j \in Jobs, Answer(j) PROVE IInv'
  <1>1. TInv'
    BY DEF Answer, Goto, IInv, TInv, TypeOK, Control, sourceVars, heldVars, kernelVars,
       callerVars
  <1>2. Exclusive' /\ Covered'
    BY NoJobMoves DEF Answer, sourceVars, heldVars, kernelVars, callerVars
  <1>3. Emptied' /\ Socketed'
    BY <1>1 DEF Answer, Goto, IInv, TInv, TypeOK, Control, Emptied, Socketed, Ended,
       sourceVars, heldVars, kernelVars, callerVars
  <1> QED
    BY <1>1, <1>2, <1>3 DEF IInv

(* Cross preserves the invariant. *)
LEMMA CrossStep ==
  ASSUME IInv, NEW j \in Jobs, NEW k \in Jobs, Cross(j, k) PROVE IInv'
  <1>1. TInv'
    BY DEF Cross, Crossable, Goto, IInv, TInv, TypeOK, Control, sourceVars, heldVars,
       kernelVars, callerVars
  <1>2. Exclusive' /\ Covered'
    BY NoJobMoves DEF Cross, sourceVars, heldVars, kernelVars, callerVars
  <1>3. Emptied' /\ Socketed'
    BY <1>1 DEF Cross, Crossable, Goto, IInv, TInv, TypeOK, Control, Emptied, Socketed,
       Ended, sourceVars, heldVars, kernelVars, callerVars
  <1> QED
    BY <1>1, <1>2, <1>3 DEF IInv

(* The invariant holds when run starts its loops. *)
LEMMA InitIInv == Init => IInv
  <1> SUFFICES ASSUME Init PROVE IInv
    OBVIOUS
  <1>1. HeldType
    <2>1. /\ held = [l \in Loops |-> <<>>] /\ suspect = [l \in Loops |-> FALSE]
          /\ short = [l \in Loops |-> FALSE] /\ pauseOver = [l \in Loops |-> FALSE]
          /\ stalled = [l \in Loops |-> FALSE]
      BY DEF Init
    <2>2. held \in [Loops -> Seq(Jobs)] /\ \A l \in Loops : Len(held[l]) <= 2
      BY <2>1
    <2>3. /\ suspect \in [Loops -> BOOLEAN] /\ short \in [Loops -> BOOLEAN]
          /\ pauseOver \in [Loops -> BOOLEAN] /\ stalled \in [Loops -> BOOLEAN]
          /\ \A l \in Loops : ~suspect[l]
      BY <2>1
    <2> QED
      BY <2>2, <2>3 DEF HeldType
  <1>2. RestType
    <2>1. dry \in [Loops -> BOOLEAN] /\ stopped \in BOOLEAN /\ starved \in BOOLEAN
          /\ outOfMemory \in BOOLEAN
      BY DEF Init
    <2>2. size \in MinWindow..Limit /\ batch \in [Loops -> 0..StartBatch]
      BY SizesAssumption DEF Init
    <2>3. pc \in [Loops -> {"top", "fill", "start", "dropDry", "dropStarted", "report",
                            "sleep", "wait", "collected", "end", "failed"}]
      BY DEF Init
    <2> QED
      BY <2>1, <2>2, <2>3 DEF Init, RestType
  <1>3. Control
    <2>1. \A l \in Loops : pc[l] \in {"top", "end", "failed"} /\ hand[l] = NoJob
      BY DEF Init
    <2> QED
      BY <2>1 DEF Control
  <1>4. /\ todo = Jobs /\ unconfirmed = {} /\ \A j \in Jobs : reports[j] = 0
        /\ \A l \in Loops : /\ held[l] = <<>> /\ Len(held[l]) = 0 /\ flight[l] = {}
                            /\ settled[l] = {} /\ hand[l] = NoJob
        /\ result = "running"
    BY DEF Init
  <1>5. \A l \in Loops, j \in Jobs : ~Owns(l, j)
    BY <1>4, JobsAssumption DEF Owns, InHeld
  <1>6. Exclusive
    BY <1>4, <1>5 DEF Exclusive, Owns
  <1>7. Covered /\ Emptied /\ Socketed
    BY <1>4 DEF Covered, Emptied, Socketed
  <1> QED
    BY <1>1, <1>2, <1>3, <1>6, <1>7, TypeParts DEF IInv, TInv

(* Nor does standing still disturb it. *)
LEMMA StutterStep == ASSUME IInv, UNCHANGED vars PROVE IInv'
  <1>1. TInv'
    BY DEF vars, IInv, TInv, TypeOK, Control, sourceVars, heldVars, kernelVars, callerVars
  <1>2. Exclusive' /\ Covered'
    BY NoJobMoves DEF vars, sourceVars, heldVars, kernelVars, callerVars
  <1>3. Emptied' /\ Socketed'
    BY DEF vars, IInv, Emptied, Socketed, Ended, sourceVars, heldVars, kernelVars,
       callerVars
  <1> QED
    BY <1>1, <1>2, <1>3 DEF IInv

(* Every step of a loop preserves the invariant. *)
LEMMA LoopStepIInv == ASSUME IInv, NEW l \in Loops, LoopStep(l) PROVE IInv'
  BY TopStep, StopFillingStep, PopStep, TakeFullStep, TakeJobStep, TakeDryStep,
     DropSuspectStep, StartPendingStep, StartDoneStep, StartUnprobedStep, ReportStep,
     SleepStep, CollectStep
  DEF LoopStep

(* So do the caller's stop, the clock, the kernel and the network. *)
LEMMA EnvironmentIInv == ASSUME IInv, Environment PROVE IInv'
  BY StopStep, PauseOverStep, StallLimitOverStep, ExpireStep, AnswerStep, CrossStep
  DEF Environment

(* Every step of the run preserves the invariant. *)
LEMMA NextIInv == IInv /\ [Next]_vars => IInv'
  BY LoopStepIInv, ConfirmStep, ReturnStep, EnvironmentIInv, StutterStep DEF Next, Finished

(* The invariant holds throughout every run. *)
LEMMA Invariance == Spec => []IInv
  BY InitIInv, NextIInv, PTL DEF Spec

(* Every variable of the engine keeps its type in every run: in particular
   Held never needs a third slot, so the assertion in Held.hold never
   fails, and a suspect is always alone in it. *)
THEOREM TypeCorrect == Spec => []TypeOK
  <1>1. IInv => TypeOK
    BY DEF IInv, TInv
  <1> QED
    BY <1>1, Invariance, PTL

-----------------------------------------------------------------------------
(* The engine implements ConnectRun. *)

(* Before its first step, run has promised nothing yet. *)
LEMMA ContractInit == Init => Contract!Init
  BY DEF Init, Contract!Init

(* What a batch of verdicts looks like to the caller. *)
LEMMA DoneContract ==
  ASSUME IInv, NEW S \in SUBSET Jobs, NEW v, Done(S, v), UNCHANGED <<todo, result>>,
         result = "running",
         \A j \in S : j \notin todo /\ j \notin unconfirmed /\ reports[j] = 0
  PROVE  \E T \in SUBSET Jobs : Contract!Done(T)
  <1>1. PICK lost \in SUBSET {j \in S : v[j] = "unconfirmed"} :
          reports' = [j \in Jobs |-> IF j \in (S \ {i \in S : v[i] = "unconfirmed"}) \cup lost
                                       THEN reports[j] + 1 ELSE reports[j]]
    BY DEF Done
  <1> DEFINE T == (S \ {i \in S : v[i] = "unconfirmed"}) \cup lost
  <1>2. T \in SUBSET Jobs /\ T \subseteq {j \in Jobs \ todo : reports[j] = 0}
    OBVIOUS
  <1>3. reports' = [j \in Jobs |-> IF j \in T THEN 1 ELSE reports[j]]
    BY <1>1
  <1>4. Contract!Done(T)
    BY <1>2, <1>3 DEF Contract!Done
  <1> QED
    BY <1>2, <1>4

(* Every step of a loop is a step of the contract, or invisible to it. *)
LEMMA LoopContract ==
  ASSUME IInv, NEW l \in Loops, LoopStep(l) PROVE [Contract!Next]_(Contract!vars)
  <1>1. result = "running" /\ result' = result
    <2>1. ~Ended(l)
      BY DEF LoopStep, Ended, Top, StopFilling, Pop, TakeFull, TakeJob, TakeDry, MayTake,
         Filling, DropSuspect, StartPending, StartDone, Started, StartUnprobed, Report,
         Sleep, Collect
    <2>2. result = "running"
      BY <2>1 DEF IInv, Emptied
    <2>3. result' = result
      BY DEF LoopStep, Top, StopFilling, Pop, TakeFull, TakeJob, TakeDry,
         DropSuspect, StartPending, StartDone, Started, StartUnprobed, Report,
         Sleep, Collect
    <2> QED
      BY <2>2, <2>3
  <1>2. CASE TakeJob(l)
    <2>1. PICK j \in todo : todo' = todo \ {j}
      BY <1>2 DEF TakeJob
    <2>2. j \in Jobs /\ todo \subseteq Jobs /\ reports' = reports
      BY <1>2 DEF TakeJob, IInv, TInv, TypeOK, sourceVars, heldVars, kernelVars, callerVars
    <2>3. Contract!Pull(j)
      BY <1>1, <2>1, <2>2 DEF Contract!Pull
    <2> QED
      BY <2>2, <2>3 DEF Contract!Next
  <1>3. CASE DropSuspect(l)
    <2>1. /\ held[l] \in Seq(Jobs) /\ held[l] # <<>> /\ Len(held[l]) = 1 /\ Len(held[l]) <= 2
      BY <1>3 DEF DropSuspect, IInv, TInv, TypeOK, Control
    <2> DEFINE x == held[l][1]
    <2>2. x \in Jobs /\ x \notin todo /\ x \notin unconfirmed /\ reports[x] = 0
      BY <2>1, TailFacts DEF Owns, InHeld, IInv, Exclusive
    <2>3. Done({x}, [j \in {x} |-> "filtered"]) /\ todo' = todo
      BY <1>3, <2>1, TailFacts DEF DropSuspect, sourceVars, heldVars, kernelVars, callerVars
    <2>4. \E T \in SUBSET Jobs : Contract!Done(T)
      <3>1. {x} \in SUBSET Jobs
        BY <2>2
      <3>2. \A j \in {x} : j \notin todo /\ j \notin unconfirmed /\ reports[j] = 0
        BY <2>2
      <3> HIDE DEF x
      <3> QED
        BY <1>1, <2>3, <3>1, <3>2, DoneContract
    <2> QED
      BY <2>4 DEF Contract!Next
  <1>4. CASE Report(l)
    <2>1. Done(settled[l], verdict) /\ todo' = todo /\ settled[l] \in SUBSET Jobs
      BY <1>4 DEF Report, sourceVars, heldVars, kernelVars, callerVars, IInv, TInv, TypeOK
    <2>2. \A j \in settled[l] : j \notin todo /\ j \notin unconfirmed /\ reports[j] = 0
      BY <2>1 DEF IInv, Exclusive, Owns
    <2>3. \E T \in SUBSET Jobs : Contract!Done(T)
      BY <1>1, <2>1, <2>2, DoneContract
    <2> QED
      BY <2>3 DEF Contract!Next
  <1>5. CASE ~TakeJob(l) /\ ~DropSuspect(l) /\ ~Report(l)
    <2>1. todo' = todo /\ reports' = reports
      BY <1>5 DEF LoopStep, Top, StopFilling, Pop, TakeFull, TakeDry,
         StartPending, StartDone, Started, StartUnprobed, Sleep, Collect,
         sourceVars, heldVars, kernelVars, callerVars
    <2> QED
      BY <1>1, <2>1 DEF Contract!vars
  <1> QED
    BY <1>2, <1>3, <1>4, <1>5

(* Confirming a port reports it. *)
LEMMA ConfirmContract ==
  ASSUME IInv, NEW j \in Jobs, Confirm(j) PROVE [Contract!Next]_(Contract!vars)
  <1>1. /\ result = "running" /\ result' = result /\ todo' = todo
        /\ j \notin todo /\ reports[j] = 0 /\ reports' = [reports EXCEPT ![j] = @ + 1]
    BY DEF Confirm, Joined, sourceVars, heldVars, kernelVars, callerVars, IInv, Exclusive
  <1>2. reports' = [i \in Jobs |-> IF i \in {j} THEN 1 ELSE reports[i]]
    <2>1. reports' = [reports EXCEPT ![j] = 1] /\ reports \in [Jobs -> Nat]
      BY <1>1 DEF IInv, TInv, TypeOK
    <2> QED
      BY <2>1
  <1>3. Contract!Done({j})
    BY <1>1, <1>2 DEF Contract!Done
  <1> QED
    BY <1>3 DEF Contract!Next

(* run returns normally only when no job it took is unreported. *)
LEMMA ReturnContract == ASSUME IInv, Return PROVE [Contract!Next]_(Contract!vars)
  <1>1. /\ result = "running" /\ todo' = todo /\ reports' = reports
        /\ \A l \in Loops : Ended(l)
    BY DEF Return, Joined, sourceVars, heldVars, kernelVars, callerVars
  <1>2. CASE pc[Main] = "failed" \/ starved
    <2>1. result' \in {"OutOfSockets", "OutOfMemory"}
      BY <1>2 DEF Return
    <2>2. Contract!Fail
      BY <1>1, <2>1 DEF Contract!Fail
    <2> QED
      BY <2>2 DEF Contract!Next
  <1>3. CASE pc[Main] # "failed" /\ ~starved
    <2>1. result' = "ok" /\ unconfirmed = {}
      BY <1>3 DEF Return
    <2>2. \A l \in Loops, j \in Jobs : ~Owns(l, j)
      <3>1. \A l \in Loops : /\ held[l] = <<>> /\ flight[l] = {} /\ settled[l] = {}
                             /\ hand[l] = NoJob
        BY <1>1 DEF IInv, Emptied, TInv, Control, TypeOK, Ended
      <3>2. Len(<<>>) = 0
        OBVIOUS
      <3> QED
        BY <3>1, <3>2, JobsAssumption DEF Owns, InHeld
    <2>3. \A j \in Jobs \ todo : reports[j] = 1
      BY <1>3, <2>1, <2>2 DEF IInv, Covered
    <2>4. Contract!Return
      BY <1>1, <2>1, <2>3 DEF Contract!Return
    <2> QED
      BY <2>4 DEF Contract!Next
  <1> QED
    BY <1>2, <1>3

(* Every step of the run is a step of the contract, or invisible to it. *)
LEMMA ContractStep ==
  ASSUME IInv, [Next]_vars PROVE [Contract!Next]_(Contract!vars)
  <1>1. CASE \E l \in Loops : LoopStep(l)
    BY <1>1, LoopContract
  <1>2. CASE \E j \in Jobs : Confirm(j)
    BY <1>2, ConfirmContract
  <1>3. CASE Return
    BY <1>3, ReturnContract
  <1>4. CASE Environment \/ Finished \/ UNCHANGED vars
    <2>1. todo' = todo /\ reports' = reports /\ result' = result
      BY <1>4 DEF Environment, Stop, PauseOver, StallLimitOver, Expire, Answer, Cross,
         Finished, vars, sourceVars, heldVars, kernelVars, callerVars
    <2> QED
      BY <2>1 DEF Contract!vars
  <1> QED
    BY <1>1, <1>2, <1>3, <1>4 DEF Next

(* However many loops share the run, and however their steps, the
   shortages, the deadlines and the target's answers interleave: a job
   taken from the source is reported at most once, and run returns normally
   only when every job it took has been reported. *)
THEOREM ContractTheorem == Spec => EachJobOnce
  BY InitIInv, ContractInit, NextIInv, ContractStep, PTL DEF Spec, EachJobOnce,
     Contract!Spec

-----------------------------------------------------------------------------
(* What went out is never lost, even by a run that gives up. *)

(* A connect that went out is in flight, settled, unconfirmed or reported. *)
Asked ==
  \A j \in Jobs : tried[j] = "asked" =>
    \/ j \in unconfirmed \/ reports[j] = 1
    \/ \E l \in Loops : j \in flight[l] \/ j \in settled[l]

(* A loop never loses a connect that went out. *)
LEMMA AskedLoop == ASSUME IInv, Asked, NEW l \in Loops, LoopStep(l) PROVE Asked'
  <1>1. CASE StartPending(l) \/ StartDone(l)
    <2>1. /\ tried' = [tried EXCEPT ![hand[l]] = "asked"] /\ hand[l] \in Jobs
          /\ unconfirmed' = unconfirmed /\ reports' = reports
      BY <1>1 DEF StartPending, StartDone, Started, IInv, TInv, TypeOK, Control,
         sourceVars, heldVars, kernelVars, callerVars
    <2>2. hand[l] \in flight'[l] \/ hand[l] \in settled'[l]
      BY <1>1 DEF StartPending, StartDone, IInv, TInv, TypeOK
    <2>3. \A m \in Loops : flight[m] \subseteq flight'[m] /\ settled[m] \subseteq settled'[m]
      <3>1. CASE StartPending(l)
        BY <3>1 DEF StartPending, IInv, TInv, TypeOK
      <3>2. CASE StartDone(l)
        BY <3>2 DEF StartDone, IInv, TInv, TypeOK
      <3> QED
        BY <1>1, <3>1, <3>2
    <2> QED
      BY <2>1, <2>2, <2>3 DEF Asked, IInv, TInv, TypeOK
  <1>2. CASE StartUnprobed(l)
    <2>1. PICK shortage \in Shortages : tried' = [tried EXCEPT ![hand[l]] = shortage]
      BY <1>2 DEF StartUnprobed
    <2>2. shortage # "asked" /\ UNCHANGED <<unconfirmed, reports, flight, settled>>
      BY <1>2, ShortagesAssumption DEF Shortage, StartUnprobed, sourceVars, heldVars,
         kernelVars, callerVars
    <2> QED
      BY <2>1, <2>2 DEF Asked, IInv, TInv, TypeOK
  <1>3. CASE DropSuspect(l)
    <2>1. /\ held[l] \in Seq(Jobs) /\ held[l] # <<>> /\ Len(held[l]) = 1 /\ Len(held[l]) <= 2
      BY <1>3 DEF DropSuspect, IInv, TInv, TypeOK, Control
    <2> DEFINE x == held[l][1]
    <2>2. /\ x \in Jobs /\ x \notin todo /\ x \notin unconfirmed /\ reports[x] = 0
          /\ Done({x}, [j \in {x} |-> "filtered"]) /\ UNCHANGED <<flight, settled, tried>>
      BY <1>3, <2>1, TailFacts DEF Owns, InHeld, IInv, Exclusive, DropSuspect,
         sourceVars, heldVars, kernelVars, callerVars
    <2>3. /\ x \in unconfirmed' \/ reports'[x] = 1
          /\ \A j \in Jobs : j # x => /\ reports'[j] = reports[j]
                                      /\ j \in unconfirmed' <=> j \in unconfirmed
      <3>1. {x} \in SUBSET Jobs /\ \A j \in Jobs : j # x => j \in Jobs \ {x}
        BY <2>2
      <3>2. \A j \in {x} : j \notin todo /\ j \notin unconfirmed /\ reports[j] = 0
        BY <2>2
      <3>3. Done({x}, [j \in {x} |-> "filtered"])
        BY <2>2
      <3> HIDE DEF x
      <3>4. /\ \A j \in {x} : j \in unconfirmed' \/ reports'[j] = 1
            /\ \A j \in Jobs \ {x} : /\ reports'[j] = reports[j]
                                     /\ j \in unconfirmed' <=> j \in unconfirmed
        BY <3>1, <3>2, <3>3, DoneJobs
      <3> QED
        BY <3>1, <3>4
    <2>4. SUFFICES ASSUME NEW j \in Jobs, tried[j] = "asked", j # x
                   PROVE  \/ j \in unconfirmed' \/ reports'[j] = 1
                          \/ \E m \in Loops : j \in flight'[m] \/ j \in settled'[m]
      BY <2>2, <2>3 DEF Asked
    <2>5. /\ reports'[j] = reports[j] /\ (j \in unconfirmed' <=> j \in unconfirmed)
          /\ flight' = flight /\ settled' = settled
      BY <2>2, <2>3, <2>4
    <2> HIDE DEF x
    <2> QED
      BY <2>4, <2>5 DEF Asked
  <1>4. CASE Report(l)
    <2>1. /\ settled' = [settled EXCEPT ![l] = {}] /\ Done(settled[l], verdict)
          /\ UNCHANGED <<flight, tried>> /\ settled[l] \in SUBSET Jobs
      BY <1>4 DEF Report, sourceVars, heldVars, kernelVars, callerVars, IInv, TInv, TypeOK
    <2>2. \A j \in settled[l] : j \notin todo /\ j \notin unconfirmed /\ reports[j] = 0
      BY <2>1 DEF IInv, Exclusive, Owns
    <2>3. /\ \A j \in settled[l] : j \in unconfirmed' \/ reports'[j] = 1
          /\ \A j \in Jobs \ settled[l] : /\ reports'[j] = reports[j]
                                          /\ j \in unconfirmed' <=> j \in unconfirmed
      BY <2>1, <2>2, DoneJobs
    <2>4. \A m \in Loops : m # l => settled'[m] = settled[m]
      BY <2>1 DEF IInv, TInv, TypeOK
    <2>5. SUFFICES ASSUME NEW j \in Jobs, tried[j] = "asked", j \notin settled[l]
                   PROVE  \/ j \in unconfirmed' \/ reports'[j] = 1
                          \/ \E m \in Loops : j \in flight'[m] \/ j \in settled'[m]
      BY <2>1, <2>3 DEF Asked
    <2>6. \/ j \in unconfirmed \/ reports[j] = 1
          \/ \E m \in Loops : j \in flight[m] \/ (m # l /\ j \in settled[m])
      BY <2>5 DEF Asked
    <2>7. reports'[j] = reports[j] /\ (j \in unconfirmed' <=> j \in unconfirmed)
      BY <2>3, <2>5
    <2>8. CASE j \in unconfirmed \/ reports[j] = 1
      BY <2>7, <2>8
    <2>9. CASE \E m \in Loops : j \in flight[m] \/ (m # l /\ j \in settled[m])
      BY <2>1, <2>4, <2>9
    <2> QED
      BY <2>6, <2>8, <2>9
  <1>5. CASE Collect(l)
    <2>1. PICK gone \in SUBSET flight[l] :
             /\ settled' = [settled EXCEPT ![l] = gone]
             /\ flight' = [flight EXCEPT ![l] = flight[l] \ gone]
      BY <1>5 DEF Collect, Pollable
    <2>2. settled[l] = {} /\ UNCHANGED <<unconfirmed, reports, tried>>
      BY <1>5 DEF Collect, sourceVars, heldVars, kernelVars, callerVars, IInv, Emptied
    <2>3. \A m \in Loops, j \in Jobs :
             j \in flight[m] \/ j \in settled[m] => j \in flight'[m] \/ j \in settled'[m]
      BY <2>1, <2>2 DEF IInv, TInv, TypeOK
    <2> QED
      BY <2>2, <2>3 DEF Asked
  <1>6. CASE ~StartPending(l) /\ ~StartDone(l) /\ ~StartUnprobed(l) /\ ~DropSuspect(l)
             /\ ~Report(l) /\ ~Collect(l)
    <2>1. UNCHANGED <<tried, unconfirmed, reports, flight, settled>>
      BY <1>6 DEF LoopStep, Top, StopFilling, Pop, TakeFull, TakeJob, TakeDry, Sleep,
         sourceVars, heldVars, kernelVars, callerVars
    <2> QED
      BY <2>1 DEF Asked
  <1> QED
    BY <1>1, <1>2, <1>3, <1>4, <1>5, <1>6

(* Nor does any other step. *)
LEMMA AskedNext == IInv /\ Asked /\ [Next]_vars => Asked'
  <1> SUFFICES ASSUME IInv, Asked, [Next]_vars PROVE Asked'
    OBVIOUS
  <1>1. CASE \E l \in Loops : LoopStep(l)
    BY <1>1, AskedLoop
  <1>2. CASE \E j \in Jobs : Confirm(j)
    <2>1. PICK j \in Jobs : Confirm(j)
      BY <1>2
    <2>2. /\ reports' = [reports EXCEPT ![j] = @ + 1] /\ unconfirmed' = unconfirmed \ {j}
          /\ reports[j] = 0 /\ UNCHANGED <<tried, flight, settled>>
      BY <2>1 DEF Confirm, sourceVars, heldVars, kernelVars, callerVars, IInv, Exclusive
    <2>3. reports'[j] = 1 /\ \A k \in Jobs : k # j => reports'[k] = reports[k]
      BY <2>2 DEF IInv, TInv, TypeOK
    <2> QED
      BY <2>2, <2>3 DEF Asked
  <1>3. CASE Return \/ Environment \/ Finished \/ UNCHANGED vars
    <2>1. UNCHANGED <<tried, unconfirmed, reports, flight, settled>>
      BY <1>3 DEF Return, Environment, Stop, PauseOver, StallLimitOver, Expire, Answer,
         Cross, Finished, vars, sourceVars, heldVars, kernelVars, callerVars
    <2> QED
      BY <2>1 DEF Asked
  <1> QED
    BY <1>1, <1>2, <1>3 DEF Next

(* Giving up on a run (error.OutOfSockets, or no memory for the caller's
   loop) loses only connects that never went out: whatever asked its target
   is reported exactly once, or is one the failed run leaves unconfirmed. *)
THEOREM AskedTheorem == Spec => []AskedIsReported
  <1>1. Init => Asked
    BY DEF Init, Asked
  <1>2. IInv /\ Asked => AskedIsReported
    <2> SUFFICES ASSUME IInv, Asked, result # "running", NEW j \in Jobs, tried[j] = "asked"
                 PROVE  reports[j] = 1 \/ j \in unconfirmed
      BY DEF AskedIsReported
    <2>1. \A l \in Loops : flight[l] = {} /\ settled[l] = {}
      BY DEF IInv, Emptied, Ended
    <2> QED
      BY <2>1 DEF Asked
  <1> QED
    BY <1>1, <1>2, AskedNext, Invariance, PTL DEF Spec

-----------------------------------------------------------------------------
(* What a verdict may be based on. *)

(* What reporting a batch tells the source: the jobs of the batch alone, each
   its own verdict, and an unconfirmed one only for want of memory. *)
LEMMA DoneOutcomes ==
  ASSUME IInv, NEW S \in SUBSET Jobs, NEW v, Done(S, v)
  PROVE  /\ \A j \in Jobs \ S : outcome'[j] = outcome[j] /\ reports'[j] = reports[j]
         /\ \A j \in S : \/ outcome'[j] = outcome[j] /\ reports'[j] = reports[j]
                         \/ /\ outcome'[j] = Alone(v[j]) /\ reports'[j] = reports[j] + 1
                            /\ v[j] = "unconfirmed" => outOfMemory'
         /\ unconfirmed' \subseteq unconfirmed \cup S
         /\ outOfMemory => outOfMemory'
  <1> DEFINE back == {j \in S : v[j] = "unconfirmed"}
  <1>1. PICK lost \in SUBSET back :
          LET told == (S \ back) \cup lost
          IN /\ unconfirmed' = unconfirmed \cup (back \ lost)
             /\ outcome' = [j \in Jobs |-> IF j \in told THEN Alone(v[j]) ELSE outcome[j]]
             /\ reports' = [j \in Jobs |-> IF j \in told THEN reports[j] + 1 ELSE reports[j]]
             /\ outOfMemory' = (outOfMemory \/ lost # {})
    BY DEF Done
  <1> DEFINE told == (S \ back) \cup lost
  <1>2. \A j \in Jobs :
          /\ j \in told => outcome'[j] = Alone(v[j]) /\ reports'[j] = reports[j] + 1
          /\ j \notin told => outcome'[j] = outcome[j] /\ reports'[j] = reports[j]
    BY <1>1
  <1>3. told \subseteq S /\ \A j \in told : v[j] = "unconfirmed" => lost # {}
    OBVIOUS
  <1>4. lost # {} => outOfMemory'
    BY <1>1
  <1> QED
    BY <1>1, <1>2, <1>3, <1>4

(* Only what went out settles; a suspect failed on its address; and a port
   keeps "none" until it is reported. *)
Probed ==
  /\ \A l \in Loops : \A j \in flight[l] \cup settled[l] : tried[j] = "asked"
  /\ \A j \in unconfirmed : tried[j] = "asked"
  /\ \A l \in Loops : suspect[l] => tried[held[l][1]] = "address"
  /\ \A j \in Jobs : reports[j] = 0 => outcome[j] = "none"
  /\ NoSocketIsNotSilence

(* Starting, or failing to start, a connect says nothing of any other. *)
LEMMA ProbedStart ==
  ASSUME IInv, Probed, NEW l \in Loops, pc[l] = "start",
         \A j \in Jobs : j # hand[l] => tried'[j] = tried[j],
         outcome' = outcome, reports' = reports, unconfirmed' = unconfirmed
  PROVE  /\ \A m \in Loops : \A j \in flight[m] \cup settled[m] : tried'[j] = "asked"
         /\ \A m \in Loops : suspect[m] => tried'[held[m][1]] = "address"
         /\ \A j \in unconfirmed' : tried'[j] = "asked"
         /\ \A j \in Jobs : reports'[j] = 0 => outcome'[j] = "none"
         /\ NoSocketIsNotSilence'
  <1>1. hand[l] \in Jobs /\ hand[l] # NoJob
    BY DEF IInv, TInv, TypeOK, Control
  <1>2. \A j \in Jobs : j # hand[l] => tried'[j] = tried[j]
    OBVIOUS
  <1>3. Owns(l, hand[l]) /\ reports[hand[l]] = 0 /\ hand[l] \notin unconfirmed
    BY <1>1 DEF Owns, IInv, Exclusive
  <1>4. \A m \in Loops : \A j \in flight[m] \cup settled[m] : j \in Jobs /\ j # hand[l]
    BY <1>1, <1>3 DEF Owns, IInv, Exclusive, TInv, TypeOK
  <1>5. \A m \in Loops : suspect[m] => held[m][1] \in Jobs /\ held[m][1] # hand[l]
    <2> SUFFICES ASSUME NEW m \in Loops, suspect[m]
                 PROVE  held[m][1] \in Jobs /\ held[m][1] # hand[l]
      OBVIOUS
    <2>1. held[m] \in Seq(Jobs) /\ Len(held[m]) = 1
      BY DEF IInv, TInv, TypeOK
    <2>2. held[m][1] \in Jobs /\ InHeld(m, held[m][1])
      BY <2>1 DEF InHeld
    <2> QED
      BY <1>1, <1>3, <2>2 DEF Owns, IInv, Exclusive
  <1>6. outcome[hand[l]] = "none"
    BY <1>1, <1>3 DEF Probed
  <1>7. NoSocketIsNotSilence'
    BY <1>2, <1>6 DEF Probed, NoSocketIsNotSilence
  <1> QED
    BY <1>1, <1>2, <1>3, <1>4, <1>5, <1>7 DEF Probed, IInv, TInv, TypeOK

(* A loop reports as unanswered only what it asked, or what failed on its
   address. *)
LEMMA ProbedLoop == ASSUME IInv, Probed, NEW l \in Loops, LoopStep(l) PROVE Probed'
  <1>1. CASE StartPending(l) \/ StartDone(l)
    <2>1. /\ pc[l] = "start" /\ tried' = [tried EXCEPT ![hand[l]] = "asked"]
          /\ held' = held /\ suspect' = suspect
          /\ outcome' = outcome /\ reports' = reports /\ unconfirmed' = unconfirmed
      BY <1>1 DEF StartPending, StartDone, Started, callerVars
    <2>a. tried'[hand[l]] = "asked" /\ \A j \in Jobs : j # hand[l] => tried'[j] = tried[j]
      BY <2>1 DEF IInv, TInv, TypeOK, Control
    <2>2. \A m \in Loops : flight'[m] \cup settled'[m] \subseteq flight[m] \cup settled[m] \cup {hand[l]}
      <3>1. CASE StartPending(l)
        BY <3>1 DEF StartPending, IInv, TInv, TypeOK
      <3>2. CASE StartDone(l)
        BY <3>2 DEF StartDone, IInv, TInv, TypeOK
      <3> QED
        BY <1>1, <3>1, <3>2
    <2>3. /\ \A m \in Loops : \A j \in flight[m] \cup settled[m] : tried'[j] = "asked"
          /\ \A m \in Loops : suspect[m] => tried'[held[m][1]] = "address"
          /\ \A j \in unconfirmed' : tried'[j] = "asked"
          /\ \A j \in Jobs : reports'[j] = 0 => outcome'[j] = "none"
          /\ NoSocketIsNotSilence'
      BY <2>1, <2>a, ProbedStart
    <2>4. \A m \in Loops : \A j \in flight'[m] \cup settled'[m] : tried'[j] = "asked"
      BY <2>a, <2>2, <2>3
    <2> QED
      BY <2>1, <2>3, <2>4 DEF Probed
  <1>2. CASE StartUnprobed(l)
    <2>1. PICK shortage \in Shortages :
            /\ tried' = [tried EXCEPT ![hand[l]] = shortage]
            /\ ClearHeld(l) \/ Hold(l, shortage)
      BY <1>2 DEF StartUnprobed
    <2>2. /\ pc[l] = "start" /\ flight' = flight /\ settled' = settled
          /\ outcome' = outcome /\ reports' = reports /\ unconfirmed' = unconfirmed
      BY <1>2 DEF StartUnprobed, callerVars
    <2>a. /\ hand[l] \in Jobs /\ tried'[hand[l]] = shortage
          /\ \A j \in Jobs : j # hand[l] => tried'[j] = tried[j]
      BY <2>1, <2>2 DEF IInv, TInv, TypeOK, Control
    <2>3. /\ hand[l] \in Jobs /\ tried'[hand[l]] = shortage
          /\ \A m \in Loops : suspect[m] => tried'[held[m][1]] = "address"
      BY <2>a, <2>2, ProbedStart
    <2>4. \A m \in Loops : suspect'[m] => tried'[held'[m][1]] = "address"
      <3>1. \A m \in Loops : m # l => suspect'[m] = suspect[m] /\ held'[m] = held[m]
        BY <2>1 DEF ClearHeld, Hold, IInv, TInv, TypeOK
      <3>2. CASE ClearHeld(l)
        BY <2>3, <3>1, <3>2 DEF ClearHeld, IInv, TInv, TypeOK
      <3>3. CASE Hold(l, shortage) /\ OnlySuspect(l, shortage)
        <4>1. held[l] = <<>> /\ shortage = "address" /\ held'[l] = Append(held[l], hand[l])
          BY <3>3 DEF Hold, OnlySuspect, IInv, TInv, TypeOK
        <4>2. held'[l][1] = hand[l]
          BY <2>3, <4>1
        <4> QED
          BY <2>3, <3>1, <4>1, <4>2
      <3>4. CASE Hold(l, shortage) /\ ~OnlySuspect(l, shortage)
        BY <2>3, <3>1, <3>4 DEF Hold, IInv, TInv, TypeOK
      <3> QED
        BY <2>1, <3>2, <3>3, <3>4
    <2>5. /\ \A m \in Loops : \A j \in flight[m] \cup settled[m] : tried'[j] = "asked"
          /\ \A j \in unconfirmed' : tried'[j] = "asked"
          /\ \A j \in Jobs : reports'[j] = 0 => outcome'[j] = "none"
          /\ NoSocketIsNotSilence'
      BY <2>a, <2>2, ProbedStart
    <2> QED
      BY <2>2, <2>4, <2>5 DEF Probed
  <1>3. CASE DropSuspect(l)
    <2>1. suspect[l] /\ held[l] \in Seq(Jobs) /\ Len(held[l]) = 1 /\ held[l] # <<>> /\ Len(held[l]) <= 2
      BY <1>3 DEF DropSuspect, IInv, TInv, TypeOK, Control
    <2> DEFINE x == held[l][1]
    <2>2. /\ x \in Jobs /\ tried[x] = "address" /\ x \notin unconfirmed /\ reports[x] = 0
          /\ Done({x}, [j \in {x} |-> "filtered"])
          /\ UNCHANGED <<flight, settled, tried>>
      BY <1>3, <2>1, TailFacts DEF Owns, InHeld, IInv, Exclusive, DropSuspect, Probed
    <2>3. \A m \in Loops : suspect'[m] => suspect[m] /\ held'[m] = held[m]
      BY <1>3 DEF DropSuspect, IInv, TInv, TypeOK
    <2> HIDE DEF x
    <2>4. {x} \in SUBSET Jobs
      BY <2>2
    <2>5. /\ \A j \in Jobs : j # x => outcome'[j] = outcome[j] /\ reports'[j] = reports[j]
          /\ reports'[x] = 0 => outcome'[x] = outcome[x]
      BY <2>2, <2>4, DoneOutcomes
    <2>6. unconfirmed' = unconfirmed
      BY <2>2, <2>4 DEF Done
    <2> QED
      BY <2>2, <2>3, <2>5, <2>6 DEF Probed, NoSocketIsNotSilence
  <1>4. CASE Report(l)
    <2>1. /\ Done(settled[l], verdict) /\ settled[l] \in SUBSET Jobs
          /\ settled' = [settled EXCEPT ![l] = {}]
          /\ UNCHANGED <<flight, tried, held, suspect>>
      BY <1>4 DEF Report, heldVars, IInv, TInv, TypeOK
    <2>2. \A m \in Loops : settled'[m] \subseteq settled[m]
      BY <2>1 DEF IInv, TInv, TypeOK
    <2>3. /\ \A j \in Jobs \ settled[l] : outcome'[j] = outcome[j] /\ reports'[j] = reports[j]
          /\ \A j \in settled[l] : \/ outcome'[j] = outcome[j] /\ reports'[j] = reports[j]
                                   \/ reports'[j] = reports[j] + 1
          /\ unconfirmed' \subseteq unconfirmed \cup settled[l]
      BY <2>1, DoneOutcomes
    <2>4. \A j \in settled[l] : tried[j] = "asked"
      BY DEF Probed
    <2>5. \A j \in Jobs : reports'[j] = 0 => outcome'[j] = "none"
      <3> SUFFICES ASSUME NEW j \in Jobs, reports'[j] = 0 PROVE outcome'[j] = "none"
        OBVIOUS
      <3>1. reports[j] + 1 # 0
        BY DEF IInv, TInv, TypeOK
      <3>2. outcome'[j] = outcome[j] /\ reports'[j] = reports[j]
        BY <2>3, <3>1
      <3> QED
        BY <3>2 DEF Probed
    <2>6. NoSocketIsNotSilence'
      BY <2>1, <2>3, <2>4 DEF Probed, NoSocketIsNotSilence
    <2>7. \A j \in unconfirmed' : tried'[j] = "asked"
      BY <2>1, <2>3, <2>4 DEF Probed
    <2>8. \A m \in Loops : \A j \in flight'[m] \cup settled'[m] : tried'[j] = "asked"
      BY <2>1, <2>2 DEF Probed
    <2> QED
      BY <2>1, <2>5, <2>6, <2>7, <2>8 DEF Probed
  <1>5. CASE Collect(l)
    <2>1. PICK gone \in SUBSET flight[l] :
             /\ settled' = [settled EXCEPT ![l] = gone]
             /\ flight' = [flight EXCEPT ![l] = flight[l] \ gone]
      BY <1>5 DEF Collect, Pollable
    <2>2. UNCHANGED <<tried, held, suspect, outcome, reports, unconfirmed>>
      BY <1>5 DEF Collect, heldVars, callerVars
    <2>3. \A m \in Loops : flight'[m] \cup settled'[m] \subseteq flight[m] \cup settled[m]
      BY <2>1 DEF IInv, TInv, TypeOK
    <2> QED
      BY <2>2, <2>3 DEF Probed, NoSocketIsNotSilence
  <1>6. CASE Top(l) \/ Pop(l)
    <2>1. UNCHANGED <<tried, outcome, reports, unconfirmed, flight, settled>>
      BY <1>6 DEF Top, Pop, callerVars
    <2>2. \A m \in Loops : suspect'[m] => suspect[m] /\ held'[m] = held[m]
      <3>1. CASE Top(l)
        BY <3>1 DEF Top, ClearHeld, heldVars, IInv, TInv, TypeOK
      <3>2. CASE Pop(l)
        BY <3>2 DEF Pop, Due, IInv, TInv, TypeOK
      <3> QED
        BY <1>6, <3>1, <3>2
    <2> QED
      BY <2>1, <2>2 DEF Probed, NoSocketIsNotSilence
  <1>7. CASE StopFilling(l) \/ TakeFull(l) \/ TakeJob(l) \/ TakeDry(l) \/ Sleep(l)
    <2>1. UNCHANGED <<tried, outcome, reports, unconfirmed, flight, settled, held, suspect>>
      BY <1>7 DEF StopFilling, TakeFull, TakeJob, TakeDry, Sleep, heldVars, callerVars
    <2> QED
      BY <2>1 DEF Probed, NoSocketIsNotSilence
  <1> QED
    BY <1>1, <1>2, <1>3, <1>4, <1>5, <1>6, <1>7 DEF LoopStep

(* Nor does run itself, or anything around it. *)
LEMMA ProbedNext == IInv /\ Probed /\ [Next]_vars => Probed'
  <1> SUFFICES ASSUME IInv, Probed, [Next]_vars PROVE Probed'
    OBVIOUS
  <1>1. CASE \E l \in Loops : LoopStep(l)
    BY <1>1, ProbedLoop
  <1>2. CASE \E j \in Jobs : Confirm(j)
    <2>1. PICK j \in Jobs : Confirm(j)
      BY <1>2
    <2>2. PICK o : outcome' = [outcome EXCEPT ![j] = o]
      BY <2>1 DEF Confirm
    <2>3. /\ reports' = [reports EXCEPT ![j] = @ + 1] /\ unconfirmed' = unconfirmed \ {j}
          /\ j \in unconfirmed /\ UNCHANGED <<tried, flight, settled, held, suspect>>
      BY <2>1 DEF Confirm, heldVars
    <2>4. reports'[j] # 0 /\ tried[j] = "asked"
      BY <2>3 DEF Probed, IInv, TInv, TypeOK
    <2>5. \A k \in Jobs : k # j => outcome'[k] = outcome[k] /\ reports'[k] = reports[k]
      BY <2>2, <2>3 DEF IInv, TInv, TypeOK
    <2> QED
      BY <2>3, <2>4, <2>5 DEF Probed, NoSocketIsNotSilence
  <1>3. CASE Return \/ Environment \/ Finished \/ UNCHANGED vars
    <2>1. UNCHANGED <<tried, outcome, reports, unconfirmed, flight, settled, held, suspect>>
      BY <1>3 DEF Return, Environment, Stop, PauseOver, StallLimitOver, Expire, Answer,
         Cross, Finished, vars, sourceVars, heldVars, kernelVars, callerVars
    <2> QED
      BY <2>1 DEF Probed, NoSocketIsNotSilence
  <1> QED
    BY <1>1, <1>2, <1>3 DEF Next

(* A connect that could not start for want of a socket is never reported as
   unanswered, whatever other loops do meanwhile: Held tells a target's own
   failure from the machine's. *)
THEOREM SilenceTheorem == Spec => []NoSocketIsNotSilence
  <1>1. Init => Probed
    BY DEF Init, Probed, NoSocketIsNotSilence
  <1>2. Probed => NoSocketIsNotSilence
    BY DEF Probed
  <1> QED
    BY <1>1, <1>2, ProbedNext, Invariance, PTL DEF Spec
-----------------------------------------------------------------------------
(* Which ports count as open. *)

(* Sockets are those of the jobs in flight; one that met a listener has one,
   and only connects to the machine itself meet each other or themselves. *)
Met ==
  /\ \A j \in Jobs : sock[j] # "none" => \E l \in Loops : j \in flight[l]
  /\ \A j \in Jobs : sock[j] = "listener" => j \in listener
  /\ \A j \in Jobs : sock[j] \in {"crossed", "self"} => j \in OwnJobs

(* A verdict of open names a listener; so does what the source was told. *)
Listening ==
  /\ \A j \in Jobs : verdict[j] = "open" => j \in listener
  /\ NoPhantomOpen

(* What a connect that succeeds proves. *)
LEMMA ConnectedFacts ==
  ASSUME NEW j \in Jobs, NEW met, met = "listener" => j \in listener,
         met \in {"crossed", "self"} => j \in OwnJobs, met \in {"listener", "crossed", "self"}
  PROVE  /\ Connected(j, met) = "open" => j \in listener
         /\ met = "crossed" => Connected(j, met) = "unconfirmed"
  BY DEF Connected

(* Sockets come and go with the jobs in flight. *)
LEMMA MetLoop == ASSUME IInv, Met, NEW l \in Loops, LoopStep(l) PROVE Met'
  <1>0. /\ flight \in [Loops -> SUBSET Jobs] /\ hand \in [Loops -> Jobs \cup {NoJob}]
        /\ DOMAIN sock = Jobs /\ sock = [j \in Jobs |-> sock[j]]
    BY DEF IInv, TInv, TypeOK
  <1>1. CASE StartPending(l)
    <2>1. /\ pc[l] = "start" /\ flight' = [flight EXCEPT ![l] = @ \cup {hand[l]}]
          /\ sock' = [sock EXCEPT ![hand[l]] = "pending"] /\ listener' = listener
      BY <1>1 DEF StartPending, Started
    <2>2. hand[l] \in flight'[l] /\ \A m \in Loops : flight[m] \subseteq flight'[m]
      BY <1>0, <2>1
    <2>3. \A j \in Jobs : sock'[j] = IF j = hand[l] THEN "pending" ELSE sock[j]
      BY <1>0, <2>1
    <2> QED
      BY <2>1, <2>2, <2>3 DEF Met
  <1>2. CASE StartDone(l)
    <2>1. /\ flight' = flight /\ listener' = listener
          /\ \/ sock' = sock
             \/ \E k \in Crossable(hand[l]) : sock' = [sock EXCEPT ![k] = "crossed"]
      BY <1>2 DEF StartDone, Started
    <2>2. CASE sock' = sock
      BY <2>1, <2>2 DEF Met
    <2>3. CASE \E k \in Crossable(hand[l]) : sock' = [sock EXCEPT ![k] = "crossed"]
      <3>1. PICK k \in Crossable(hand[l]) : sock' = [sock EXCEPT ![k] = "crossed"]
        BY <2>3
      <3>2. k \in Jobs /\ k \in OwnJobs /\ sock[k] = "pending"
        BY JobsAssumption DEF Crossable
      <3>3. \A j \in Jobs : sock'[j] = IF j = k THEN "crossed" ELSE sock[j]
        BY <1>0, <3>1
      <3> QED
        BY <2>1, <3>2, <3>3 DEF Met
    <2> QED
      BY <2>1, <2>2, <2>3
  <1>3. CASE Collect(l)
    <2>1. PICK gone \in SUBSET flight[l] :
             /\ flight' = [flight EXCEPT ![l] = flight[l] \ gone]
             /\ sock' = [j \in Jobs |-> IF j \in gone THEN "none" ELSE sock[j]]
      BY <1>3 DEF Collect, Pollable
    <2>2. listener' = listener /\ \A j \in Jobs : sock'[j] = IF j \in gone THEN "none" ELSE sock[j]
      BY <1>3, <2>1 DEF Collect
    <2>3. \A m \in Loops : flight[m] \ gone \subseteq flight'[m]
      BY <1>0, <2>1
    <2> QED
      BY <2>2, <2>3 DEF Met
  <1>4. CASE \/ Top(l) \/ StopFilling(l) \/ Pop(l) \/ TakeFull(l) \/ TakeJob(l) \/ TakeDry(l)
             \/ DropSuspect(l) \/ StartUnprobed(l) \/ Report(l) \/ Sleep(l)
    <2>1. UNCHANGED <<flight, sock, listener>>
      BY <1>4 DEF Top, StopFilling, Pop, TakeFull, TakeJob, TakeDry, DropSuspect, StartUnprobed, Report,
         Sleep, kernelVars
    <2> QED
      BY <2>1 DEF Met
  <1> QED
    BY <1>1, <1>2, <1>3, <1>4 DEF LoopStep

(* Targets answer, and connects meet, as they can. *)
LEMMA MetNext == IInv /\ Met /\ [Next]_vars => Met'
  <1> SUFFICES ASSUME IInv, Met, [Next]_vars PROVE Met'
    OBVIOUS
  <1>0. sock \in [Jobs -> {"none", "pending", "listener", "reset", "unreachable", "crossed", "self"}]
    BY DEF IInv, TInv, TypeOK
  <1>1. CASE \E l \in Loops : LoopStep(l)
    BY <1>1, MetLoop
  <1>2. CASE \E j \in Jobs : Answer(j)
    <2>1. PICK j \in Jobs : Answer(j)
      BY <1>2
    <2>2. PICK a : /\ a = "listener" => j \in listener
                   /\ a \in {"listener", "reset", "unreachable", "self"}
                   /\ a = "self" => j \in OwnJobs
                   /\ sock' = [sock EXCEPT ![j] = a]
      BY <2>1 DEF Answer
    <2>3. sock[j] = "pending" /\ flight' = flight /\ listener' = listener
      BY <2>1 DEF Answer
    <2>4. \A k \in Jobs : sock'[k] = IF k = j THEN a ELSE sock[k]
      BY <1>0, <2>2
    <2> QED
      BY <2>2, <2>3, <2>4 DEF Met
  <1>3. CASE \E j, k \in Jobs : Cross(j, k)
    <2>1. PICK j \in Jobs, k \in Jobs : Cross(j, k)
      BY <1>3
    <2>2. /\ sock[j] = "pending" /\ sock[k] = "pending" /\ j \in OwnJobs /\ k \in OwnJobs
          /\ sock' = [sock EXCEPT ![j] = "crossed", ![k] = "crossed"]
          /\ flight' = flight /\ listener' = listener
      BY <2>1 DEF Cross, Crossable
    <2>3. \A i \in Jobs : sock'[i] = IF i \in {j, k} THEN "crossed" ELSE sock[i]
      BY <1>0, <2>2
    <2>4. \A i \in Jobs : sock'[i] # "none" => sock[i] # "none"
      BY <2>2, <2>3
    <2>5. \A i \in Jobs : sock'[i] = "listener" => sock[i] = "listener"
      BY <2>3
    <2>6. \A i \in Jobs : sock'[i] \in {"crossed", "self"} => i \in OwnJobs
      BY <2>2, <2>3 DEF Met
    <2> QED
      BY <2>2, <2>4, <2>5, <2>6 DEF Met
  <1>4. CASE \/ \E j \in Jobs : Confirm(j) \/ Expire(j)
             \/ \E l \in Loops : PauseOver(l) \/ StallLimitOver(l)
             \/ Return \/ Stop \/ Finished \/ UNCHANGED vars
    <2>1. UNCHANGED <<flight, sock, listener>>
      BY <1>4 DEF Confirm, Expire, PauseOver, StallLimitOver, Return, Stop, Finished, vars, kernelVars
    <2> QED
      BY <2>1 DEF Met
  <1> QED
    BY <1>1, <1>2, <1>3, <1>4 DEF Next, Environment

(* What a loop settles and reports as open met a listener. *)
LEMMA ListeningLoop == ASSUME IInv, Met, Listening, NEW l \in Loops, LoopStep(l) PROVE Listening'
  <1>0. verdict \in [Jobs -> Verdict \cup {"none"}] /\ settled[l] \in SUBSET Jobs
    BY DEF IInv, TInv, TypeOK
  <1>1. CASE StartDone(l)
    <2>1. /\ pc[l] = "start" /\ UNCHANGED <<listener, outcome, outOfMemory>>
          /\ \/ \E v \in Immediate(hand[l]) : verdict' = [verdict EXCEPT ![hand[l]] = v]
             \/ /\ Crossable(hand[l]) # {}
                /\ verdict' = [verdict EXCEPT ![hand[l]] = Connected(hand[l], "crossed")]
      BY <1>1 DEF StartDone, Started, callerVars
    <2>2. hand[l] \in Jobs
      BY <2>1 DEF IInv, TInv, TypeOK, Control
    <2>3. ASSUME NEW v \in Immediate(hand[l]), verdict' = [verdict EXCEPT ![hand[l]] = v]
          PROVE  Listening'
      <3>1. v = "open" => hand[l] \in listener
        BY <2>3 DEF Immediate
      <3>2. \A j \in Jobs : verdict'[j] = IF j = hand[l] THEN v ELSE verdict[j]
        BY <1>0, <2>3
      <3> QED
        BY <2>1, <3>1, <3>2 DEF Listening, NoPhantomOpen
    <2>4. CASE /\ Crossable(hand[l]) # {}
               /\ verdict' = [verdict EXCEPT ![hand[l]] = Connected(hand[l], "crossed")]
      <3>1. hand[l] \in OwnJobs
        BY <2>4 DEF Crossable
      <3>2. Connected(hand[l], "crossed") = "unconfirmed"
        BY <2>2, <3>1 DEF Connected
      <3>3. \A j \in Jobs : verdict'[j] = IF j = hand[l] THEN "unconfirmed" ELSE verdict[j]
        BY <1>0, <2>4, <3>2
      <3> QED
        BY <2>1, <3>3 DEF Listening, NoPhantomOpen
    <2> QED
      BY <2>1, <2>3, <2>4
  <1>2. CASE Collect(l)
    <2>1. PICK seen \in SUBSET Pollable(l) :
            verdict' = [j \in Jobs |-> IF j \in seen \cup (flight[l] \cap expired)
                                         THEN Finish(j, j \in seen) ELSE verdict[j]]
      BY <1>2 DEF Collect
    <2>2. UNCHANGED <<listener, outcome, outOfMemory>>
      BY <1>2 DEF Collect, callerVars
    <2>3. \A j \in Jobs : j \in flight[l] /\ Finish(j, j \in seen) = "open" => j \in listener
      <3> SUFFICES ASSUME NEW j \in Jobs, j \in flight[l], Finish(j, j \in seen) = "open"
                   PROVE  j \in listener
        OBVIOUS
      <3>1. sock[j] \in {"pending", "listener", "reset", "unreachable", "crossed", "self"}
        BY DEF IInv, TInv, TypeOK, Socketed
      <3>2. sock[j] \in {"listener", "crossed", "self"} /\ Connected(j, sock[j]) = "open"
        BY <3>1 DEF Finish
      <3> QED
        BY <3>2, ConnectedFacts DEF Met
    <2>4. seen \cup (flight[l] \cap expired) \subseteq flight[l]
      BY DEF Pollable
    <2>5. \A j \in Jobs : verdict'[j] = "open" => j \in listener
      BY <2>1, <2>3, <2>4 DEF Listening
    <2> QED
      BY <2>2, <2>5 DEF Listening, NoPhantomOpen
  <1>3. CASE Report(l)
    <2>1. /\ Done(settled[l], verdict) /\ listener' = listener
          /\ verdict' = [j \in Jobs |-> IF j \in settled[l] THEN "none" ELSE verdict[j]]
      BY <1>3 DEF Report, kernelVars
    <2>2. /\ \A j \in Jobs \ settled[l] : outcome'[j] = outcome[j]
          /\ \A j \in settled[l] : \/ outcome'[j] = outcome[j]
                                   \/ /\ outcome'[j] = Alone(verdict[j])
                                      /\ verdict[j] = "unconfirmed" => outOfMemory'
          /\ outOfMemory => outOfMemory'
      BY <1>0, <2>1, DoneOutcomes
    <2>3. \A j \in Jobs : Alone(verdict[j]) = "open" => verdict[j] \in {"open", "unconfirmed"}
      BY DEF Alone
    <2>4. \A j \in Jobs : outcome'[j] = "open" => j \in listener \/ outOfMemory'
      BY <2>2, <2>3 DEF Listening, NoPhantomOpen
    <2> QED
      BY <2>1, <2>4 DEF Listening, NoPhantomOpen
  <1>4. CASE DropSuspect(l)
    <2>1. held[l] \in Seq(Jobs) /\ held[l] # <<>> /\ Len(held[l]) <= 2
      BY <1>4 DEF DropSuspect, IInv, TInv, TypeOK, Control
    <2>2. PICK x \in Jobs : Done({x}, [j \in {x} |-> "filtered"])
      BY <1>4, <2>1, TailFacts DEF DropSuspect
    <2>3. UNCHANGED <<verdict, listener>> /\ {x} \in SUBSET Jobs
      BY <1>4 DEF DropSuspect, kernelVars
    <2>4. Alone([j \in {x} |-> "filtered"][x]) = "filtered"
      BY DEF Alone
    <2>5. /\ \A j \in Jobs : j # x => outcome'[j] = outcome[j]
          /\ outcome'[x] = outcome[x] \/ outcome'[x] = "filtered"
          /\ outOfMemory => outOfMemory'
      BY <2>2, <2>3, <2>4, DoneOutcomes
    <2> QED
      BY <2>3, <2>5 DEF Listening, NoPhantomOpen
  <1>5. CASE \/ Top(l) \/ StopFilling(l) \/ Pop(l) \/ TakeFull(l) \/ TakeJob(l) \/ TakeDry(l)
             \/ StartPending(l) \/ StartUnprobed(l) \/ Sleep(l)
    <2>1. UNCHANGED <<verdict, outcome, outOfMemory, listener>>
      BY <1>5 DEF Top, StopFilling, Pop, TakeFull, TakeJob, TakeDry, StartPending, Started, StartUnprobed,
         Sleep, kernelVars, callerVars
    <2> QED
      BY <2>1 DEF Listening, NoPhantomOpen
  <1> QED
    BY <1>1, <1>2, <1>3, <1>4, <1>5 DEF LoopStep

(* So does what run confirms, when no connect of the run is left to meet. *)
LEMMA ListeningNext == IInv /\ Met /\ Listening /\ [Next]_vars => Listening'
  <1> SUFFICES ASSUME IInv, Met, Listening, [Next]_vars PROVE Listening'
    OBVIOUS
  <1>1. CASE \E l \in Loops : LoopStep(l)
    BY <1>1, ListeningLoop
  <1>2. CASE \E j \in Jobs : Confirm(j)
    <2>1. PICK j \in Jobs : Confirm(j)
      BY <1>2
    <2>2. PICK o \in ConnectOnce(j) : outcome' = [outcome EXCEPT ![j] = o]
      BY <2>1 DEF Confirm
    <2>3. Joined /\ UNCHANGED <<verdict, listener, outOfMemory>>
      BY <2>1 DEF Confirm, kernelVars
    <2>4. \A l \in Loops : flight[l] = {}
      BY <2>3 DEF Joined, IInv, Emptied
    <2>5. Crossable(j) = {}
      BY <2>4, JobsAssumption DEF Crossable, Met
    <2>6. o = "open" => j \in listener
      BY <2>5 DEF ConnectOnce
    <2>7. \A k \in Jobs : outcome'[k] = IF k = j THEN o ELSE outcome[k]
      BY <2>2 DEF IInv, TInv, TypeOK
    <2> QED
      BY <2>3, <2>6, <2>7 DEF Listening, NoPhantomOpen
  <1>3. CASE Return \/ Environment \/ Finished \/ UNCHANGED vars
    <2>1. UNCHANGED <<verdict, outcome, outOfMemory, listener>>
      BY <1>3 DEF Return, Environment, Stop, PauseOver, StallLimitOver, Expire, Answer,
         Cross, Finished, vars, kernelVars, callerVars
    <2> QED
      BY <2>1 DEF Listening, NoPhantomOpen
  <1> QED
    BY <1>1, <1>2, <1>3 DEF Next

(* A port of the machine itself counts as open only if something listens on it,
   however the connects of the run meet each other, short of running out of
   memory. *)
THEOREM PhantomTheorem == Spec => []NoPhantomOpen
  <1>1. Init => Met /\ Listening
    BY DEF Init, Met, Listening, NoPhantomOpen
  <1>2. Listening => NoPhantomOpen
    BY DEF Listening
  <1> QED
    BY <1>1, <1>2, MetNext, ListeningNext, Invariance, PTL DEF Spec
====
