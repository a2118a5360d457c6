------------------------------ MODULE ConnectRun ------------------------------
(***************************************************************************)
(* What connects.run (src/core/connects.zig) promises its caller, without  *)
(* a word on loops, sockets or windows: it pulls jobs from a source and    *)
(* reports each of them back exactly once; it returns normally only when   *)
(* nothing it pulled is still unreported; it may instead fail, and then    *)
(* what it pulled and did not report stays unreported for good.            *)
(* Connects.tla is shown to implement this specification.                  *)
(***************************************************************************)
EXTENDS Naturals

CONSTANT Jobs

VARIABLES
  pulled,   \* jobs source.next() handed out
  reports,  \* how often source.done() was called for each job
  result    \* what run returned, "running" until it does

vars == <<pulled, reports, result>>

Results == {"running", "ok", "OutOfSockets", "OutOfMemory"}

Init ==
  /\ pulled = {}
  /\ reports = [j \in Jobs |-> 0]
  /\ result = "running"

Pull(j) ==
  /\ result = "running"
  /\ j \notin pulled
  /\ pulled' = pulled \cup {j}
  /\ UNCHANGED <<reports, result>>

\* One or more verdicts, reported together under the run's lock.
Done(S) ==
  /\ result = "running"
  /\ S \subseteq {j \in pulled : reports[j] = 0}
  /\ reports' = [j \in Jobs |-> IF j \in S THEN 1 ELSE reports[j]]
  /\ UNCHANGED <<pulled, result>>

Return ==
  /\ result = "running"
  /\ \A j \in pulled : reports[j] = 1
  /\ result' = "ok"
  /\ UNCHANGED <<pulled, reports>>

Fail ==
  /\ result = "running"
  /\ result' \in {"OutOfSockets", "OutOfMemory"}
  /\ UNCHANGED <<pulled, reports>>

Next ==
  \/ \E j \in Jobs : Pull(j)
  \/ \E S \in SUBSET Jobs : Done(S)
  \/ Return
  \/ Fail

Spec == Init /\ [][Next]_vars

=============================================================================
