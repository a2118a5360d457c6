---------------------------- MODULE NeighborTable ----------------------------
(***************************************************************************)
(* readNeighbors, once before and once after the sweep: from the parent    *)
(* process, asked over stdout and heard on stdin (neighbor_table.zig), or  *)
(* from the kernel (Neighbors); then what harvestArp takes the second      *)
(* table, beside the first, as proof of.                                   *)
(*                                                                         *)
(* A reply is one token, or two when it comes in pieces: a "half" and the  *)
(* "line" that ends it. Time is what passes while poll waits, counted from *)
(* the request. Hosts have MACs of their own: sharesMac, which holds back  *)
(* what a proxying router answers for, is left out.                        *)
(***************************************************************************)
EXTENDS Neighbors, Sequences

CONSTANTS Modes,        \* "kernel", "parent": --neighbor-table
          Timeout,      \* timeout_ms
          MaxReplies,   \* bound on the replies the parent sends
          MaxHalves,    \* bound on those that come in pieces
          MaxChanges    \* bound on the kernel's changes

ASSUME TableAssumption ==
  /\ Modes \subseteq {"kernel", "parent"}
  /\ Timeout \in Nat \ {0} /\ MaxReplies \in Nat /\ MaxHalves \in Nat /\ MaxChanges \in Nat

VARIABLES
  mode,
  round,                \* 1 before the sweep, 2 after it
  nextId, gaveUp, pending,            \* of Parent
  pipe, closed,         \* stdin: what was sent and not read; the parent closed it
  waited,               \* since the request
  left, pollEnd,        \* of readLine: its timeout_ms, and when poll gives up
  before, after,        \* the two tables: [known, source, round, entries]
  fresh,                \* reported by the harvest without a ping
  splits,               \* history: reads that ended in the middle of a line
  replies, halves, changes            \* counted against their bounds

parentVars == <<nextId, gaveUp, pending, waited, left, pollEnd, splits>>
tableVars == <<mode, round, before, after, fresh>>
envVars == <<pipe, closed, replies, halves, changes>>
vars == <<pc, kernVars, dumpVars, parentVars, tableVars, envVars>>

NoTable == [known |-> FALSE, source |-> "none", round |-> 0, entries |-> {}]

Rowsets == [Ips -> Nuds \cup {"absent"}]

Init ==
  /\ pc = "ask"
  /\ platform \in {"linux", "windows", "macos"} /\ mode \in Modes
  /\ (mode = "parent" => platform # "windows")
  /\ hidden \in BOOLEAN /\ (hidden => platform = "macos")
  /\ up \in SUBSET (Ips \ NotHosts)
  \* A host that does not answer was last heard of longer ago.
  /\ kern \in {k \in Rowsets : /\ \A ip \in Ips \ (up \cup NotHosts) : ~Reachable(k[ip])
                               /\ \A ip \in NotHosts : k[ip] = "stale"}
  /\ todo = {} /\ list = {} /\ ok = FALSE /\ attempt = 0 /\ size = 0
  /\ always = {} /\ ever = {}
  /\ round = 1 /\ nextId = 1 /\ gaveUp = FALSE /\ pending = <<>>
  /\ pipe = <<>> /\ closed = FALSE /\ waited = 0 /\ left = 0 /\ pollEnd = 0
  /\ before = NoTable /\ after = NoTable /\ fresh = {}
  /\ splits = 0 /\ replies = 0 /\ halves = 0 /\ changes = 0

-----------------------------------------------------------------------------
\* Mutation: a first table that could not be read counts as empty.
ResolvedOrUnread(e) == e.ip \notin Listing(before.entries)

\* resolvedDuringScan: the first table is known and does not have it.
ResolvedDuringScan(e) == before.known /\ e.ip \notin Listing(before.entries)

\* harvestArp over the second table: what it reports at once.
Proof(table) == {e \in table.entries : e.state = "reachable" \/ ResolvedDuringScan(e)}

\* readNeighbors returns table.
Got(table) ==
  IF round = 1
    THEN before' = table /\ pc' = "sweep" /\ UNCHANGED <<after, fresh>>
    ELSE after' = table /\ fresh' = Proof(table) /\ pc' = "done" /\ UNCHANGED before

\* Parent.request, up to the wait.
Request ==
  /\ pc = "ask" /\ mode = "parent" /\ ~gaveUp
  /\ nextId' = nextId + 1
  /\ waited' = 0 /\ splits' = 0 /\ pc' = "line"
  /\ UNCHANGED <<gaveUp, pending, left, pollEnd, kernVars, dumpVars, tableVars, envVars>>

\* There is no parent to ask, or none worth asking.
ReadKernel ==
  /\ pc = "ask" /\ (mode = "kernel" \/ gaveUp)
  /\ DumpBegins
  /\ UNCHANGED <<platform, hidden, up, kern, parentVars, tableVars, envVars>>

KernelStep == DumpStep /\ UNCHANGED <<parentVars, tableVars, envVars>>

\* What the dump kept to itself is gone once it returned.
KernelRead ==
  /\ pc = "dumped"
  /\ Got([known |-> ok, source |-> "kernel", round |-> round, entries |-> list])
  /\ todo' = {} /\ list' = {} /\ ok' = FALSE /\ attempt' = 0 /\ size' = 0
  /\ always' = {} /\ ever' = {}
  /\ UNCHANGED <<platform, hidden, up, kern, parentVars, mode, round, envVars>>

\* The parent has nothing to use: the table is read from the kernel after all.
FallBack == DumpBegins /\ UNCHANGED <<platform, hidden, up, kern, tableVars>>

\* Lines of the buffered input.
LineEnds == {k \in DOMAIN pending : pending[k].what = "line"}
FirstLine == CHOOSE k \in LineEnds : \A m \in LineEnds : k <= m

\* Mutation: an answer to any request will do.
IsEarlierNever(reply) == FALSE

\* parseReply: an answer to a request made before this one.
IsEarlier(reply) == reply.kind # "garbage" /\ reply.id < nextId - 1

\* awaitReply returns; its variables are gone.
AwaitReplyEnds == waited' = 0 /\ left' = 0 /\ pollEnd' = 0 /\ splits' = 0

\* readLine has a line; awaitReply decodes it.
Line ==
  /\ pc = "line" /\ LineEnds # {}
  /\ LET reply == pending[FirstLine] IN
     /\ pending' = SubSeq(pending, FirstLine + 1, Len(pending))
     /\ \/ /\ IsEarlier(reply)
           /\ UNCHANGED <<pc, waited, left, pollEnd, splits, kernVars, dumpVars, tableVars>>
        \/ /\ ~IsEarlier(reply) /\ reply.kind = "table"
           /\ AwaitReplyEnds
           /\ Got([known |-> TRUE, source |-> "parent", round |-> reply.round,
                   entries |-> {e \in reply.entries : e.ip \notin NotHosts}])
           /\ UNCHANGED <<kernVars, dumpVars, mode, round>>
        \/ /\ ~IsEarlier(reply) /\ reply.kind # "table"
           /\ AwaitReplyEnds /\ FallBack
  /\ UNCHANGED <<nextId, gaveUp, envVars>>

\* Mutation: every line has the whole time again.
TimeLeftWhole == Timeout

\* left_ms of awaitReply.
TimeLeft == IF waited < Timeout THEN Timeout - waited ELSE 0

\* No line yet: poll, for as long as was left when readLine began.
Wait ==
  /\ pc = "line" /\ LineEnds = {}
  /\ left' = TimeLeft /\ pollEnd' = waited + TimeLeft /\ pc' = "poll"
  /\ UNCHANGED <<nextId, gaveUp, pending, waited, splits, kernVars, dumpVars, tableVars, envVars>>

\* One read of all there is; short of a line's end, poll again.
Chunk ==
  /\ pc = "poll" /\ pipe # <<>>
  /\ pending' = pending \o pipe /\ pipe' = <<>>
  /\ IF \E k \in DOMAIN pipe : pipe[k].what = "line"
       THEN pc' = "line" /\ UNCHANGED <<pollEnd, splits>>
       ELSE pollEnd' = waited + left /\ splits' = splits + 1 /\ UNCHANGED pc
  /\ UNCHANGED <<nextId, gaveUp, waited, left, kernVars, dumpVars, tableVars, closed, replies, halves,
                 changes>>

\* Any error of readLine, and the parent is not asked again: Timeout and
\* EndOfStream when nothing more comes, but ReplyTooLarge, OutOfMemory and a
\* failing poll or read at any moment. Nobody reads its input any more.
GivesUp ==
  /\ pc \in {"line", "poll"}
  /\ gaveUp' = TRUE /\ pending' = <<>> /\ pipe' = <<>>
  /\ AwaitReplyEnds /\ FallBack
  /\ UNCHANGED <<nextId, closed, replies, halves, changes>>

\* The sweep: the kernel resolves whom it can meanwhile (Change).
Sweep ==
  /\ pc = "sweep"
  /\ round' = 2 /\ pc' = "ask"
  /\ UNCHANGED <<kernVars, dumpVars, parentVars, mode, before, after, fresh, envVars>>

-----------------------------------------------------------------------------
\* External: the parent and its table, the clock, and the kernel.

\* What a parent may say to request id. It may send its rows unfiltered, those
\* without a MAC too.
Replies(id) ==
  {[what |-> "line", id |-> id, kind |-> "table", round |-> round,
    entries |-> {Entry(ip) : ip \in S}] :
     S \in {{ip \in Ips : ~Dead(kern[ip])}, {ip \in Ips : kern[ip] # "absent"}}}
  \cup {[what |-> "line", id |-> id, kind |-> k, round |-> round, entries |-> {}] :
          k \in {"error", "garbage"}}

Half == [what |-> "half"]

\* A reply to a request made so far, whole or in pieces; in time, late, or twice.
\* One that comes while nobody listens is found like one that comes in the sweep,
\* and one that comes to a scan that gave up is found by nobody.
Answer ==
  /\ mode = "parent" /\ ~gaveUp /\ ~closed /\ replies < MaxReplies /\ pc \in {"poll", "sweep"}
  /\ \E id \in 1..nextId - 1 : \E r \in Replies(id) : pipe' = Append(pipe, r)
  /\ replies' = replies + 1
  /\ UNCHANGED <<pc, kernVars, dumpVars, parentVars, tableVars, closed, halves, changes>>

\* The first piece of a reply whose rest is still to come.
AnswerHalf ==
  /\ mode = "parent" /\ ~gaveUp /\ ~closed /\ replies < MaxReplies /\ halves < MaxHalves
  /\ pc \in {"poll", "sweep"}
  /\ pipe' = Append(pipe, Half) /\ halves' = halves + 1
  /\ UNCHANGED <<pc, kernVars, dumpVars, parentVars, tableVars, closed, replies, changes>>

HangUp ==
  /\ mode = "parent" /\ ~closed /\ pc = "poll"
  /\ closed' = TRUE
  /\ UNCHANGED <<pc, kernVars, dumpVars, parentVars, tableVars, pipe, replies, halves, changes>>

Tick ==
  /\ pc = "poll" /\ pipe = <<>> /\ ~closed /\ waited < pollEnd
  /\ waited' = waited + 1
  /\ UNCHANGED <<pc, kernVars, dumpVars, nextId, gaveUp, pending, left, pollEnd, splits, tableVars,
                 envVars>>

\* The kernel changes a row where a reader can tell: within a dump, or between two.
Changes ==
  /\ pc \in {"part", "read", "sweep"} /\ changes < MaxChanges
  /\ Change /\ changes' = changes + 1
  /\ UNCHANGED <<parentVars, tableVars, pipe, closed, replies, halves>>

Next ==
  \/ Request \/ ReadKernel \/ KernelStep \/ KernelRead
  \/ Line \/ Wait \/ Chunk \/ GivesUp \/ Sweep
  \/ Answer \/ AnswerHalf \/ HangUp \/ Tick \/ Changes
  \/ pc = "done" /\ UNCHANGED vars

Spec == Init /\ [][Next]_vars

-----------------------------------------------------------------------------
(* The table the harvest works on was read after the sweep: a reply to the first
   request that comes late, in pieces or twice is never taken for the second's. *)
SecondReadIsLater == pc = "done" /\ after.known => after.round = 2

(* Replies to earlier requests do not prolong the wait for the parent: it ends
   after timeout_ms, and once more timeout_ms for every read that ended in the
   middle of a line, after which readLine polls anew. *)
WaitIsBounded == waited <= (1 + splits) * Timeout

(* What harvestArp reports without a ping answered ARP during the scan, whatever
   failed along the way - unless the parent refused the first request and the
   kernel's table is hidden, or the parent sent rows without a MAC: then an old
   or an unresolved row looks like a newly resolved one. Rows in DELAY, which
   both readers call reachable, are the other exception: where the kernel has
   them (the run neighbors_delay) a reported row may have answered nobody. *)
FreshProofUnlessMixed ==
  \A e \in fresh :
    \/ e.ip \in up
    \/ ~e.mac
    \/ hidden /\ before.source = "kernel" /\ after.source = "parent"

(* neighbors.h of NS_NEIGH_REACHABLE, which counts rows in delay: "Confirmed
   within the last few seconds [...]: fresh proof the host is present". *)
FreshProof == \A e \in fresh : e.ip \in up
=============================================================================
