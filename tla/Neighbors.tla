------------------------------- MODULE Neighbors -------------------------------
(***************************************************************************)
(* dump_neighbors: the kernel's neighbor table read natively, in parts     *)
(* from netlink (Linux), in one piece (Windows), or into a buffer sized    *)
(* beforehand (macOS), while the kernel goes on changing it.               *)
(*                                                                         *)
(* A dump is a set of entries: rows of one address on two interfaces count *)
(* as one, and the order, which no reader relies on, is left out.          *)
(***************************************************************************)
EXTENDS Integers, FiniteSets

CONSTANTS Ips,        \* addresses that may have a row
          NotHosts,   \* of these, multicast and broadcast rows
          Nuds        \* the kernel's states a row may be in

AllNuds == {"reachable", "delay", "stale", "probe", "permanent", "incomplete", "failed", "noarp"}

ASSUME NeighborAssumption == IsFiniteSet(Ips) /\ NotHosts \subseteq Ips /\ Nuds \subseteq AllNuds

VARIABLES
  pc,        \* where the scan is; of a dump: "open", "part", "size", "read", "dumped"
  platform,
  hidden,    \* macOS hides the table: it reads as empty
  up,        \* hosts that answer ARP during the scan
  kern,      \* the kernel's table: a row's state, or "absent"
  todo,      \* rows the dump has not sent yet
  list,      \* entries read so far; once dumped, what the caller gets
  ok,        \* the dump succeeded
  attempt, size,        \* of the macOS reader
  always, ever          \* history: hosts listed throughout the dump, and at some point of it

dumpVars == <<todo, list, ok, attempt, size>>
kernVars == <<platform, hidden, up, kern, always, ever>>

\* linux_state and windows_state.
Reachable(nud) == nud \in {"reachable", "delay"}
Dead(nud) == nud \notin {"reachable", "delay", "stale", "probe", "permanent"}

\* A row as the readers see it; macOS has no states, and a dead row no MAC.
Entry(ip) ==
  [ip |-> ip, mac |-> ~Dead(kern[ip]),
   state |-> IF Reachable(kern[ip]) /\ platform # "macos" THEN "reachable" ELSE "stale"]

\* The rows of S that list_add keeps: live ones, of real hosts.
Listed(S) == {ip \in S \ NotHosts : ~Dead(kern[ip])}

Add(S) == list \cup {Entry(ip) : ip \in Listed(S)}

Dumped(success) == pc' = "dumped" /\ ok' = success

\* dump_neighbors begins; history starts over with it.
DumpBegins ==
  /\ pc' = "open" /\ todo' = {} /\ list' = {} /\ ok' = FALSE /\ attempt' = 0 /\ size' = 0
  /\ always' = (IF hidden THEN {} ELSE Listed(Ips))
  /\ ever' = (IF hidden THEN {} ELSE Listed(Ips))

\* A call fails, netlink answers with an error or not in time, or there is no
\* memory: the caller gets nothing.
DumpFails ==
  /\ pc \in {"open", "part", "size", "read"}
  /\ Dumped(FALSE) /\ list' = {}
  /\ UNCHANGED <<todo, attempt, size, kernVars>>

LinuxRequest ==
  /\ pc = "open" /\ platform = "linux"
  /\ pc' = "part" /\ todo' = Ips
  /\ UNCHANGED <<list, ok, attempt, size, kernVars>>

\* One recv: rows as they are now. EINTR tries again and changes nothing. The
\* kernel is taken to pass over no row: netlink resumes a dump by position and
\* may skip one when the table shifts between two parts, which it marks with
\* NLM_F_DUMP_INTR, a flag neighbors.c does not look at.
LinuxPart ==
  /\ pc = "part"
  /\ \E S \in SUBSET todo : /\ S # {}
                            /\ list' = Add(S) /\ todo' = todo \ S
  /\ UNCHANGED <<pc, ok, attempt, size, kernVars>>

\* Mutation: the first part is taken for the whole table.
LinuxDoneEarly ==
  /\ pc = "part" /\ todo # Ips
  /\ Dumped(TRUE)
  /\ UNCHANGED <<todo, list, attempt, size, kernVars>>

\* NLMSG_DONE.
LinuxDone ==
  /\ pc = "part" /\ todo = {}
  /\ Dumped(TRUE)
  /\ UNCHANGED <<todo, list, attempt, size, kernVars>>

WindowsDump ==
  /\ pc = "open" /\ platform = "windows"
  /\ list' = Add(Ips) /\ Dumped(TRUE)
  /\ UNCHANGED <<todo, attempt, size, kernVars>>

\* Rows in the macOS dump, unresolved ones included.
Rows == IF hidden THEN {} ELSE {ip \in Ips : kern[ip] # "absent"}

\* The table's size now, with half as much again as slack.
MacSize ==
  /\ \/ pc = "open" /\ platform = "macos"
     \/ pc = "size"
  /\ size' = Cardinality(Rows) + Cardinality(Rows) \div 2
  /\ pc' = "read"
  /\ UNCHANGED <<todo, list, ok, attempt, kernVars>>

\* The table fits into the buffer, or has outgrown it: three attempts.
MacRead ==
  /\ pc = "read"
  /\ IF Cardinality(Rows) <= size
       THEN list' = Add(Rows) /\ Dumped(TRUE) /\ UNCHANGED attempt
     ELSE IF attempt < 2
       THEN pc' = "size" /\ attempt' = attempt + 1 /\ UNCHANGED <<list, ok>>
     ELSE list' = {} /\ Dumped(FALSE) /\ UNCHANGED attempt
  /\ UNCHANGED <<todo, size, kernVars>>

DumpStep ==
  DumpFails \/ LinuxRequest \/ LinuxPart \/ LinuxDone \/ WindowsDump \/ MacSize \/ MacRead

\* The states a row may change to. The row of a host that does not answer grows
\* stale, waits in delay once a packet is sent to it, and is probed and given up.
Becomes(ip) ==
  IF ip \in up THEN Nuds \cup {"absent"}
  ELSE {"absent"} \cup {n \in Nuds : \/ Dead(n)
                                     \/ n = "stale" /\ ~Dead(kern[ip])
                                     \/ n = "delay" /\ kern[ip] = "stale"
                                     \/ n = "probe" /\ kern[ip] = "delay"}

\* The kernel changes a row while the scan goes on.
Change ==
  /\ \E ip \in Ips \ NotHosts : \E n \in Becomes(ip) : kern' = [kern EXCEPT ![ip] = n]
  /\ always' = {ip \in always : ~Dead(kern'[ip])}
  /\ ever' = IF hidden THEN {} ELSE ever \cup {ip \in Ips \ NotHosts : ~Dead(kern'[ip])}
  /\ UNCHANGED <<pc, platform, hidden, up, dumpVars>>

-----------------------------------------------------------------------------
Listing(entries) == {e.ip : e \in entries}

(* A dump that succeeds lists every host that was live in the table throughout,
   though it may come in parts, or outgrow its buffer and be read again, and no
   row that was dead, multicast or broadcast all along; one that fails lists
   nothing, half a table included. This is the reader's part of it: a row the
   kernel itself passes over is lost. *)
DumpComplete ==
  pc = "dumped" =>
    IF ok THEN always \subseteq Listing(list) /\ Listing(list) \subseteq ever \ NotHosts
          ELSE list = {}
=============================================================================
