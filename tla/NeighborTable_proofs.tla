------------------------- MODULE NeighborTable_proofs -------------------------
(***************************************************************************)
(* Proofs about the neighbor table, for any hosts, timeout and number of   *)
(* replies: a dump is complete, the second table is the later one, the     *)
(* wait for the parent is bounded, and what the harvest reports without a  *)
(* ping has answered.                                                      *)
(***************************************************************************)
EXTENDS NeighborTable, FiniteSetTheorems, WellFoundedInduction, TLAPS

Entries == [ip : Ips, mac : BOOLEAN, state : {"reachable", "stale"}]

Lines == [what : {"line"}, id : Nat, kind : {"table", "error", "garbage"}, round : {1, 2},
          entries : SUBSET Entries]

Tables == [known : BOOLEAN, source : {"none", "kernel", "parent"}, round : {0, 1, 2},
           entries : SUBSET Entries]

Dumping == {"open", "part", "size", "read", "dumped"}

(* What each variable may hold. *)
KernTypeOK ==
  /\ platform \in {"linux", "windows", "macos"} /\ hidden \in BOOLEAN
  /\ up \subseteq Ips \ NotHosts /\ kern \in Rowsets
  /\ always \subseteq Ips /\ ever \subseteq Ips

DumpTypeOK ==
  todo \subseteq Ips /\ list \subseteq Entries /\ ok \in BOOLEAN /\ attempt \in Nat /\ size \in Nat

ParentTypeOK ==
  /\ nextId \in Nat /\ gaveUp \in BOOLEAN
  /\ pending \in Seq(Lines \cup {Half}) /\ pipe \in Seq(Lines \cup {Half})
  /\ waited \in Nat /\ left \in Nat /\ pollEnd \in Nat /\ splits \in Nat

TypeOK ==
  /\ pc \in Dumping \cup {"ask", "line", "poll", "sweep", "done"}
  /\ KernTypeOK /\ DumpTypeOK /\ ParentTypeOK
  /\ mode \in Modes /\ round \in {1, 2}
  /\ before \in Tables /\ after \in Tables /\ fresh \subseteq Entries

(* The tokens of a sequence, and the replies' lines on their way. *)
Items(s) == {s[k] : k \in 1..Len(s)}
Coming == {t \in Items(pending) \cup Items(pipe) : t.what = "line"}

(* How far the dump is: what it may have missed is still to come, and it has
   nothing that was never live. *)
DumpInv ==
  /\ hidden => platform = "macos" /\ list = {}
  /\ pc = "part" => platform = "linux" /\ always \subseteq Listing(list) \cup todo
  /\ pc \in {"size", "read"} => platform = "macos"
  /\ pc \in Dumping =>
       /\ always \subseteq Listed(Ips) /\ (hidden => always = {})
       /\ (~hidden => Listed(Ips) \subseteq ever)
       /\ Listing(list) \subseteq ever \ NotHosts
  /\ pc \in {"open", "size", "read"} => list = {}
  /\ DumpComplete

(* A request's number tells the round it was made in, and no reply is older
   than its request. *)
OrderInv ==
  /\ nextId >= 1 /\ nextId <= round + 1
  /\ mode = "parent" /\ ~gaveUp => nextId = (IF pc = "ask" THEN round ELSE round + 1)
  /\ pc \in {"line", "poll"} => nextId = round + 1
  /\ pc = "sweep" => round = 1
  /\ \A t \in Coming : t.id <= t.round /\ t.round <= round
  /\ after.known => after.round = 2

(* Each poll ends in time, and only a read in the middle of a line earns
   another. *)
WaitInv ==
  /\ pc = "poll" => left <= Timeout /\ waited <= pollEnd /\ pollEnd <= (1 + splits) * Timeout
  /\ WaitIsBounded

(* Hosts that do not answer, and whose rows are live all the same. *)
OldLive == {ip \in Ips \ (up \cup NotHosts) : ~Dead(kern[ip])}

(* The first table was read, and read as it is. *)
Sound == before.known /\ ~(hidden /\ before.source = "kernel")

(* Only who answers is reachable. *)
FadingInv ==
  /\ \A ip \in Ips \ up : ~Reachable(kern[ip])
  /\ \A e \in list : e.state = "reachable" => e.ip \in up
  /\ \A t \in Coming : \A e \in t.entries : e.state = "reachable" => e.ip \in up

(* Every table lists the old rows that are still live. *)
CoverInv ==
  /\ pc \in Dumping /\ ~hidden => OldLive \subseteq always
  /\ \A t \in Coming : t.kind = "table" => OldLive \subseteq Listing(t.entries)
  /\ Sound => OldLive \subseteq Listing(before.entries)

(* The second table has no old row that the first does not have. *)
Known(e) == e.mac => e.ip \in up \cup NotHosts \cup Listing(before.entries)

HeldInv ==
  round = 2 /\ Sound =>
    /\ pc \in Dumping => \A e \in list : Known(e)
    /\ \A t \in Coming : t.round = 2 => \A e \in t.entries : Known(e)

HarvestInv ==
  /\ pc # "done" => fresh = {}
  /\ FreshProofUnlessMixed

FreshInv == FadingInv /\ CoverInv /\ HeldInv /\ HarvestInv

IInv == TypeOK /\ DumpInv /\ OrderInv /\ WaitInv

-----------------------------------------------------------------------------
(* Operators. *)

(* An entry is what Entry says, and is reachable only by its row. *)
LEMMA EntryFacts ==
  ASSUME KernTypeOK, NEW ip \in Ips
  PROVE  /\ Entry(ip) \in Entries /\ Entry(ip).ip = ip
         /\ (Entry(ip).mac <=> ~Dead(kern[ip]))
         /\ (Entry(ip).state = "reachable" => Reachable(kern[ip]))
  <1>1. (~Dead(kern[ip])) \in BOOLEAN
    BY DEF Dead
  <1> QED
    BY <1>1 DEF Entry, Entries

(* list_add adds the live rows of S and nothing else. *)
LEMMA AddFacts ==
  ASSUME KernTypeOK, list \subseteq Entries, NEW S \in SUBSET Ips
  PROVE  /\ Add(S) \subseteq Entries
         /\ Listing(Add(S)) = Listing(list) \cup Listed(S)
         /\ \A e \in Add(S) : e \in list \/ \E ip \in Listed(S) : e = Entry(ip)
  <1>1. \A ip \in Listed(S) : ip \in Ips
    BY DEF Listed
  <1>2. \A e \in Add(S) : e \in list \/ \E ip \in Listed(S) : e = Entry(ip)
    BY DEF Add
  <1>3. \A ip \in Listed(S) : Entry(ip) \in Entries /\ Entry(ip).ip = ip
    BY <1>1, EntryFacts
  <1>4. Add(S) \subseteq Entries
    BY <1>2, <1>3
  <1>5. Listing(Add(S)) \subseteq Listing(list) \cup Listed(S)
    BY <1>2, <1>3 DEF Listing
  <1>6. ASSUME NEW ip \in Listed(S) PROVE ip \in Listing(Add(S))
    <2>1. Entry(ip) \in Add(S)
      BY DEF Add
    <2> QED
      BY <2>1, <1>3 DEF Listing
  <1>7. Listing(list) \subseteq Listing(Add(S))
    BY DEF Listing, Add
  <1> QED
    BY <1>2, <1>4, <1>5, <1>6, <1>7

(* Sequences by their items. *)
LEMMA ItemsFacts ==
  ASSUME NEW T, NEW s \in Seq(T)
  PROVE  /\ Items(s) \subseteq T
         /\ \A e \in T : Append(s, e) \in Seq(T) /\ Items(Append(s, e)) = Items(s) \cup {e}
         /\ \A f \in 1..Len(s) : /\ SubSeq(s, f + 1, Len(s)) \in Seq(T)
                                /\ Items(SubSeq(s, f + 1, Len(s))) \subseteq Items(s)
         /\ \A u \in Seq(T) : s \o u \in Seq(T) /\ Items(s \o u) = Items(s) \cup Items(u)
  <1>1. Items(s) \subseteq T
    BY DEF Items
  <1>2. ASSUME NEW e \in T PROVE Append(s, e) \in Seq(T) /\ Items(Append(s, e)) = Items(s) \cup {e}
    <2>1. PICK n \in Nat : n = Len(s)
      OBVIOUS
    <2>2. /\ Append(s, e) \in Seq(T) /\ Len(Append(s, e)) = n + 1 /\ Append(s, e)[n + 1] = e
          /\ \A m \in 1..n : Append(s, e)[m] = s[m]
      BY <2>1
    <2>3. \A k \in 1..(n + 1) : k = n + 1 \/ k \in 1..n
      BY <2>1
    <2> QED
      BY <2>1, <2>2, <2>3 DEF Items
  <1>3. ASSUME NEW f \in 1..Len(s)
        PROVE  /\ SubSeq(s, f + 1, Len(s)) \in Seq(T)
               /\ Items(SubSeq(s, f + 1, Len(s))) \subseteq Items(s)
    <2> DEFINE u == SubSeq(s, f + 1, Len(s))
    <2>1. /\ u \in Seq(T) /\ Len(u) = Len(s) - f
          /\ \A m \in 1..(Len(s) - f) : u[m] = s[f + m]
      OBVIOUS
    <2>2. \A m \in 1..(Len(s) - f) : f + m \in 1..Len(s)
      OBVIOUS
    <2> HIDE DEF u
    <2>3. Items(u) \subseteq Items(s)
      BY <2>1, <2>2 DEF Items
    <2> QED
      BY <2>1, <2>3 DEF u
  <1>4. ASSUME NEW u \in Seq(T) PROVE s \o u \in Seq(T) /\ Items(s \o u) = Items(s) \cup Items(u)
    <2> DEFINE c == s \o u
               n == Len(s)
               m == Len(u)
    <2>1. /\ c \in Seq(T) /\ Len(c) = n + m /\ n \in Nat /\ m \in Nat
          /\ \A k \in 1..n : c[k] = s[k]
      OBVIOUS
    <2>2. \A k \in 1..m : c[n + k] = u[k]
      OBVIOUS
    <2> HIDE DEF c
    <2>3. Items(c) = {c[k] : k \in 1..(n + m)}
      BY <2>1 DEF Items
    <2>4. \A k \in 1..(n + m) : k \in 1..n \/ (k - n \in 1..m /\ k = n + (k - n))
      BY <2>1
    <2>5. ASSUME NEW e \in Items(c) PROVE e \in Items(s) \cup Items(u)
      <3>1. PICK k \in 1..(n + m) : e = c[k]
        BY <2>3, <2>5
      <3>2. CASE k \in 1..n
        BY <2>1, <3>1, <3>2 DEF Items
      <3>3. CASE k - n \in 1..m /\ k = n + (k - n)
        <4>1. e = u[k - n]
          BY <2>2, <3>1, <3>3
        <4> QED
          BY <3>3, <4>1 DEF Items
      <3> QED
        BY <2>4, <3>2, <3>3
    <2>6. ASSUME NEW e \in Items(s) PROVE e \in Items(c)
      <3>1. PICK k \in 1..n : e = s[k]
        BY <2>6 DEF Items
      <3>2. k \in 1..(n + m) /\ e = c[k]
        BY <2>1, <3>1
      <3> QED
        BY <2>3, <3>2
    <2>7. ASSUME NEW e \in Items(u) PROVE e \in Items(c)
      <3>1. PICK k \in 1..m : e = u[k]
        BY <2>7 DEF Items
      <3>2. n + k \in 1..(n + m) /\ e = c[n + k]
        BY <2>1, <2>2, <3>1
      <3> QED
        BY <2>3, <3>2
    <2> QED
      BY <2>1, <2>5, <2>6, <2>7 DEF c
  <1> QED
    BY <1>1, <1>2, <1>3, <1>4

(* A set of numbers that is not empty has a least. *)
LEMMA Least ==
  ASSUME NEW S \in SUBSET Nat, S # {}
  PROVE  \E m \in S : \A k \in S : m <= k
  <1> DEFINE R == {p \in Nat \X Nat : p[1] < p[2]}
  <1>1. IsWellFoundedOn(R, Nat)
    BY NatLessThanWellFounded DEF OpToRel
  <1>2. \A a, b \in Nat : a < b => <<a, b>> \in R
    OBVIOUS
  <1> HIDE DEF R
  <1>3. PICK m \in S : \A k \in S : ~(<<k, m>> \in R)
    BY <1>1, WFMin
  <1>4. m \in Nat /\ \A k \in S : k \in Nat /\ ~(k < m)
    BY <1>2, <1>3
  <1> QED
    BY <1>3, <1>4

(* A line that ends is there to be taken, and is the first one. *)
LEMMA FirstLineFacts ==
  ASSUME ParentTypeOK, LineEnds # {}
  PROVE  /\ FirstLine \in 1..Len(pending) /\ pending[FirstLine] \in Lines
         /\ pending[FirstLine] \in Coming
  <1>1. LineEnds \subseteq 1..Len(pending) /\ LineEnds \in SUBSET Nat
    BY DEF LineEnds, ParentTypeOK
  <1>2. \E k \in LineEnds : \A m \in LineEnds : k <= m
    BY <1>1, Least
  <1>3. FirstLine \in LineEnds
    BY <1>2 DEF FirstLine
  <1>4. /\ FirstLine \in 1..Len(pending) /\ pending[FirstLine].what = "line"
        /\ pending[FirstLine] \in Lines \cup {Half}
    BY <1>1, <1>3 DEF LineEnds, ParentTypeOK
  <1>5. pending[FirstLine] \in Lines
    BY <1>4 DEF Half
  <1> QED
    BY <1>4, <1>5 DEF Coming, Items

(* The replies on their way are lines. *)
LEMMA ComingFacts == ASSUME ParentTypeOK PROVE Coming \subseteq Lines
  <1>1. Items(pending) \subseteq Lines \cup {Half} /\ Items(pipe) \subseteq Lines \cup {Half}
    BY ItemsFacts DEF ParentTypeOK
  <1> QED
    BY <1>1 DEF Coming, Half

(* What a parent says is a line of this round; its table has every row that
   is live, and what it has is as Entry says. *)
LEMMA RepliesFacts ==
  ASSUME TypeOK, NEW id \in Nat, NEW r \in Replies(id)
  PROVE  /\ r \in Lines /\ r.id = id /\ r.round = round
         /\ \A e \in r.entries : \E ip \in Ips : e = Entry(ip)
         /\ r.kind = "table" => \A ip \in Ips : ~Dead(kern[ip]) => ip \in Listing(r.entries)
  <1>1. CASE \E S \in {{ip \in Ips : ~Dead(kern[ip])}, {ip \in Ips : kern[ip] # "absent"}} :
               r = [what |-> "line", id |-> id, kind |-> "table", round |-> round,
                    entries |-> {Entry(ip) : ip \in S}]
    <2>1. PICK S \in {{ip \in Ips : ~Dead(kern[ip])}, {ip \in Ips : kern[ip] # "absent"}} :
               r = [what |-> "line", id |-> id, kind |-> "table", round |-> round,
                    entries |-> {Entry(ip) : ip \in S}]
      BY <1>1
    <2>2. S \subseteq Ips /\ \A ip \in Ips : ~Dead(kern[ip]) => ip \in S
      BY DEF Dead
    <2>3. \A ip \in S : Entry(ip) \in Entries /\ Entry(ip).ip = ip
      BY <2>2, EntryFacts DEF TypeOK
    <2>4. {Entry(ip) : ip \in S} \in SUBSET Entries
      BY <2>3
    <2>5. r \in Lines /\ r.id = id /\ r.round = round /\ r.entries = {Entry(ip) : ip \in S}
      BY <2>1, <2>4 DEF Lines, TypeOK
    <2>6. \A e \in r.entries : \E ip \in Ips : e = Entry(ip)
      BY <2>2, <2>5
    <2>7. \A ip \in S : ip \in Listing(r.entries)
      BY <2>3, <2>5 DEF Listing
    <2> QED
      BY <2>2, <2>5, <2>6, <2>7
  <1>2. CASE \E k \in {"error", "garbage"} :
               r = [what |-> "line", id |-> id, kind |-> k, round |-> round, entries |-> {}]
    <2>1. PICK k \in {"error", "garbage"} :
               r = [what |-> "line", id |-> id, kind |-> k, round |-> round, entries |-> {}]
      BY <1>2
    <2> QED
      BY <2>1 DEF Lines, TypeOK
  <1> QED
    BY <1>1, <1>2 DEF Replies

-----------------------------------------------------------------------------
(* Types. *)

(* The initial state. *)
LEMMA InitTypeOK == Init => TypeOK
  <1> SUFFICES ASSUME Init PROVE TypeOK
    OBVIOUS
  <1>1. KernTypeOK /\ DumpTypeOK
    <2>1. kern \in Rowsets /\ up \subseteq Ips \ NotHosts
      BY DEF Init
    <2>2. hidden \in BOOLEAN /\ ok \in BOOLEAN
      BY DEF Init
    <2> QED
      BY <2>1, <2>2 DEF Init, KernTypeOK, DumpTypeOK
  <1>2. ParentTypeOK
    <2>1. gaveUp \in BOOLEAN
      BY DEF Init
    <2>2. pending \in Seq(Lines \cup {Half}) /\ pipe \in Seq(Lines \cup {Half})
      BY DEF Init
    <2> QED
      BY <2>1, <2>2 DEF Init, ParentTypeOK
  <1>3. NoTable \in Tables
    BY DEF NoTable, Tables
  <1> QED
    BY <1>1, <1>2, <1>3 DEF Init, TypeOK

(* A dump begins with nothing. *)
LEMMA DumpBeginsType ==
  ASSUME KernTypeOK, DumpBegins, UNCHANGED <<platform, hidden, up, kern>>
  PROVE  KernTypeOK' /\ DumpTypeOK' /\ pc' \in Dumping
  <1>1. Listed(Ips) \subseteq Ips
    BY DEF Listed
  <1> QED
    BY <1>1 DEF KernTypeOK, DumpTypeOK, DumpBegins, Dumping

(* Rows can be counted. *)
LEMMA RowsFacts == Cardinality(Rows) \in Nat /\ Rows \subseteq Ips
  <1>1. Rows \subseteq Ips
    BY DEF Rows
  <1> QED
    BY <1>1, FS_Subset, FS_CardinalityType, NeighborAssumption

(* A dump's steps keep its types. *)
LEMMA DumpStepType ==
  ASSUME KernTypeOK, DumpTypeOK, DumpStep
  PROVE  DumpTypeOK' /\ pc' \in Dumping /\ UNCHANGED kernVars
  <1>1. CASE DumpFails
    BY <1>1 DEF DumpFails, Dumped, DumpTypeOK, Dumping
  <1>2. CASE LinuxRequest
    BY <1>2 DEF LinuxRequest, DumpTypeOK, Dumping
  <1>3. CASE LinuxPart
    <2>1. PICK S \in SUBSET todo : list' = Add(S) /\ todo' = todo \ S
      BY <1>3 DEF LinuxPart
    <2>2. S \in SUBSET Ips
      BY DEF DumpTypeOK
    <2>3. Add(S) \subseteq Entries
      BY <2>2, AddFacts DEF DumpTypeOK
    <2> QED
      BY <1>3, <2>1, <2>3 DEF LinuxPart, DumpTypeOK, Dumping
  <1>4. CASE LinuxDone
    BY <1>4 DEF LinuxDone, Dumped, DumpTypeOK, Dumping
  <1>5. CASE WindowsDump
    <2>1. Add(Ips) \subseteq Entries
      BY AddFacts DEF DumpTypeOK
    <2> QED
      BY <1>5, <2>1 DEF WindowsDump, Dumped, DumpTypeOK, Dumping
  <1>6. CASE MacSize
    BY <1>6, RowsFacts DEF MacSize, DumpTypeOK, Dumping
  <1>7. CASE MacRead
    <2>1. Add(Rows) \subseteq Entries
      BY AddFacts, RowsFacts DEF DumpTypeOK
    <2>2. ok' \in BOOLEAN
      BY <1>7 DEF MacRead, Dumped, DumpTypeOK
    <2>3. list' \subseteq Entries /\ attempt' \in Nat
      BY <1>7, <2>1 DEF MacRead, Dumped, DumpTypeOK
    <2> QED
      BY <1>7, <2>2, <2>3 DEF MacRead, Dumped, DumpTypeOK, Dumping
  <1> QED
    BY <1>1, <1>2, <1>3, <1>4, <1>5, <1>6, <1>7 DEF DumpStep

(* What the caller gets is a table. *)
LEMMA GotType ==
  ASSUME TypeOK, NEW table \in Tables, Got(table)
  PROVE  before' \in Tables /\ after' \in Tables /\ fresh' \subseteq Entries /\ pc' \in {"sweep", "done"}
  BY DEF TypeOK, Got, Proof, Tables

(* The two tables there are: the dump's, and the parent's with its multicast
   and broadcast rows dropped. *)
LEMMA TableFacts ==
  ASSUME TypeOK
  PROVE  /\ [known |-> ok, source |-> "kernel", round |-> round, entries |-> list] \in Tables
         /\ \A r \in Lines :
              [known |-> TRUE, source |-> "parent", round |-> r.round,
               entries |-> {e \in r.entries : e.ip \notin NotHosts}] \in Tables
  <1>1. [known |-> ok, source |-> "kernel", round |-> round, entries |-> list] \in Tables
    BY DEF TypeOK, DumpTypeOK, Tables
  <1>2. ASSUME NEW r \in Lines
        PROVE  [known |-> TRUE, source |-> "parent", round |-> r.round,
                entries |-> {e \in r.entries : e.ip \notin NotHosts}] \in Tables
    <2>1. PICK yes : yes = TRUE
      OBVIOUS
    <2>2. {e \in r.entries : e.ip \notin NotHosts} \in SUBSET Entries /\ r.round \in {0, 1, 2}
      BY DEF Lines
    <2>3. [known |-> yes, source |-> "parent", round |-> r.round,
           entries |-> {e \in r.entries : e.ip \notin NotHosts}] \in Tables
      BY <2>1, <2>2 DEF Tables
    <2> QED
      BY <2>1, <2>3
  <1> QED
    BY <1>1, <1>2

(* Every step keeps the types. *)
LEMMA TypeStep == ASSUME TypeOK, [Next]_vars PROVE TypeOK'
  <1>1. CASE Request
    BY <1>1 DEF Request, kernVars, dumpVars, tableVars, envVars, TypeOK, KernTypeOK, DumpTypeOK, ParentTypeOK
  <1>2. CASE ReadKernel
    <2>1. KernTypeOK' /\ DumpTypeOK' /\ pc' \in Dumping
      BY <1>2, DumpBeginsType DEF ReadKernel, TypeOK
    <2> QED
      BY <1>2, <2>1 DEF ReadKernel, parentVars, tableVars, envVars, TypeOK, ParentTypeOK
  <1>3. CASE KernelStep
    <2>1. DumpTypeOK' /\ pc' \in Dumping /\ UNCHANGED kernVars
      BY <1>3, DumpStepType DEF KernelStep, TypeOK
    <2> QED
      BY <1>3, <2>1 DEF KernelStep, kernVars, parentVars, tableVars, envVars, TypeOK, KernTypeOK, ParentTypeOK
  <1>4. CASE KernelRead
    <2>1. before' \in Tables /\ after' \in Tables /\ fresh' \subseteq Entries /\ pc' \in {"sweep", "done"}
      BY <1>4, GotType, TableFacts DEF KernelRead
    <2>2. ok' \in BOOLEAN
      BY <1>4 DEF KernelRead
    <2>3. KernTypeOK' /\ DumpTypeOK'
      BY <1>4, <2>2 DEF KernelRead, TypeOK, KernTypeOK, DumpTypeOK
    <2> QED
      BY <1>4, <2>1, <2>3 DEF KernelRead, parentVars, envVars, TypeOK, ParentTypeOK
  <1>5. CASE Line
    <2> DEFINE reply == pending[FirstLine]
    <2>1. reply \in Lines /\ FirstLine \in 1..Len(pending)
      BY <1>5, FirstLineFacts DEF Line, TypeOK
    <2>2. pending' \in Seq(Lines \cup {Half})
      BY <1>5, <2>1, ItemsFacts DEF Line, TypeOK, ParentTypeOK
    <2>3. ParentTypeOK'
      BY <1>5, <2>2 DEF Line, AwaitReplyEnds, envVars, TypeOK, ParentTypeOK
    <2>4. CASE IsEarlier(reply) /\ UNCHANGED <<pc, waited, left, pollEnd, splits, kernVars, dumpVars, tableVars>>
      BY <2>3, <2>4 DEF TypeOK, KernTypeOK, DumpTypeOK, kernVars, dumpVars, tableVars
    <2>5. CASE /\ Got([known |-> TRUE, source |-> "parent", round |-> reply.round,
                       entries |-> {e \in reply.entries : e.ip \notin NotHosts}])
               /\ UNCHANGED <<kernVars, dumpVars, mode, round>>
      <3>1. before' \in Tables /\ after' \in Tables /\ fresh' \subseteq Entries /\ pc' \in {"sweep", "done"}
        BY <2>1, <2>5, GotType, TableFacts
      <3> QED
        BY <2>3, <2>5, <3>1 DEF TypeOK, KernTypeOK, DumpTypeOK, kernVars, dumpVars
    <2>6. CASE FallBack
      <3>1. KernTypeOK' /\ DumpTypeOK' /\ pc' \in Dumping
        BY <2>6, DumpBeginsType DEF FallBack, TypeOK
      <3> QED
        BY <2>3, <2>6, <3>1 DEF FallBack, TypeOK, tableVars
    <2> QED
      BY <1>5, <2>4, <2>5, <2>6 DEF Line
  <1>6. CASE Wait
    <2>1. TimeLeft \in Nat
      BY TableAssumption DEF TypeOK, ParentTypeOK, TimeLeft
    <2> QED
      BY <1>6, <2>1 DEF Wait, kernVars, dumpVars, tableVars, envVars, TypeOK, KernTypeOK, DumpTypeOK, ParentTypeOK
  <1>7. CASE Chunk
    <2>1. pending' \in Seq(Lines \cup {Half}) /\ pipe' \in Seq(Lines \cup {Half})
      BY <1>7, ItemsFacts DEF Chunk, TypeOK, ParentTypeOK
    <2>2. pollEnd' \in Nat /\ splits' \in Nat /\ pc' \in {"poll", "line"}
      BY <1>7 DEF Chunk, TypeOK, ParentTypeOK
    <2> QED
      BY <1>7, <2>1, <2>2
      DEF Chunk, kernVars, dumpVars, tableVars, TypeOK, KernTypeOK, DumpTypeOK, ParentTypeOK
  <1>8. CASE GivesUp
    <2>1. KernTypeOK' /\ DumpTypeOK' /\ pc' \in Dumping
      BY <1>8, DumpBeginsType DEF GivesUp, FallBack, TypeOK
    <2>2. gaveUp' \in BOOLEAN
      BY <1>8 DEF GivesUp
    <2> QED
      BY <1>8, <2>1, <2>2 DEF GivesUp, AwaitReplyEnds, FallBack, tableVars, envVars, TypeOK, ParentTypeOK
  <1>9. CASE Sweep
    BY <1>9 DEF Sweep, kernVars, dumpVars, parentVars, envVars, TypeOK, KernTypeOK, DumpTypeOK, ParentTypeOK
  <1>10. CASE Answer
    <2>1. PICK id \in 1..nextId - 1 : \E r \in Replies(id) : pipe' = Append(pipe, r)
      BY <1>10 DEF Answer
    <2>2. PICK r \in Replies(id) : pipe' = Append(pipe, r)
      BY <2>1
    <2>3. id \in Nat
      BY DEF TypeOK, ParentTypeOK
    <2>4. r \in Lines
      BY <2>3, RepliesFacts
    <2>5. pipe' \in Seq(Lines \cup {Half})
      BY <2>2, <2>4, ItemsFacts DEF TypeOK, ParentTypeOK
    <2> QED
      BY <1>10, <2>5
      DEF Answer, kernVars, dumpVars, parentVars, tableVars, TypeOK, KernTypeOK, DumpTypeOK, ParentTypeOK
  <1>11. CASE AnswerHalf
    <2>1. pipe' \in Seq(Lines \cup {Half})
      BY <1>11, ItemsFacts DEF AnswerHalf, TypeOK, ParentTypeOK
    <2> QED
      BY <1>11, <2>1
      DEF AnswerHalf, kernVars, dumpVars, parentVars, tableVars, TypeOK, KernTypeOK, DumpTypeOK, ParentTypeOK
  <1>12. CASE HangUp
    BY <1>12 DEF HangUp, kernVars, dumpVars, parentVars, tableVars, TypeOK, KernTypeOK, DumpTypeOK, ParentTypeOK
  <1>13. CASE Tick
    BY <1>13 DEF Tick, kernVars, dumpVars, tableVars, envVars, TypeOK, KernTypeOK, DumpTypeOK, ParentTypeOK
  <1>14. CASE Changes
    <2>1. PICK ip \in Ips \ NotHosts : \E n \in Becomes(ip) : kern' = [kern EXCEPT ![ip] = n]
      BY <1>14 DEF Changes, Change
    <2>2. PICK n \in Becomes(ip) : kern' = [kern EXCEPT ![ip] = n]
      BY <2>1
    <2>3. n \in Nuds \cup {"absent"}
      BY DEF Becomes
    <2>4. kern' \in Rowsets
      BY <2>2, <2>3 DEF Rowsets, TypeOK, KernTypeOK
    <2>5. always' \subseteq Ips /\ ever' \subseteq Ips
      BY <1>14 DEF Changes, Change, TypeOK, KernTypeOK
    <2> QED
      BY <1>14, <2>4, <2>5
      DEF Changes, Change, dumpVars, parentVars, tableVars, TypeOK, KernTypeOK, DumpTypeOK, ParentTypeOK
  <1>15. CASE UNCHANGED vars
    BY <1>15 DEF vars, kernVars, dumpVars, parentVars, tableVars, envVars, TypeOK, KernTypeOK, DumpTypeOK,
                 ParentTypeOK
  <1> QED
    BY <1>1, <1>2, <1>3, <1>4, <1>5, <1>6, <1>7, <1>8, <1>9, <1>10, <1>11, <1>12, <1>13, <1>14, <1>15 DEF Next

(* Nothing is on its way that was not, but for what the parent says now. *)
LEMMA ComingStep ==
  ASSUME TypeOK, [Next]_vars, NEW t \in Coming'
  PROVE  t \in Coming \/ (Answer /\ \E id \in 1..nextId - 1 : t \in Replies(id))
  <1> DEFINE T == Lines \cup {Half}
  <1>1. pending \in Seq(T) /\ pipe \in Seq(T)
    BY DEF TypeOK, ParentTypeOK
  <1>2. t \in Items(pending)' \cup Items(pipe)' /\ t.what = "line"
    BY DEF Coming
  <1>3. CASE pending' = pending /\ pipe' = pipe
    BY <1>2, <1>3 DEF Coming, Items
  <1>4. CASE Line
    <2>1. FirstLine \in 1..Len(pending)
      BY <1>4, FirstLineFacts DEF Line, TypeOK
    <2>2. Items(pending') \subseteq Items(pending) /\ pipe' = pipe
      BY <1>1, <1>4, <2>1, ItemsFacts DEF Line, envVars
    <2>3. Items(pending)' = Items(pending') /\ Items(pipe)' = Items(pipe')
      BY DEF Items
    <2> QED
      BY <1>2, <2>2, <2>3 DEF Coming
  <1>5. CASE Chunk
    <2>1. Items(pending') = Items(pending) \cup Items(pipe) /\ Items(pipe') = {}
      <3>1. Items(pending') = Items(pending) \cup Items(pipe)
        BY <1>1, <1>5, ItemsFacts DEF Chunk
      <3>2. Len(pipe') = 0
        BY <1>5 DEF Chunk
      <3>3. \A k \in 1..Len(pipe') : FALSE
        BY <3>2
      <3> QED
        BY <3>1, <3>3 DEF Items
    <2>2. Items(pending)' = Items(pending') /\ Items(pipe)' = Items(pipe')
      BY DEF Items
    <2> QED
      BY <1>2, <2>1, <2>2 DEF Coming
  <1>6. CASE Answer
    <2>1. PICK id \in 1..nextId - 1 : \E r \in Replies(id) : pipe' = Append(pipe, r)
      BY <1>6 DEF Answer
    <2>2. PICK r \in Replies(id) : pipe' = Append(pipe, r)
      BY <2>1
    <2>3. id \in Nat
      BY DEF TypeOK, ParentTypeOK
    <2>4. r \in T
      BY <2>3, RepliesFacts
    <2>5. Items(pipe') = Items(pipe) \cup {r} /\ pending' = pending
      BY <1>1, <1>6, <2>2, <2>4, ItemsFacts DEF Answer, parentVars
    <2>6. Items(pending)' = Items(pending') /\ Items(pipe)' = Items(pipe')
      BY DEF Items
    <2> QED
      BY <1>2, <1>6, <2>5, <2>6 DEF Coming
  <1>7. CASE AnswerHalf
    <2>1. Items(pipe') = Items(pipe) \cup {Half} /\ pending' = pending
      BY <1>1, <1>7, ItemsFacts DEF AnswerHalf, parentVars
    <2>2. Items(pending)' = Items(pending') /\ Items(pipe)' = Items(pipe')
      BY DEF Items
    <2> QED
      BY <1>2, <2>1, <2>2 DEF Coming, Half
  <1>8. CASE GivesUp
    <2>1. Len(pending') = 0 /\ Len(pipe') = 0
      BY <1>8 DEF GivesUp
    <2>2. (\A k \in 1..Len(pending') : FALSE) /\ (\A k \in 1..Len(pipe') : FALSE)
      BY <2>1
    <2>3. Items(pending)' = {} /\ Items(pipe)' = {}
      BY <2>2 DEF Items
    <2> QED
      BY <2>3 DEF Coming
  <1>9. \/ pending' = pending /\ pipe' = pipe
        \/ Line \/ Chunk \/ Answer \/ AnswerHalf \/ GivesUp
    BY DEF Next, Request, ReadKernel, KernelStep, KernelRead, Wait, Sweep, HangUp, Tick, Changes,
           vars, parentVars, envVars
  <1> QED
    BY <1>3, <1>4, <1>5, <1>6, <1>7, <1>8, <1>9

-----------------------------------------------------------------------------
(* The dump. *)

(* It begins with what is live now, and nothing read. *)
LEMMA DumpBeginsInv ==
  ASSUME TypeOK, DumpInv, DumpBegins, UNCHANGED <<platform, hidden, up, kern>>
  PROVE  DumpInv'
  <1>1. Listed(Ips)' = Listed(Ips)
    BY DEF Listed
  <1>2. Listing(list') = {} /\ Listing(list)' = {}
    BY DEF DumpBegins, Listing
  <1> QED
    BY <1>1, <1>2 DEF DumpInv, DumpBegins, Dumping, DumpComplete

(* Its steps: each part read is taken off what is to come; a read of the whole
   has all of it. *)
LEMMA DumpStepInv ==
  ASSUME TypeOK, DumpInv, DumpStep
  PROVE  DumpInv'
  <1>1. UNCHANGED <<platform, hidden, up, kern, always, ever>>
    BY DumpStepType DEF TypeOK, kernVars
  <1>2. Listed(Ips)' = Listed(Ips) /\ Listing(list)' = Listing(list')
    BY <1>1 DEF Listed, Listing
  <1>3. Listing({}) = {}
    BY DEF Listing
  <1>4. \A S \in SUBSET Ips : Listing(Add(S)) = Listing(list) \cup Listed(S) /\ Listed(S) \subseteq Listed(Ips)
    BY AddFacts DEF TypeOK, DumpTypeOK, Listed
  <1>5. \A S : Listed(S) \cap NotHosts = {}
    BY DEF Listed
  <1>6. CASE DumpFails
    BY <1>1, <1>2, <1>3, <1>6 DEF DumpFails, Dumped, DumpInv, Dumping, DumpComplete
  <1>7. CASE LinuxRequest
    BY <1>1, <1>2, <1>7 DEF LinuxRequest, DumpInv, Dumping, DumpComplete, TypeOK, KernTypeOK
  <1>8. CASE LinuxPart
    <2>1. PICK S \in SUBSET todo : list' = Add(S) /\ todo' = todo \ S
      BY <1>8 DEF LinuxPart
    <2>2. S \in SUBSET Ips
      BY DEF TypeOK, DumpTypeOK
    <2>3. Listing(list)' = Listing(list) \cup Listed(S) /\ Listed(S) \subseteq Listed(Ips)
      BY <1>2, <1>4, <2>1, <2>2
    <2>4. pc = "part" /\ pc' = "part" /\ ~hidden
      BY <1>8 DEF LinuxPart, DumpInv
    <2>5. Listing(list)' \subseteq ever \ NotHosts
      BY <1>5, <2>3, <2>4 DEF DumpInv, Dumping
    <2>6. always \subseteq Listing(list)' \cup todo'
      <3>1. \A ip \in Listed(Ips) : ip \in S => ip \in Listed(S)
        BY DEF Listed
      <3> QED
        BY <2>1, <2>3, <2>4, <3>1 DEF DumpInv, Dumping
    <2> QED
      BY <1>1, <1>2, <2>4, <2>5, <2>6 DEF DumpInv, Dumping, DumpComplete
  <1>9. CASE LinuxDone
    <2>1. pc = "part" /\ pc' = "dumped" /\ ok' /\ todo = {} /\ list' = list
      BY <1>9 DEF LinuxDone, Dumped
    <2>2. always \subseteq Listing(list) /\ Listing(list) \subseteq ever \ NotHosts
      BY <2>1 DEF DumpInv, Dumping
    <2> QED
      BY <1>1, <1>2, <2>1, <2>2 DEF DumpInv, Dumping, DumpComplete
  <1>10. CASE WindowsDump
    <2>1. /\ pc = "open" /\ pc' = "dumped" /\ ok' /\ ~hidden /\ list = {} /\ list' = Add(Ips)
      BY <1>10 DEF WindowsDump, Dumped, DumpInv
    <2>2. Listing(list)' = Listed(Ips)
      BY <1>2, <1>3, <1>4, <2>1
    <2> QED
      BY <1>1, <1>2, <1>5, <2>1, <2>2 DEF DumpInv, Dumping, DumpComplete
  <1>11. CASE MacSize
    BY <1>1, <1>2, <1>11 DEF MacSize, DumpInv, Dumping, DumpComplete
  <1>12. CASE MacRead
    <2>1. pc = "read" /\ list = {}
      BY <1>12 DEF MacRead, DumpInv
    <2>2. CASE list' = Add(Rows) /\ Dumped(TRUE)
      <3>1. Listing(list)' = Listed(Rows) /\ Listed(Rows) \subseteq Listed(Ips)
        BY <1>2, <1>3, <1>4, <2>1, <2>2, RowsFacts
      <3>2. ~hidden => Listed(Ips) \subseteq Listed(Rows)
        BY DEF Listed, Rows, Dead
      <3>3. hidden => list' = {}
        BY <2>1, <2>2 DEF Rows, Add, Listed
      <3>4. hidden => Listing(list)' = {}
        BY <1>2, <1>3, <3>3
      <3>5. pc' = "dumped" /\ ok'
        BY <2>2 DEF Dumped
      <3>6. always \subseteq Listing(list)' /\ Listing(list)' \subseteq ever \ NotHosts
        BY <1>5, <2>1, <3>1, <3>2, <3>4 DEF DumpInv, Dumping
      <3> QED
        BY <1>1, <1>2, <2>1, <3>3, <3>5, <3>6 DEF DumpInv, Dumping, DumpComplete
    <2>3. CASE pc' = "size" /\ list' = list
      BY <1>1, <1>2, <2>1, <2>3 DEF DumpInv, Dumping, DumpComplete
    <2>4. CASE list' = {} /\ Dumped(FALSE)
      <3>1. pc' = "dumped" /\ ~ok' /\ list' = {} /\ Listing(list)' = {}
        BY <1>2, <1>3, <2>4 DEF Dumped
      <3> QED
        BY <1>1, <1>2, <2>1, <3>1 DEF DumpInv, Dumping, DumpComplete
    <2> QED
      BY <1>12, <2>2, <2>3, <2>4 DEF MacRead
  <1> QED
    BY <1>6, <1>7, <1>8, <1>9, <1>10, <1>11, <1>12 DEF DumpStep

(* Outside a dump only the kernel's changes touch what it is measured by. *)
LEMMA DumpInvStep == ASSUME TypeOK, DumpInv, [Next]_vars PROVE DumpInv'
  <1>1. CASE DumpBegins /\ UNCHANGED <<platform, hidden, up, kern>>
    BY <1>1, DumpBeginsInv
  <1>2. CASE DumpStep
    BY <1>2, DumpStepInv
  <1>3. CASE KernelRead
    BY <1>3 DEF KernelRead, Got, DumpInv, Dumping, DumpComplete
  <1>4. CASE pc' \notin Dumping /\ UNCHANGED <<platform, hidden, list>>
    BY <1>4 DEF DumpInv, Dumping, DumpComplete
  <1>5. CASE Changes
    <2>1. /\ UNCHANGED <<pc, platform, hidden, up, todo, list>> /\ pc \in {"part", "read", "sweep"}
          /\ always' = {ip \in always : ~Dead(kern'[ip])}
          /\ ever' = IF hidden THEN {} ELSE ever \cup {ip \in Ips \ NotHosts : ~Dead(kern'[ip])}
      BY <1>5 DEF Changes, Change, dumpVars
    <2>2. Listed(Ips)' = {ip \in Ips \ NotHosts : ~Dead(kern'[ip])} /\ Listing(list)' = Listing(list)
      BY <2>1 DEF Listed, Listing
    <2>3. pc \in Dumping => always' \subseteq Listed(Ips)' /\ always' \subseteq always
      <3>1. pc \in Dumping => \A ip \in always : ip \in Ips \ NotHosts
        BY DEF DumpInv, Listed
      <3> QED
        BY <2>1, <2>2, <3>1
    <2>4. CASE pc = "sweep"
      BY <2>1, <2>4 DEF DumpInv, Dumping, DumpComplete
    <2>5. CASE pc \in {"part", "read"}
      <3>1. pc \in Dumping
        BY <2>5 DEF Dumping
      <3>2. hidden => Listing(list) = {}
        BY DEF DumpInv, Listing
      <3>3. Listing(list)' \subseteq ever' \ NotHosts
        BY <2>1, <2>2, <3>1, <3>2 DEF DumpInv
      <3> QED
        BY <2>1, <2>2, <2>3, <2>5, <3>1, <3>3 DEF DumpInv, DumpComplete
    <2> QED
      BY <2>1, <2>4, <2>5
  <1>6. CASE UNCHANGED <<pc, kernVars, dumpVars>>
    <2>1. Listed(Ips)' = Listed(Ips) /\ Listing(list)' = Listing(list)
      BY <1>6 DEF Listed, Listing, kernVars, dumpVars
    <2> QED
      BY <1>6, <2>1 DEF DumpInv, DumpComplete, kernVars, dumpVars
  <1>7. \/ DumpBegins /\ UNCHANGED <<platform, hidden, up, kern>>
        \/ DumpStep \/ KernelRead \/ Changes
        \/ pc' \notin Dumping /\ UNCHANGED <<platform, hidden, list>>
        \/ UNCHANGED <<pc, kernVars, dumpVars>>
    <2>1. Request => pc' \notin Dumping /\ UNCHANGED <<platform, hidden, list>>
      BY DEF Request, Dumping, kernVars, dumpVars
    <2>2. ReadKernel \/ GivesUp => DumpBegins /\ UNCHANGED <<platform, hidden, up, kern>>
      BY DEF ReadKernel, GivesUp, FallBack
    <2>3. ASSUME Line
          PROVE  \/ DumpBegins /\ UNCHANGED <<platform, hidden, up, kern>>
                 \/ pc' \notin Dumping /\ UNCHANGED <<platform, hidden, list>>
                 \/ UNCHANGED <<pc, kernVars, dumpVars>>
      BY <2>3 DEF Line, FallBack, Got, Dumping, kernVars, dumpVars
    <2>4. Wait \/ Sweep => pc' \notin Dumping /\ UNCHANGED <<platform, hidden, list>>
      BY DEF Wait, Sweep, Dumping, kernVars, dumpVars
    <2>5. Chunk => pc' \notin Dumping /\ UNCHANGED <<platform, hidden, list>>
      BY DEF Chunk, Dumping, kernVars, dumpVars
    <2>6. Answer \/ AnswerHalf \/ HangUp \/ Tick \/ UNCHANGED vars => UNCHANGED <<pc, kernVars, dumpVars>>
      BY DEF Answer, AnswerHalf, HangUp, Tick, vars, kernVars, dumpVars
    <2> QED
      BY <2>1, <2>2, <2>3, <2>4, <2>5, <2>6 DEF Next, KernelStep
  <1> QED
    BY <1>1, <1>2, <1>3, <1>4, <1>5, <1>6, <1>7

-----------------------------------------------------------------------------
(* The order of requests and replies. *)

(* A reply that is taken answers the request just made. *)
LEMMA TakenIsLater ==
  ASSUME TypeOK, OrderInv, pc \in {"line", "poll"}, NEW t \in Coming, ~IsEarlier(t), t.kind = "table"
  PROVE  round = 2 => t.round = 2
  <1>1. t \in Lines
    BY ComingFacts DEF TypeOK
  <1> QED
    BY <1>1 DEF OrderInv, IsEarlier, TypeOK, Lines

(* The second table's round. *)
LEMMA GotOrder ==
  ASSUME TypeOK, after.known => after.round = 2, NEW table \in Tables, Got(table),
         round = 2 => table.round = 2
  PROVE  (after'.known => after'.round = 2) /\ (pc' = "sweep" => round = 1) /\ pc' \in {"sweep", "done"}
  BY DEF TypeOK, Got

(* Requests are made once a round; replies come after them. *)
LEMMA OrderStep == ASSUME TypeOK, OrderInv, [Next]_vars PROVE OrderInv'
  <1>0. Coming \subseteq Lines
    BY ComingFacts DEF TypeOK
  <1>1. ASSUME round' \in Nat, round' >= round
        PROVE  \A t \in Coming' : t.id <= t.round /\ t.round <= round'
    <2>1. ASSUME NEW t \in Coming' PROVE t.id <= t.round /\ t.round <= round'
      <3>1. CASE t \in Coming
        BY <1>0, <1>1, <3>1 DEF OrderInv, TypeOK, Lines
      <3>2. CASE \E id \in 1..nextId - 1 : t \in Replies(id)
        <4>1. PICK id \in 1..nextId - 1 : t \in Replies(id)
          BY <3>2
        <4>2. id \in Nat /\ id <= round
          BY DEF OrderInv, TypeOK, ParentTypeOK
        <4>3. t.id = id /\ t.round = round
          BY <4>1, <4>2, RepliesFacts
        <4> QED
          BY <1>1, <4>2, <4>3 DEF TypeOK
      <3> QED
        BY <3>1, <3>2, ComingStep
    <2> QED
      BY <2>1
  <1>2. CASE Request
    <2>1. round' = round /\ after' = after /\ mode' = mode /\ gaveUp' = gaveUp
      BY <1>2 DEF Request, tableVars
    <2> QED
      BY <1>1, <1>2, <2>1 DEF Request, OrderInv, TypeOK, ParentTypeOK
  <1>3. CASE ReadKernel
    <2>1. /\ pc' = "open" /\ pc = "ask" /\ (mode = "kernel" \/ gaveUp)
          /\ UNCHANGED <<nextId, gaveUp, mode, round, after>>
      BY <1>3 DEF ReadKernel, DumpBegins, parentVars, tableVars
    <2> QED
      BY <1>1, <2>1 DEF OrderInv, TypeOK
  <1>4. CASE KernelStep
    <2>1. pc' \in Dumping /\ pc \in Dumping /\ UNCHANGED <<nextId, gaveUp, mode, round, after>>
      <3>1. pc' \in Dumping
        BY <1>4, DumpStepType DEF KernelStep, TypeOK
      <3>2. pc \in Dumping
        BY <1>4 DEF KernelStep, DumpStep, DumpFails, LinuxRequest, LinuxPart, LinuxDone, WindowsDump, MacSize,
                    MacRead, Dumping
      <3> QED
        BY <1>4, <3>1, <3>2 DEF KernelStep, parentVars, tableVars
    <2> QED
      BY <1>1, <2>1 DEF OrderInv, TypeOK, Dumping
  <1>5. CASE KernelRead
    <2> DEFINE table == [known |-> ok, source |-> "kernel", round |-> round, entries |-> list]
    <2>1. table \in Tables /\ table.round = round
      BY TableFacts
    <2>2. /\ Got(table) /\ pc = "dumped"
          /\ UNCHANGED <<nextId, gaveUp, mode, round>>
      BY <1>5 DEF KernelRead, parentVars
    <2> HIDE DEF table
    <2>3. (after'.known => after'.round = 2) /\ (pc' = "sweep" => round = 1) /\ pc' \in {"sweep", "done"}
      BY <2>1, <2>2, GotOrder DEF OrderInv
    <2> QED
      BY <1>1, <2>2, <2>3 DEF OrderInv, TypeOK
  <1>6. CASE Line
    <2> DEFINE reply == pending[FirstLine]
               table == [known |-> TRUE, source |-> "parent", round |-> reply.round,
                         entries |-> {e \in reply.entries : e.ip \notin NotHosts}]
    <2>1. reply \in Lines /\ reply \in Coming
      BY <1>6, FirstLineFacts DEF Line, TypeOK
    <2>2. pc = "line" /\ UNCHANGED <<nextId, gaveUp>>
      BY <1>6 DEF Line
    <2>3. CASE UNCHANGED <<pc, mode, round, after>>
      BY <1>1, <2>2, <2>3 DEF OrderInv, TypeOK
    <2>4. CASE ~IsEarlier(reply) /\ reply.kind = "table" /\ Got(table) /\ UNCHANGED <<mode, round>>
      <3>1. table \in Tables /\ table.round = reply.round
        BY <2>1, TableFacts
      <3>2. round = 2 => table.round = 2
        BY <2>1, <2>2, <2>4, <3>1, TakenIsLater
      <3> HIDE DEF table
      <3>3. (after'.known => after'.round = 2) /\ (pc' = "sweep" => round = 1) /\ pc' \in {"sweep", "done"}
        BY <2>4, <3>1, <3>2, GotOrder DEF OrderInv
      <3> QED
        BY <1>1, <2>2, <2>4, <3>3 DEF OrderInv, TypeOK
    <2>5. CASE FallBack
      BY <1>1, <2>2, <2>5 DEF FallBack, DumpBegins, tableVars, OrderInv, TypeOK
    <2> QED
      BY <1>6, <2>3, <2>4, <2>5 DEF Line, tableVars
  <1>7. CASE Wait \/ Chunk
    <2>1. /\ pc \in {"line", "poll"} /\ pc' \in {"line", "poll"}
          /\ UNCHANGED <<nextId, gaveUp, mode, round, after>>
      BY <1>7 DEF Wait, Chunk, tableVars
    <2> QED
      BY <1>1, <2>1 DEF OrderInv, TypeOK
  <1>8. CASE GivesUp
    <2>1. pc' = "open" /\ gaveUp' /\ UNCHANGED <<nextId, mode, round, after>>
      BY <1>8 DEF GivesUp, FallBack, DumpBegins, tableVars
    <2> QED
      BY <1>1, <2>1 DEF OrderInv, TypeOK
  <1>9. CASE Sweep
    <2>1. pc = "sweep" /\ pc' = "ask" /\ round' = 2 /\ UNCHANGED <<nextId, gaveUp, mode, after>>
      BY <1>9 DEF Sweep, parentVars
    <2> QED
      BY <1>1, <2>1 DEF OrderInv, TypeOK, ParentTypeOK
  <1>10. CASE UNCHANGED <<pc, nextId, gaveUp, mode, round, after>>
    BY <1>1, <1>10 DEF OrderInv, TypeOK
  <1>11. Answer \/ AnswerHalf \/ HangUp \/ Tick \/ Changes \/ UNCHANGED vars
           => UNCHANGED <<pc, nextId, gaveUp, mode, round, after>>
    BY DEF Answer, AnswerHalf, HangUp, Tick, Changes, Change, vars, parentVars, tableVars
  <1> QED
    BY <1>2, <1>3, <1>4, <1>5, <1>6, <1>7, <1>8, <1>9, <1>10, <1>11 DEF Next

-----------------------------------------------------------------------------
(* The wait. *)

(* Each split is worth one timeout. *)
LEMMA Budget ==
  ASSUME NEW s \in Nat
  PROVE  /\ (1 + s) * Timeout \in Nat /\ Timeout <= (1 + s) * Timeout
         /\ (1 + (s + 1)) * Timeout = (1 + s) * Timeout + Timeout
  <1>1. PICK t \in Nat : t = Timeout
    BY TableAssumption
  <1>2. (1 + s) * t = t + s * t /\ s * t \in Nat /\ (1 + (s + 1)) * t = (1 + s) * t + t
    OBVIOUS
  <1> QED
    BY <1>1, <1>2

(* A poll begins with what is left, and begins anew after a split. *)
LEMMA WaitStep == ASSUME TypeOK, WaitInv, [Next]_vars PROVE WaitInv'
  <1> DEFINE B == (1 + splits) * Timeout
  <1>1. B \in Nat /\ Timeout <= B /\ (1 + (splits + 1)) * Timeout = B + Timeout
    BY Budget DEF TypeOK, ParentTypeOK
  <1>2. waited \in Nat /\ left \in Nat /\ pollEnd \in Nat /\ splits \in Nat /\ Timeout \in Nat
    BY TableAssumption DEF TypeOK, ParentTypeOK
  <1>3. waited <= B /\ (pc = "poll" => left <= Timeout /\ waited <= pollEnd /\ pollEnd <= B)
    BY DEF WaitInv, WaitIsBounded
  <1>4. CASE waited' = 0 /\ splits' = 0 /\ pc' # "poll"
    <2>1. 0 <= (1 + 0) * Timeout
      BY <1>2
    <2> QED
      BY <1>4, <2>1 DEF WaitInv, WaitIsBounded
  <1>5. CASE Wait
    <2>1. TimeLeft \in Nat /\ TimeLeft <= Timeout /\ waited <= waited + TimeLeft /\ waited + TimeLeft <= B
      BY <1>1, <1>2, <1>3 DEF TimeLeft
    <2>2. left' = TimeLeft /\ pollEnd' = waited + TimeLeft /\ waited' = waited /\ splits' = splits
      BY <1>5 DEF Wait
    <2> QED
      BY <1>3, <2>1, <2>2 DEF WaitInv, WaitIsBounded
  <1>6. CASE Chunk
    <2>1. waited' = waited /\ left' = left /\ pc = "poll"
      BY <1>6 DEF Chunk
    <2>2. CASE pc' = "line" /\ pollEnd' = pollEnd /\ splits' = splits
      BY <1>3, <2>1, <2>2 DEF WaitInv, WaitIsBounded
    <2>3. CASE pollEnd' = waited + left /\ splits' = splits + 1 /\ pc' = pc
      <3>1. (1 + splits') * Timeout = B + Timeout
        BY <1>1, <2>3
      <3>2. waited <= B + Timeout /\ waited <= waited + left /\ waited + left <= B + Timeout
        BY <1>1, <1>2, <1>3, <2>1
      <3> HIDE DEF B
      <3> QED
        BY <1>3, <2>1, <2>3, <3>1, <3>2 DEF WaitInv, WaitIsBounded
    <2> QED
      BY <1>6, <2>2, <2>3 DEF Chunk
  <1>7. CASE Tick
    <2>1. /\ pc = "poll" /\ waited < pollEnd /\ waited' = waited + 1
          /\ UNCHANGED <<pc, left, pollEnd, splits>>
      BY <1>7 DEF Tick
    <2>2. waited + 1 <= pollEnd /\ waited + 1 <= B
      BY <1>1, <1>2, <1>3, <2>1
    <2> QED
      BY <1>3, <2>1, <2>2 DEF WaitInv, WaitIsBounded
  <1>8. CASE UNCHANGED <<waited, left, pollEnd, splits>> /\ (pc' = "poll" => pc = "poll")
    BY <1>8 DEF WaitInv, WaitIsBounded
  <1>9. Request => waited' = 0 /\ splits' = 0 /\ pc' # "poll"
    BY DEF Request
  <1>10. GivesUp => waited' = 0 /\ splits' = 0 /\ pc' # "poll"
    BY DEF GivesUp, AwaitReplyEnds, FallBack, DumpBegins
  <1>11. ASSUME Line
         PROVE  \/ waited' = 0 /\ splits' = 0 /\ pc' # "poll"
                \/ UNCHANGED <<waited, left, pollEnd, splits>> /\ (pc' = "poll" => pc = "poll")
    BY <1>11 DEF Line, AwaitReplyEnds, FallBack, DumpBegins, Got
  <1>12. ReadKernel \/ KernelRead \/ Sweep
           => UNCHANGED <<waited, left, pollEnd, splits>> /\ (pc' = "poll" => pc = "poll")
    BY DEF ReadKernel, DumpBegins, KernelRead, Got, Sweep, parentVars
  <1>13. KernelStep => UNCHANGED <<waited, left, pollEnd, splits>> /\ (pc' = "poll" => pc = "poll")
    BY DumpStepType DEF KernelStep, TypeOK, Dumping, parentVars
  <1>14. Answer \/ AnswerHalf \/ HangUp \/ Changes \/ UNCHANGED vars
           => UNCHANGED <<waited, left, pollEnd, splits>> /\ (pc' = "poll" => pc = "poll")
    BY DEF Answer, AnswerHalf, HangUp, Changes, Change, parentVars, vars
  <1> QED
    BY <1>4, <1>5, <1>6, <1>7, <1>8, <1>9, <1>10, <1>11, <1>12, <1>13, <1>14 DEF Next

-----------------------------------------------------------------------------
(* The results without an assumption on the rows' states. *)

LEMMA InitIInv == Init => IInv
  <1> SUFFICES ASSUME Init PROVE IInv
    OBVIOUS
  <1>1. Len(pending) = 0 /\ Len(pipe) = 0
    BY DEF Init
  <1>2. Coming = {}
    BY <1>1 DEF Coming, Items
  <1>3. DumpInv
    BY DEF Init, DumpInv, Dumping, DumpComplete
  <1>4. OrderInv
    BY <1>2 DEF Init, OrderInv, NoTable
  <1>5. WaitInv
    <2>1. 0 <= (1 + 0) * Timeout
      BY TableAssumption
    <2> QED
      BY <2>1 DEF Init, WaitInv, WaitIsBounded
  <1> QED
    BY <1>3, <1>4, <1>5, InitTypeOK DEF IInv

LEMMA StepIInv == IInv /\ [Next]_vars => IInv'
  BY TypeStep, DumpInvStep, OrderStep, WaitStep DEF IInv

(* The inductive invariant holds throughout. *)
LEMMA Invariance == Spec => []IInv
  BY InitIInv, StepIInv, PTL DEF Spec

(* Every variable of the two reads keeps its type: the pipe and the buffer
   hold lines and halves, the tables hold entries of known addresses. *)
THEOREM TypeCorrect == Spec => []TypeOK
  <1>1. IInv => TypeOK
    BY DEF IInv
  <1> QED
    BY <1>1, Invariance, PTL

(* dump_neighbors, whatever the table does under it: complete if it succeeds,
   empty if it fails. *)
THEOREM DumpTheorem == Spec => []DumpComplete
  <1>1. IInv => DumpComplete
    BY DEF IInv, DumpInv
  <1> QED
    BY <1>1, Invariance, PTL

(* Whatever the parent sends, and when, the harvest's table is the one read
   after the sweep. *)
THEOREM OrderTheorem == Spec => []SecondReadIsLater
  <1>1. IInv => SecondReadIsLater
    BY DEF IInv, OrderInv, SecondReadIsLater
  <1> QED
    BY <1>1, Invariance, PTL

(* awaitReply's wait is bounded, by one timeout_ms and one more for each line
   that came in pieces. *)
THEOREM WaitTheorem == Spec => []WaitIsBounded
  <1>1. IInv => WaitIsBounded
    BY DEF IInv, WaitInv
  <1> QED
    BY <1>1, Invariance, PTL

-----------------------------------------------------------------------------
(* What the harvest reports at once, where no row is ever in delay. *)

(* A row of a host that does not answer only fades. *)
LEMMA ChangeFades ==
  ASSUME "delay" \notin Nuds, TypeOK, FadingInv, Change
  PROVE  OldLive' \subseteq OldLive /\ \A ip \in Ips \ up : ~Reachable(kern'[ip])
  <1>1. PICK ip \in Ips \ NotHosts : \E n \in Becomes(ip) : kern' = [kern EXCEPT ![ip] = n]
    BY DEF Change
  <1>2. PICK n \in Becomes(ip) : kern' = [kern EXCEPT ![ip] = n]
    BY <1>1
  <1>3. up' = up /\ kern'[ip] = n /\ \A m \in Ips : m # ip => kern'[m] = kern[m]
    BY <1>2 DEF Change, TypeOK, KernTypeOK, Rowsets
  <1>4. kern[ip] # "delay"
    BY DEF TypeOK, KernTypeOK, Rowsets
  <1>5. ip \notin up => ~Reachable(n) /\ (~Dead(n) => ~Dead(kern[ip]))
    BY <1>2, <1>4 DEF Becomes, Reachable, Dead
  <1>6. OldLive' \subseteq OldLive
    BY <1>3, <1>5 DEF OldLive
  <1>7. \A m \in Ips \ up : ~Reachable(kern'[m])
    BY <1>3, <1>5 DEF FadingInv
  <1> QED
    BY <1>6, <1>7

(* Who answers, and whether the table is hidden, does not change; and rows of
   the others only fade. *)
LEMMA StepFades ==
  ASSUME "delay" \notin Nuds, TypeOK, FadingInv, [Next]_vars
  PROVE  /\ UNCHANGED <<platform, hidden, up>> /\ OldLive' \subseteq OldLive
         /\ \A ip \in Ips \ up : ~Reachable(kern'[ip])
  <1>1. UNCHANGED <<platform, hidden, up>> /\ (kern' = kern \/ Change)
    <2>1. CASE KernelStep
      BY <2>1, DumpStepType DEF KernelStep, TypeOK, kernVars
    <2>2. CASE Line
      BY <2>2 DEF Line, FallBack, kernVars
    <2>3. CASE Request \/ ReadKernel \/ KernelRead \/ Wait \/ Chunk \/ GivesUp \/ Sweep
      BY <2>3 DEF Request, ReadKernel, KernelRead, Wait, Chunk, GivesUp, FallBack, Sweep, kernVars
    <2>4. CASE Answer \/ AnswerHalf \/ HangUp \/ Tick \/ Changes \/ UNCHANGED vars
      BY <2>4 DEF Answer, AnswerHalf, HangUp, Tick, Changes, Change, vars, kernVars
    <2> QED
      BY <2>1, <2>2, <2>3, <2>4 DEF Next
  <1>2. CASE kern' = kern
    BY <1>1, <1>2 DEF OldLive, FadingInv
  <1>3. CASE Change
    BY <1>1, <1>3, ChangeFades
  <1> QED
    BY <1>1, <1>2, <1>3

(* Where an entry of the dump comes from. *)
LEMMA ListStep ==
  ASSUME TypeOK, [Next]_vars, NEW e \in list'
  PROVE  \/ e \in list /\ (pc' \in Dumping => pc \in Dumping)
         \/ DumpStep /\ \E ip \in Ips \ NotHosts : ~Dead(kern[ip]) /\ e = Entry(ip)
  <1>1. CASE list' = {}
    BY <1>1
  <1>2. CASE KernelStep
    <2>1. pc \in Dumping
      BY <1>2 DEF KernelStep, DumpStep, DumpFails, LinuxRequest, LinuxPart, LinuxDone, WindowsDump, MacSize,
                  MacRead, Dumping
    <2>2. list' \in {{}, list} \/ \E S \in SUBSET Ips : list' = Add(S)
      BY <1>2, RowsFacts DEF KernelStep, DumpStep, DumpFails, LinuxRequest, LinuxPart, LinuxDone, WindowsDump,
                  MacSize, MacRead, TypeOK, DumpTypeOK
    <2>3. \A S \in SUBSET Ips : \A d \in Add(S) : d \in list \/ \E ip \in Listed(S) : d = Entry(ip)
      BY AddFacts DEF TypeOK, DumpTypeOK
    <2>4. \A S \in SUBSET Ips : \A ip \in Listed(S) : ip \in Ips \ NotHosts /\ ~Dead(kern[ip])
      BY DEF Listed
    <2> QED
      BY <1>2, <2>1, <2>2, <2>3, <2>4 DEF KernelStep
  <1>3. CASE list' = list /\ (pc' \in Dumping => pc \in Dumping)
    BY <1>3
  <1>4. CASE Line
    BY <1>1, <1>3, <1>4 DEF Line, FallBack, DumpBegins, Got, dumpVars, Dumping
  <1>5. Request \/ Wait \/ Sweep => list' = list /\ (pc' \in Dumping => pc \in Dumping)
    BY DEF Request, Wait, Sweep, Dumping, dumpVars
  <1>6. Chunk => list' = list /\ (pc' \in Dumping => pc \in Dumping)
    BY DEF Chunk, Dumping, dumpVars
  <1>7. ReadKernel \/ GivesUp \/ KernelRead => list' = {}
    BY DEF ReadKernel, GivesUp, FallBack, DumpBegins, KernelRead
  <1>8. Answer \/ AnswerHalf \/ HangUp \/ Tick \/ Changes \/ UNCHANGED vars
          => list' = list /\ (pc' \in Dumping => pc \in Dumping)
    BY DEF Answer, AnswerHalf, HangUp, Tick, Changes, Change, vars, dumpVars
  <1> QED
    BY <1>1, <1>2, <1>3, <1>4, <1>5, <1>6, <1>7, <1>8 DEF Next

(* Fading: what is read off a row is no better than the row. *)
LEMMA FadingStep ==
  ASSUME "delay" \notin Nuds, TypeOK, FadingInv, [Next]_vars
  PROVE  FadingInv'
  <1>1. up' = up /\ \A ip \in Ips \ up : ~Reachable(kern'[ip])
    BY StepFades
  <1>2. ASSUME NEW ip \in Ips, Entry(ip).state = "reachable" PROVE Entry(ip).ip \in up
    BY <1>2, EntryFacts DEF FadingInv, TypeOK
  <1>3. ASSUME NEW e \in list', e.state = "reachable" PROVE e.ip \in up
    BY <1>2, <1>3, ListStep DEF FadingInv
  <1>4. ASSUME NEW t \in Coming', NEW e \in t.entries, e.state = "reachable" PROVE e.ip \in up
    <2>1. CASE t \in Coming
      BY <1>4, <2>1 DEF FadingInv
    <2>2. CASE \E id \in 1..nextId - 1 : t \in Replies(id)
      <3>1. PICK id \in 1..nextId - 1 : t \in Replies(id)
        BY <2>2
      <3>2. id \in Nat
        BY DEF TypeOK, ParentTypeOK
      <3>3. \E ip \in Ips : e = Entry(ip)
        BY <3>1, <3>2, RepliesFacts
      <3> QED
        BY <1>2, <1>4, <3>3
    <2> QED
      BY <2>1, <2>2, ComingStep
  <1> QED
    BY <1>1, <1>3, <1>4 DEF FadingInv

(* The rows of a reply that is sent now. *)
LEMMA ReplyCovers ==
  ASSUME TypeOK, NEW id \in 1..nextId - 1, NEW t \in Replies(id)
  PROVE  /\ t.kind = "table" => OldLive \subseteq Listing(t.entries)
         /\ \A e \in t.entries : e.mac => e.ip \in up \cup NotHosts \cup OldLive
  <1>1. id \in Nat
    BY DEF TypeOK, ParentTypeOK
  <1>2. t.kind = "table" => OldLive \subseteq Listing(t.entries)
    BY <1>1, RepliesFacts DEF OldLive
  <1>3. ASSUME NEW e \in t.entries, e.mac PROVE e.ip \in up \cup NotHosts \cup OldLive
    <2>1. PICK ip \in Ips : e = Entry(ip)
      BY <1>1, RepliesFacts
    <2>2. e.ip = ip /\ ~Dead(kern[ip])
      BY <1>3, <2>1, EntryFacts DEF TypeOK
    <2> QED
      BY <2>2 DEF OldLive
  <1> QED
    BY <1>2, <1>3

(* The table a dump or a parent gives. *)
KernelTable == [known |-> ok, source |-> "kernel", round |-> round, entries |-> list]
ParentTable(r) == [known |-> TRUE, source |-> "parent", round |-> r.round,
                   entries |-> {e \in r.entries : e.ip \notin NotHosts}]

(* A table is read in these two steps only. *)
LEMMA GotWhen ==
  ASSUME TypeOK, [Next]_vars
  PROVE  \/ UNCHANGED <<before, after, fresh>> /\ (pc' = "done" <=> pc = "done")
         \/ pc = "dumped" /\ Got(KernelTable) /\ round' = round /\ pc' \in {"sweep", "done"}
         \/ /\ pc = "line" /\ round' = round /\ pc' \in {"sweep", "done"}
            /\ \E r \in Coming : ~IsEarlier(r) /\ r.kind = "table" /\ Got(ParentTable(r))
  <1>1. CASE KernelRead
    BY <1>1 DEF KernelRead, KernelTable, Got
  <1>2. CASE Line
    <2>1. pending[FirstLine] \in Coming
      BY <1>2, FirstLineFacts DEF Line, TypeOK
    <2> QED
      BY <1>2, <2>1 DEF Line, FallBack, DumpBegins, Got, ParentTable, tableVars
  <1>3. CASE KernelStep
    <2>1. pc # "done"
      BY <1>3 DEF KernelStep, DumpStep, DumpFails, LinuxRequest, LinuxPart, LinuxDone, WindowsDump, MacSize,
                  MacRead
    <2> QED
      BY <1>3, <2>1, DumpStepType DEF KernelStep, TypeOK, Dumping, tableVars
  <1>4. CASE Request \/ ReadKernel \/ Wait \/ GivesUp \/ Sweep
    BY <1>4 DEF Request, ReadKernel, Wait, GivesUp, FallBack, DumpBegins, Sweep, tableVars
  <1>5. CASE Chunk
    BY <1>5 DEF Chunk, tableVars
  <1>6. CASE Answer \/ AnswerHalf \/ HangUp \/ Tick \/ Changes \/ UNCHANGED vars
    BY <1>6 DEF Answer, AnswerHalf, HangUp, Tick, Changes, Change, vars, tableVars
  <1> QED
    BY <1>1, <1>2, <1>3, <1>4, <1>5, <1>6 DEF Next

(* What the tables hold. *)
LEMMA TableParts ==
  ASSUME NEW r
  PROVE  /\ KernelTable.known = ok /\ KernelTable.source = "kernel" /\ KernelTable.entries = list
         /\ ParentTable(r).known /\ ParentTable(r).source = "parent"
         /\ ParentTable(r).entries = {e \in r.entries : e.ip \notin NotHosts}
  BY DEF KernelTable, ParentTable

(* Cover: a dump keeps what was live throughout, and a whole first table has
   every old row. *)
LEMMA CoverStep ==
  ASSUME "delay" \notin Nuds, TypeOK, DumpInv, FadingInv, CoverInv, [Next]_vars
  PROVE  CoverInv'
  <1>1. UNCHANGED <<platform, hidden, up>> /\ OldLive' \subseteq OldLive
    BY StepFades
  <1>2. ASSUME NEW t \in Coming', t.kind = "table" PROVE OldLive' \subseteq Listing(t.entries)
    <2>1. CASE t \in Coming
      BY <1>1, <1>2, <2>1 DEF CoverInv
    <2>2. CASE \E id \in 1..nextId - 1 : t \in Replies(id)
      BY <1>1, <1>2, <2>2, ReplyCovers
    <2> QED
      BY <2>1, <2>2, ComingStep
  <1>3. Sound' => OldLive' \subseteq Listing(before'.entries)
    <2>1. CASE before' = before
      BY <1>1, <2>1 DEF CoverInv, Sound
    <2>2. CASE pc = "dumped" /\ before' = KernelTable
      <3>1. Sound' => ok /\ ~hidden /\ before'.entries = list
        BY <1>1, <2>2, TableParts DEF Sound
      <3>2. ok /\ ~hidden => OldLive \subseteq Listing(list)
        BY <2>2 DEF CoverInv, DumpInv, DumpComplete, Dumping
      <3> QED
        BY <1>1, <3>1, <3>2
    <2>3. ASSUME NEW r \in Coming, r.kind = "table", before' = ParentTable(r)
          PROVE  OldLive' \subseteq Listing(before'.entries)
      <3>1. OldLive \subseteq Listing(r.entries)
        BY <2>3 DEF CoverInv
      <3>2. before'.entries = {e \in r.entries : e.ip \notin NotHosts}
        BY <2>3, TableParts
      <3>3. ASSUME NEW ip \in OldLive PROVE ip \in Listing(before'.entries)
        <4>1. PICK e \in r.entries : e.ip = ip
          BY <3>1, <3>3 DEF Listing
        <4>2. e \in before'.entries
          BY <3>2, <4>1 DEF OldLive
        <4> QED
          BY <4>1, <4>2 DEF Listing
      <3> QED
        BY <1>1, <3>3
    <2> QED
      BY <2>1, <2>2, <2>3, GotWhen DEF Got
  <1>4. pc' \in Dumping /\ ~hidden => OldLive' \subseteq always'
    <2>1. CASE DumpBegins /\ kern' = kern
      BY <1>1, <2>1 DEF DumpBegins, OldLive, Listed
    <2>2. CASE Changes
      <3>1. pc' = pc /\ always' = {ip \in always : ~Dead(kern'[ip])}
        BY <2>2 DEF Changes, Change
      <3>2. \A ip \in OldLive' : ~Dead(kern'[ip])
        BY DEF OldLive
      <3> QED
        BY <1>1, <3>1, <3>2 DEF CoverInv
    <2>3. CASE always' = always /\ pc \in Dumping
      BY <1>1, <2>3 DEF CoverInv
    <2>4. CASE pc' \notin Dumping
      BY <2>4
    <2>5. KernelStep => always' = always /\ pc \in Dumping
      <3>1. KernelStep => always' = always
        BY DumpStepType DEF KernelStep, TypeOK, kernVars
      <3>2. KernelStep => pc \in Dumping
        BY DEF KernelStep, DumpStep, DumpFails, LinuxRequest, LinuxPart, LinuxDone, WindowsDump, MacSize,
               MacRead, Dumping
      <3> QED
        BY <3>1, <3>2
    <2>6. ASSUME Line
          PROVE  \/ DumpBegins /\ kern' = kern
                 \/ pc' \notin Dumping
      BY <2>6 DEF Line, FallBack, Got, Dumping
    <2>7. ReadKernel \/ GivesUp => DumpBegins /\ kern' = kern
      BY DEF ReadKernel, GivesUp, FallBack
    <2>8. Request \/ KernelRead \/ Wait \/ Sweep => pc' \notin Dumping
      BY DEF Request, KernelRead, Got, Wait, Sweep, Dumping
    <2>9. Chunk => pc' \notin Dumping
      BY DEF Chunk, Dumping
    <2>10. Answer \/ AnswerHalf \/ HangUp \/ Tick \/ UNCHANGED vars
             => (always' = always /\ pc \in Dumping) \/ pc' \notin Dumping
      BY DEF Answer, AnswerHalf, HangUp, Tick, vars, kernVars
    <2> QED
      BY <2>1, <2>2, <2>3, <2>4, <2>5, <2>6, <2>7, <2>8, <2>9, <2>10 DEF Next
  <1> QED
    BY <1>1, <1>2, <1>3, <1>4 DEF CoverInv

(* Held: in the second round a row that is live is one the first table has,
   or a host that answered. *)
LEMMA HeldStep ==
  ASSUME "delay" \notin Nuds, TypeOK, OrderInv, FadingInv, CoverInv, HeldInv, [Next]_vars
  PROVE  HeldInv'
  <1>1. hidden' = hidden /\ up' = up
    BY StepFades
  <1>2. \/ round' = round
        \/ Sweep
    BY DEF Next, Request, ReadKernel, KernelStep, KernelRead, Line, FallBack, Wait, Chunk, GivesUp, Answer,
           AnswerHalf, HangUp, Tick, Changes, vars, tableVars
  <1>3. CASE Sweep
    <2>1. pc' = "ask" /\ round = 1
      BY <1>3 DEF Sweep, OrderInv
    <2>2. ASSUME NEW t \in Coming' PROVE t.round # 2
      <3>1. t \in Coming
        BY <1>3, <2>1, ComingStep DEF Sweep, Answer
      <3>2. t \in Lines /\ t.round <= 1
        BY <2>1, <3>1, ComingFacts DEF OrderInv, TypeOK
      <3> QED
        BY <3>2
    <2> QED
      BY <2>1, <2>2 DEF HeldInv, Dumping
  <1>4. CASE round' = round
    <2> SUFFICES ASSUME round = 2, Sound'
                 PROVE  /\ pc' \in Dumping => \A e \in list' : Known(e)'
                        /\ \A t \in Coming' : t.round = 2 => \A e \in t.entries : Known(e)'
      BY <1>4 DEF HeldInv
    <2>1. before' = before
      BY GotWhen DEF Got
    <2>2. Sound
      BY <1>1, <2>1 DEF Sound
    <2>3. \A e : Known(e)' <=> Known(e)
      BY <1>1, <2>1 DEF Known, Listing
    <2>4. OldLive \subseteq Listing(before.entries)
      BY <2>2 DEF CoverInv
    <2>5. ASSUME pc' \in Dumping, NEW e \in list' PROVE Known(e)
      <3>1. CASE e \in list /\ pc \in Dumping
        BY <2>2, <3>1 DEF HeldInv
      <3>2. CASE \E ip \in Ips \ NotHosts : ~Dead(kern[ip]) /\ e = Entry(ip)
        <4>1. PICK ip \in Ips \ NotHosts : ~Dead(kern[ip]) /\ e = Entry(ip)
          BY <3>2
        <4>2. e.ip = ip
          BY <4>1, EntryFacts DEF TypeOK
        <4> QED
          BY <2>4, <4>1, <4>2 DEF Known, OldLive
      <3> QED
        BY <2>5, <3>1, <3>2, ListStep
    <2>6. ASSUME NEW t \in Coming', t.round = 2, NEW e \in t.entries PROVE Known(e)
      <3>1. CASE t \in Coming
        BY <2>2, <2>6, <3>1 DEF HeldInv
      <3>2. CASE \E id \in 1..nextId - 1 : t \in Replies(id)
        <4>1. e.mac => e.ip \in up \cup NotHosts \cup OldLive
          BY <2>6, <3>2, ReplyCovers
        <4> QED
          BY <2>4, <4>1 DEF Known
      <3> QED
        BY <3>1, <3>2, ComingStep
    <2> QED
      BY <2>3, <2>5, <2>6
  <1> QED
    BY <1>2, <1>3, <1>4

(* What the harvest makes of a second table that is held. *)
LEMMA HarvestOf ==
  ASSUME TypeOK, NEW table, Got(table), round = 2, hidden' = hidden, up' = up,
         \A e \in table.entries : e.state = "reachable" => e.ip \in up,
         Sound => \A e \in table.entries : Known(e),
         \A e \in table.entries : e.ip \notin NotHosts,
         table.source = "parent" \/ (hidden => table.entries = {})
  PROVE  FreshProofUnlessMixed'
  <1>1. after' = table /\ fresh' = Proof(table) /\ before' = before
    BY DEF Got
  <1>2. ASSUME NEW e \in Proof(table)
        PROVE  e.ip \in up \/ ~e.mac \/ (hidden /\ before.source = "kernel" /\ table.source = "parent")
    <2>1. e \in table.entries /\ (e.state = "reachable" \/ ResolvedDuringScan(e))
      BY DEF Proof
    <2>2. CASE e.state = "reachable"
      BY <2>1, <2>2
    <2>3. CASE ResolvedDuringScan(e) /\ Sound
      BY <2>1, <2>3 DEF ResolvedDuringScan, Known
    <2>4. CASE ResolvedDuringScan(e) /\ ~Sound
      BY <2>1, <2>4 DEF ResolvedDuringScan, Sound
    <2> QED
      BY <2>1, <2>2, <2>3, <2>4
  <1> QED
    BY <1>1, <1>2 DEF FreshProofUnlessMixed

(* The harvest of either table. *)
LEMMA HarvestStep ==
  ASSUME "delay" \notin Nuds, TypeOK, DumpInv, OrderInv, FreshInv, [Next]_vars
  PROVE  HarvestInv'
  <1>1. hidden' = hidden /\ up' = up
    BY StepFades DEF FreshInv
  <1>2. CASE UNCHANGED <<before, after, fresh>> /\ (pc' = "done" <=> pc = "done")
    BY <1>1, <1>2 DEF FreshInv, HarvestInv, FreshProofUnlessMixed
  <1>3. CASE pc = "dumped" /\ Got(KernelTable) /\ pc' \in {"sweep", "done"}
    <2>1. CASE round = 1
      BY <1>3, <2>1 DEF Got, FreshInv, HarvestInv, FreshProofUnlessMixed
    <2>2. CASE round = 2
      <3>1. \A e \in list : e.ip \notin NotHosts
        BY <1>3 DEF DumpInv, Dumping, Listing
      <3>2. pc' = "done"
        BY <1>3, <2>2 DEF Got
      <3>3. FreshProofUnlessMixed'
        <4>1. \A e \in KernelTable.entries : e.state = "reachable" => e.ip \in up
          BY TableParts DEF FreshInv, FadingInv
        <4>2. Sound => \A e \in KernelTable.entries : Known(e)
          BY <1>3, <2>2, TableParts DEF FreshInv, HeldInv, Dumping
        <4>3. \A e \in KernelTable.entries : e.ip \notin NotHosts
          BY <3>1, TableParts
        <4>4. hidden => KernelTable.entries = {}
          BY TableParts DEF DumpInv
        <4> QED
          BY <1>1, <1>3, <2>2, <4>1, <4>2, <4>3, <4>4, HarvestOf
      <3> QED
        BY <3>2, <3>3 DEF HarvestInv
    <2> QED
      BY <2>1, <2>2 DEF TypeOK
  <1>4. CASE /\ pc = "line" /\ pc' \in {"sweep", "done"}
             /\ \E r \in Coming : ~IsEarlier(r) /\ r.kind = "table" /\ Got(ParentTable(r))
    <2>1. PICK r \in Coming : ~IsEarlier(r) /\ r.kind = "table" /\ Got(ParentTable(r))
      BY <1>4
    <2>2. CASE round = 1
      BY <1>4, <2>1, <2>2 DEF Got, FreshInv, HarvestInv, FreshProofUnlessMixed
    <2>3. CASE round = 2
      <3>1. r.round = 2
        BY <1>4, <2>1, <2>3, TakenIsLater
      <3>2. pc' = "done"
        BY <2>1, <2>3 DEF Got
      <3>3. FreshProofUnlessMixed'
        <4>1. \A e \in ParentTable(r).entries : e \in r.entries /\ e.ip \notin NotHosts
          BY TableParts
        <4>2. \A e \in ParentTable(r).entries : e.state = "reachable" => e.ip \in up
          BY <4>1 DEF FreshInv, FadingInv
        <4>3. Sound => \A e \in ParentTable(r).entries : Known(e)
          BY <2>3, <3>1, <4>1 DEF FreshInv, HeldInv
        <4>4. ParentTable(r).source = "parent"
          BY TableParts
        <4> QED
          BY <1>1, <2>1, <2>3, <4>1, <4>2, <4>3, <4>4, HarvestOf
      <3> QED
        BY <3>2, <3>3 DEF HarvestInv
    <2> QED
      BY <2>2, <2>3 DEF TypeOK
  <1> QED
    BY <1>2, <1>3, <1>4, GotWhen

LEMMA InitFreshInv == Init => FreshInv
  <1> SUFFICES ASSUME Init PROVE FreshInv
    OBVIOUS
  <1>1. Len(pending) = 0 /\ Len(pipe) = 0
    BY DEF Init
  <1>2. Coming = {}
    BY <1>1 DEF Coming, Items
  <1>3. \A ip \in Ips \ up : ~Reachable(kern[ip])
    <2>1. /\ \A ip \in Ips \ (up \cup NotHosts) : ~Reachable(kern[ip])
          /\ \A ip \in NotHosts : kern[ip] = "stale"
      BY DEF Init
    <2> QED
      BY <2>1 DEF Reachable
  <1>4. FadingInv
    <2>1. list = {}
      BY DEF Init
    <2> QED
      BY <1>2, <1>3, <2>1 DEF FadingInv
  <1>5. CoverInv /\ HeldInv /\ HarvestInv
    <2>1. ~Sound
      BY DEF Init, NoTable, Sound
    <2>2. pc = "ask" /\ fresh = {}
      BY DEF Init
    <2> QED
      BY <1>2, <2>1, <2>2 DEF CoverInv, HeldInv, HarvestInv, FreshProofUnlessMixed, Dumping
  <1> QED
    BY <1>4, <1>5 DEF FreshInv

(* Where the kernel has no row in delay, which it counts as reachable before
   the host has answered, harvestArp reports without a ping only hosts that
   answered ARP during the scan, for all that the parent, the pipe and the
   kernel may do; but for a hidden table read beside the parent's, and for
   rows without a MAC. *)
THEOREM FreshTheorem ==
  ASSUME "delay" \notin Nuds
  PROVE  Spec => []FreshProofUnlessMixed
  <1>1. Init => IInv /\ FreshInv
    BY InitIInv, InitFreshInv
  <1>2. IInv /\ FreshInv /\ [Next]_vars => (IInv /\ FreshInv)'
    <2> SUFFICES ASSUME IInv, FreshInv, [Next]_vars PROVE IInv' /\ FreshInv'
      OBVIOUS
    <2>1. IInv'
      BY StepIInv
    <2>2. FadingInv' /\ CoverInv' /\ HeldInv' /\ HarvestInv'
      BY FadingStep, CoverStep, HeldStep, HarvestStep DEF IInv, FreshInv
    <2> QED
      BY <2>1, <2>2 DEF FreshInv
  <1>3. FreshInv => FreshProofUnlessMixed
    BY DEF FreshInv, HarvestInv
  <1> QED
    BY <1>1, <1>2, <1>3, PTL DEF Spec
=============================================================================
