----------------------------- MODULE UdpExchange -----------------------------
(***************************************************************************)
(* resolveHostName and udp_exchange_all below it: one request per method   *)
(* (0 asks NetBIOS, 1 asks mDNS unless the name was heard already), each   *)
(* on a connected socket of its own, sharing one wait; then the first      *)
(* usable answer, or reverse DNS, names the host.                          *)
(*                                                                         *)
(* A socket is named after the request it was opened for. The clock counts *)
(* milliseconds and moves only while poll waits; poll may return a         *)
(* millisecond late.                                                       *)
(***************************************************************************)
EXTENDS Integers, Sequences

CONSTANTS
  Timeout,   \* NAME_QUERY_TIMEOUT_MS
  WaitMax,   \* NS_WAIT_MAX: the most requests of a call
  Counts     \* how many a caller makes: resolveHostName one or two

ASSUME ExchangeAssumption ==
  Timeout \in Nat \ {0} /\ WaitMax \in Nat /\ Counts \subseteq 1..WaitMax

Requests == 0..(WaitMax - 1)
None == -1         \* the resp_len of a request without a reply
Never == -1        \* a time that has not come

VARIABLES
  step,      \* "send", "top", "poll", "walk", "name", "done"
  count,     \* requests of this call
  i,         \* the request to send next
  waiting, owner,       \* the sockets still waited for and whose they are
  ready, j,             \* what poll found, and where the walk over it stands
  deadline,
  start, wake,          \* of ns_wait_any: when it was called, when poll ends
  resp,      \* per request: the socket its reply came from, or None
  name,      \* what resolveHostName returned
  clock,
  inbox,     \* per socket: "empty", or what recv will find there
  arrived,   \* history: when a reply reached a socket, or Never
  closings,  \* history: how often a socket was closed
  failed     \* history: poll failed

callVars == <<count, i, waiting, owner, ready, j, deadline, start, wake>>
worldVars == <<clock, inbox, arrived>>
exchangeVars == <<step, callVars, resp, name, worldVars, closings, failed>>

ExchangeInit ==
  /\ step = "send" /\ count \in Counts /\ i = 0
  /\ waiting = <<>> /\ owner = <<>> /\ ready = {} /\ j = 0
  /\ deadline = Never /\ start = Never /\ wake = Never
  /\ resp = [r \in Requests |-> None] /\ name = "unknown"
  /\ clock = 0 /\ inbox = [s \in Requests |-> "unopened"]
  /\ arrived = [s \in Requests |-> Never] /\ closings = [s \in Requests |-> 0]
  /\ failed = FALSE

\* ns_udp_socket.
Open(s) == inbox' = [inbox EXCEPT ![s] = "empty"]

\* ns_close of every socket of S; what had reached it is gone.
Close(S) ==
  /\ closings' = [s \in Requests |-> IF s \in S THEN closings[s] + 1 ELSE closings[s]]
  /\ inbox' = [s \in Requests |-> IF s \in S THEN "closed" ELSE inbox[s]]

\* Mutation: a request that could not be sent keeps its socket.
SendFailsOpen ==
  /\ step = "send" /\ i < count
  /\ i' = i + 1
  /\ UNCHANGED <<step, count, waiting, owner, ready, j, deadline, start, wake, resp, name, clock,
                 arrived, failed, closings>>
  /\ \/ UNCHANGED inbox
     \/ Open(i)

\* No socket for request i, or it could not be connected or sent on.
SendFails ==
  /\ step = "send" /\ i < count
  /\ i' = i + 1
  /\ UNCHANGED <<step, count, waiting, owner, ready, j, deadline, start, wake, resp, name, clock,
                 arrived, failed>>
  /\ \/ UNCHANGED <<inbox, closings>>
     \/ Close({i})

Send ==
  /\ step = "send" /\ i < count
  /\ i' = i + 1
  /\ waiting' = Append(waiting, i) /\ owner' = Append(owner, i)
  /\ Open(i)
  /\ UNCHANGED <<step, count, ready, j, deadline, start, wake, resp, name, clock, arrived, closings,
                 failed>>

Sent ==
  /\ step = "send" /\ i = count
  /\ deadline' = clock + Timeout /\ step' = "top"
  /\ UNCHANGED <<count, i, waiting, owner, ready, j, start, wake, resp, name, worldVars, closings,
                 failed>>

\* The loop goes on while a socket waits and there is time left.
Wait ==
  /\ step = "top" /\ waiting # <<>> /\ clock < deadline
  /\ start' = clock /\ wake' = deadline
  /\ step' = "poll"
  /\ UNCHANGED <<count, i, waiting, owner, ready, j, deadline, resp, name, worldVars, closings, failed>>

\* Close what still waits, and leave.
CloseRest == Close({waiting[k] : k \in DOMAIN waiting}) /\ step' = "name"

WaitOver ==
  /\ step = "top" /\ (waiting = <<>> \/ clock >= deadline)
  /\ CloseRest
  /\ UNCHANGED <<callVars, resp, name, clock, arrived, failed>>

Readable == {k \in DOMAIN waiting : inbox[waiting[k]] # "empty"}

\* poll returns with every socket that has something, a pending error included.
PollReady ==
  /\ step = "poll" /\ Readable # {}
  /\ ready' = Readable
  /\ j' = Len(waiting) /\ step' = "walk"
  /\ UNCHANGED <<count, i, waiting, owner, deadline, start, wake, resp, name, worldVars, closings,
                 failed>>

\* poll's time is over with nothing there, or it fails; either ends the loop.
PollEnds ==
  /\ step = "poll"
  /\ \/ Readable = {} /\ clock >= wake /\ UNCHANGED failed
     \/ failed' = TRUE
  /\ CloseRest
  /\ UNCHANGED <<callVars, resp, name, clock, arrived>>

\* Mutation: poll starts over with the whole time.
TimeLeftWhole == deadline - start

\* What ns_wait_any has left of its timeout_ms after an interruption.
TimeLeft == deadline - start - (clock - start)

\* A signal interrupts poll: retried with the time left, if any.
Interrupted ==
  /\ step = "poll" /\ Readable = {}
  /\ IF TimeLeft > 0
       THEN wake' = clock + TimeLeft /\ UNCHANGED <<step, closings, inbox>>
       ELSE CloseRest /\ UNCHANGED wake
  /\ UNCHANGED <<count, i, waiting, owner, ready, j, deadline, start, resp, name, clock, arrived,
                 failed>>

\* The last element takes the place of the k-th.
SwapRemove(s, k) == SubSeq([s EXCEPT ![k] = s[Len(s)]], 1, Len(s) - 1)

\* Mutation: the socket is moved, its owner is not.
SettledKeepsOwner(k) ==
  /\ waiting' = SwapRemove(waiting, k) /\ owner' = SubSeq(owner, 1, Len(owner) - 1)

\* The k-th socket is settled.
Settled(k) == waiting' = SwapRemove(waiting, k) /\ owner' = SwapRemove(owner, k)

\* One turn of the walk, backwards: nothing there after all, or a reply or an
\* error that settles the request.
Walk ==
  /\ step = "walk" /\ j > 0
  /\ j' = j - 1
  /\ IF j \notin ready
       THEN UNCHANGED <<waiting, owner, resp, inbox, closings>>
     ELSE IF inbox[waiting[j]] = "corrupt"
       THEN /\ inbox' = [inbox EXCEPT ![waiting[j]] = "empty"]
            /\ UNCHANGED <<waiting, owner, resp, closings>>
     ELSE /\ resp' = [resp EXCEPT ![owner[j]] =
                        IF inbox[waiting[j]] = "refused" THEN None ELSE waiting[j]]
          /\ Close({waiting[j]})
          /\ Settled(j)
  /\ UNCHANGED <<step, count, i, ready, deadline, start, wake, name, clock, arrived, failed>>

WalkOver ==
  /\ step = "walk" /\ j = 0 /\ step' = "top"
  /\ UNCHANGED <<callVars, resp, name, worldVars, closings, failed>>

\* The exchange is the wait; what was got is looked at in this order, and a
\* reply that holds no usable name passes the turn on. resolve_ptr has a
\* usable name or not.
Name ==
  /\ step = "name" /\ step' = "done"
  /\ \E usable \in SUBSET {0, 1}, dns \in {"dns", "unknown"} :
       name' = IF resp[0] # None /\ 0 \in usable THEN "netbios"
               ELSE IF count = 1 /\ 1 \in usable THEN "heard"
               ELSE IF resp[1] # None /\ 1 \in usable THEN "mdns"
               ELSE dns
  /\ UNCHANGED <<callVars, resp, worldVars, closings, failed>>

-----------------------------------------------------------------------------
(* The host answers each request once, refuses it, or sends a datagram the  *)
(* kernel drops as corrupt only when it is read.                            *)
Arrive ==
  /\ step # "done"
  /\ \E s \in Requests, what \in {"reply", "refused", "corrupt"} :
       /\ inbox[s] = "empty" /\ arrived[s] = Never
       /\ inbox' = [inbox EXCEPT ![s] = what]
       /\ arrived' = IF what = "reply" THEN [arrived EXCEPT ![s] = clock] ELSE arrived
  /\ UNCHANGED <<step, callVars, resp, name, clock, closings, failed>>

Tick ==
  /\ step = "poll" /\ clock <= wake
  /\ clock' = clock + 1
  /\ UNCHANGED <<step, callVars, resp, name, inbox, arrived, closings, failed>>

Finished == step = "done" /\ UNCHANGED exchangeVars

ExchangeNext ==
  \/ SendFails \/ Send \/ Sent \/ Wait \/ WaitOver \/ PollReady \/ PollEnds \/ Interrupted
  \/ Walk \/ WalkOver \/ Name \/ Arrive \/ Tick \/ Finished

ExchangeSpec == ExchangeInit /\ [][ExchangeNext]_exchangeVars

-----------------------------------------------------------------------------
ExchangeTypeOK ==
  /\ step \in {"send", "top", "poll", "walk", "name", "done"} /\ count \in Counts /\ i \in 0..count
  /\ waiting \in Seq(Requests) /\ owner \in Seq(Requests) /\ Len(owner) = Len(waiting)
  /\ ready \subseteq 1..WaitMax /\ j \in 0..WaitMax
  /\ deadline \in Nat \cup {Never} /\ start \in Nat \cup {Never} /\ wake \in Nat \cup {Never}
  /\ resp \in [Requests -> Requests \cup {None}]
  /\ name \in {"netbios", "heard", "mdns", "dns", "unknown"}
  /\ clock \in Nat /\ failed \in BOOLEAN
  /\ inbox \in [Requests -> {"unopened", "empty", "reply", "refused", "corrupt", "closed"}]
  /\ arrived \in [Requests -> Nat \cup {Never}] /\ closings \in [Requests -> Nat]

(* A reply that reached its socket before the shared deadline is in its own
   request's buffer when udp_exchange_all returns, whichever other requests
   were settled, refused or moved in waiting[] meanwhile; and a buffer holds
   nothing but its own request's reply. Only a failing poll loses one. *)
InTimeIsKept ==
  \A r \in Requests :
    /\ resp[r] # None => resp[r] = r /\ arrived[r] # Never
    /\ step \in {"name", "done"} /\ ~failed /\ arrived[r] # Never /\ arrived[r] < deadline
         => resp[r] = r

(* Every socket udp_exchange_all opens is closed once and only once: sixteen
   name workers share the process's descriptors, so a second close would hit
   a socket of another. *)
SocketsClosedOnce ==
  \A s \in Requests :
    /\ closings[s] <= 1
    /\ step \in {"name", "done"} /\ inbox[s] # "unopened" => closings[s] = 1

(* The requests share one wait: interruptions, corrupt datagrams and answers
   to the other request never stretch it past the deadline, poll's own delay
   aside. *)
WaitIsShared ==
  /\ step \in {"top", "poll", "walk"} => clock <= deadline + 1
  /\ step = "poll" => wake <= deadline
=============================================================================
