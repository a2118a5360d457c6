--------------------------- MODULE IcmpSweepWindows ---------------------------
(***************************************************************************)
(* icmp_ping_sweep on Windows, beside the one of IcmpSweep: each echo in   *)
(* flight holds a slot, its reply buffer, from a free list; Windows times  *)
(* the echoes out itself; completion routines run on the sweep's thread,   *)
(* within its alertable waits only, and hand the slot back.                *)
(*                                                                         *)
(* State, clock and reports are those of IcmpSweep; sentAt is history here.*)
(***************************************************************************)
EXTENDS IcmpSweep, Sequences

CONSTANTS Platforms,   \* "posix", "windows"
          Nap          \* the wait when only a completion changes anything, 50 ms

ASSUME WindowsAssumption == Platforms \subseteq {"posix", "windows"} /\ Nap \in Nat \ {0}

VARIABLES
  platform,
  free,        \* free_slots
  slotHost,    \* a slot's index
  completed,   \* per slot: "none", or the outcome whose completion routine is due
  woken        \* a completion routine ran in this wait

winVars == <<platform, free, slotHost, completed, woken>>
bothVars == <<vars, winVars>>
posixOnly == <<oldest, busy, busySince, fullFrom, inbox>>

Slots == 1..(IF MaxInFlight < Count THEN MaxInFlight ELSE Count)

WinInit ==
  /\ Init
  /\ platform \in Platforms
  /\ free = [k \in Slots |-> Cardinality(Slots) + 1 - k]
  /\ slotHost = [sl \in Slots |-> Unset]
  /\ completed = [sl \in Slots |-> "none"]
  /\ woken = FALSE

\* IcmpCreateFile and the arrays.
WinOpen == Open /\ UNCHANGED winVars

WinLook ==
  /\ pc = "look"
  /\ stopped' = (stopped \/ stopReq) /\ now' = clock /\ refused' = {}
  /\ pc' = "send"
  /\ UNCHANGED <<posixOnly, result, next, sentAt, wake, alive, reports, state, inFlight, clock,
                 stopReq, replied, winVars>>

WinMaySend == ~stopped /\ next < Count /\ free # <<>> /\ SendBudget(now, next) > 0

\* ERROR_IO_PENDING: the slot at the head of the list is the echo's now.
WinSend ==
  /\ pc = "send" /\ WinMaySend
  /\ free' = Tail(free) /\ slotHost' = [slotHost EXCEPT ![Head(free)] = next]
  /\ inFlight' = inFlight + 1 /\ next' = next + 1
  /\ state' = [state EXCEPT ![next] = "inFlight"]
  /\ sentAt' = [sentAt EXCEPT ![next] = now]
  /\ UNCHANGED <<posixOnly, pc, result, now, stopped, wake, alive, reports, refused, clock, stopReq,
                 replied, platform, completed, woken>>

\* The echo finished on the spot; its slot is taken and given back at once.
WinSendFinished ==
  /\ pc = "send" /\ WinMaySend
  /\ slotHost' = [slotHost EXCEPT ![Head(free)] = next]
  /\ next' = next + 1
  /\ \/ /\ Report({next}, TRUE)
        /\ sentAt' = [sentAt EXCEPT ![next] = now] /\ replied' = replied \cup {next}
        /\ UNCHANGED refused
     \/ /\ Report({next}, FALSE)
        /\ refused' = refused \cup {next}
        /\ UNCHANGED <<sentAt, replied>>
  /\ UNCHANGED <<posixOnly, pc, result, now, stopped, wake, inFlight, clock, stopReq, platform, free,
                 completed, woken>>

WinLeave ==
  /\ pc = "send" /\ ~WinMaySend /\ Over
  /\ pc' = "done" /\ result' = "done"
  /\ UNCHANGED <<now, oldest, stopped, wake, alive, reports, state, inFlight, sendVars, worldVars,
                 winVars>>

\* alertable_wait: one pacing step when there is more to send and room for it.
WinSleep ==
  /\ pc = "send" /\ ~WinMaySend /\ ~Over
  /\ wake' = clock + (IF ~stopped /\ next < Count /\ free # <<>> THEN 1 ELSE Nap)
  /\ pc' = "poll"
  /\ UNCHANGED <<now, oldest, stopped, sweepVars, sendVars, worldVars, winVars>>

\* Mutation: the slot is free again but still counted in flight.
ReleaseUncounted(sl) == free' = <<sl>> \o free /\ UNCHANGED inFlight

Release(sl) == free' = <<sl>> \o free /\ inFlight' = inFlight - 1

\* on_reply, the completion routine of one slot.
OnReply ==
  /\ pc = "poll"
  /\ \E sl \in Slots :
       /\ completed[sl] # "none"
       /\ Report({slotHost[sl]}, completed[sl] = "reply")
       /\ Release(sl)
       /\ completed' = [completed EXCEPT ![sl] = "none"]
  /\ woken' = TRUE
  /\ UNCHANGED <<pc, result, now, oldest, stopped, wake, sendVars, worldVars, platform, slotHost>>

\* The wait is over once the routines due have run, or the time has.
WinWaitEnds ==
  /\ pc = "poll" /\ (woken \/ clock >= wake)
  /\ \A sl \in Slots : completed[sl] = "none"
  /\ pc' = "look" /\ woken' = FALSE
  /\ UNCHANGED <<now, oldest, stopped, wake, sweepVars, sendVars, worldVars, platform, free, slotHost,
                 completed>>

-----------------------------------------------------------------------------
\* External: Windows answers each echo, or times it out at most a millisecond late.

Pending(sl) == sl \notin {free[k] : k \in DOMAIN free} /\ completed[sl] = "none"

\* A reply of the host's own; a timeout, or an error relayed from a router.
Complete ==
  /\ pc = "poll" /\ platform = "windows"
  /\ \E sl \in Slots :
       /\ Pending(sl)
       /\ \/ /\ completed' = [completed EXCEPT ![sl] = "reply"]
             /\ replied' = replied \cup {slotHost[sl]}
          \/ /\ completed' = [completed EXCEPT ![sl] = "other"]
             /\ UNCHANGED replied
  /\ UNCHANGED <<pc, now, oldest, stopped, wake, sweepVars, sendVars, clock, stopReq, inbox, platform,
                 free, slotHost, woken>>

WinTick ==
  /\ Tick /\ ~woken
  /\ \A sl \in Slots : completed[sl] = "none"
  /\ \A sl \in Slots : Pending(sl) => clock <= sentAt[slotHost[sl]] + Timeout
  /\ UNCHANGED winVars

WinStep ==
  WinOpen \/ WinLook \/ WinSend \/ WinSendFinished \/ WinLeave \/ WinSleep \/ OnReply \/ WinWaitEnds

\* The thread of either build, and the clock it sees.
SweepStep ==
  \/ platform = "posix" /\ LoopStep /\ UNCHANGED winVars
  \/ platform = "windows" /\ WinStep

SweepTick ==
  \/ platform = "posix" /\ Tick /\ UNCHANGED winVars
  \/ platform = "windows" /\ WinTick

Network ==
  \/ platform = "posix" /\ (Reply \/ Stray) /\ UNCHANGED winVars
  \/ Complete

Ends == (StopRequest \/ Finished) /\ UNCHANGED winVars

SweepNext == SweepStep \/ SweepTick \/ Network \/ Ends

SweepSpec == WinInit /\ [][SweepNext]_bothVars

\* The thread runs, time passes even when a wait keeps returning at once, and
\* Windows completes what it accepted.
SweepFairSpec ==
  SweepSpec /\ WF_bothVars(SweepStep) /\ SF_bothVars(SweepTick) /\ WF_bothVars(Complete)

-----------------------------------------------------------------------------
(* in_flight is the number of echoes still waited for; and on Windows every slot
   is either in the free list, once, or the reply buffer of one host in flight:
   a slot lost would stall the sweep, one listed twice would be written by two
   echoes. *)
SlotsIntact ==
  /\ inFlight = Cardinality({h \in Hosts : state[h] = "inFlight"})
  /\ platform = "windows" =>
       LET held == Slots \ {free[k] : k \in DOMAIN free}
       IN /\ Cardinality(held) = Cardinality(Slots) - Len(free)
          /\ {h \in Hosts : state[h] = "inFlight"} = {slotHost[sl] : sl \in held}
          /\ inFlight = Cardinality(held)
=============================================================================
