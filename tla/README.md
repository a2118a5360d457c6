# NetScanner in TLA+

A verification project for NetScanner (`ns`): TLA+ modules that model the
program's scanning core, TLC configurations that model-check them on small
instances, and TLAPS proofs of the properties that matter most for every size.
Paths are relative to the repository's `src/` unless they start with `docs/`.

## 1. The system

`ns -p` scans a TCP port range of one host; `ns -s` discovers the hosts of a
subnet. Everything runs unprivileged, in one process, with a few threads.

| Component | State it keeps | Operations | Talks to |
|---|---|---|---|
| Connect engine (`core/connects.zig`) | per loop: connects in flight, held connects; shared: window, unconfirmed list, learned wait, `starved` | `run`, `connectOnce`; inside: take, start, hold, collect, done | calls the source's `next`, `done`, `waitCap` under its lock |
| Port scan (`core/scanner.zig`, `scanPorts`) | pass, two walks of the range, retry list, estimator, half units, open ports | `next`, `done`, `waitCap`, `needsThirdPass` | is the engine's source; uses the estimator and the tracker |
| Round-trip estimator (`core/rtt.zig`) | smoothed round trip and variation | `observe`, `timeoutMs` | used by the port scan |
| Progress tracker (`core/progress.zig`, `Run.advance`) | phase, total, done, last count printed | `startPhase`, `advance`, `claim`, `snapshot` | advanced by every worker, read by the status line |
| Subnet discovery (`core/scanner.zig`) | hosts found, MAC map, name cache | TCP sweep, ping sweep, ARP harvest, multicast listener, name workers | engine, ICMP sweep, neighbor table, resolver |
| ICMP sweep (`c/icmp_ping.c`) | per host: unsent, in flight, reported; pacing | one event loop | called by discovery, calls back per host |
| Neighbor table (`c/neighbors.c`, `core/neighbor_table.zig`) | rows read so far; request ids, unread bytes | read the kernel's, or ask the parent process | discovery, twice per scan |
| Windows connects (`c/tcp_probe.c`) | sockets in flight | start, wait, finish | the engine's loops |
| Name resolution (`core/resolver.zig`, `c/resolver.c`, `c/ns_socket.h`) | sockets waited for, a deadline | one exchange of several requests, reverse DNS | sixteen name workers of discovery |
| Multicast (`core/multicast.zig`, `c/multicast.c`) | one socket | open, send, receive, wake, close | the listener's thread and the scan's |
| Interrupt, status line, main (`core/interrupt.zig`, `live.zig`, `main.zig`) | stop flag, what is drawn | first and second Ctrl+C, draw, erase | sets the flag every `next` reads |
| Tables, utils | constant tables | lookups, parsing, formatting | discovery, printing |

What is hard here:

- **Interleaving.** Up to eight loops share a run. A loop takes, starts and
  collects without the lock and reports under it; a failure in one loop
  (`starved`) ends the others; the kernel may connect two of the run's own
  connects to each other.
- **Shortage and retry.** A connect that cannot start is held, suspected,
  retried or given up on, and must be neither lost nor mistaken for silence.
- **Timing.** Waits are learned while connects are in flight, read without the
  lock, and cut short in loops that no answer wakes.
- **Ordering.** Verdicts come back in any order into a list that is still being
  read; workers reach the output lock in another order than they counted in.
- **Several sources for one list.** TCP sweep, multicast listener, harvest, pings
  and SendARP report hosts side by side, print to one stdout, and must be through
  before the summary.
- **Stale proof.** A row of the neighbor table proves a host only when it is newer
  than the scan; it may come late, in pieces or from another source than the row
  it is compared with.
- **Arithmetic.** Truncating averages, half units, waits that must add up.

`PROJECT.json` lists each hazard at its line with the properties that cover it.

## 2. Modules

| Module | Models | Source |
|---|---|---|
| `ConnectRun` | what `run` promises a source: each job pulled is reported once; a normal return leaves none outstanding | `connects.zig` `run` |
| `Connects` | the engine, loop by loop | `connects.zig` |
| `Window` | the congestion window and the stamps it sees | `connects.zig` `Window` |
| `Flight` | deadlines, cuts and wake-ups, with a clock | `connects.zig` `Flight`, `Cut`, `loop` |
| `MaxMin`, `Rtt`, `RttLearning` | the estimator as operators; a scan teaching it | `rtt.zig` |
| `PortScan` | the port scan on top of the engine's contract | `scanner.zig` 183-573 |
| `IcmpSweep` | the ping sweep's event loop on Linux and macOS, with a clock | `icmp_ping.c`, `scanner.zig` `icmpSweep` |
| `IcmpSweepWindows` | the Windows one beside it, on the same state | `icmp_ping.c` |
| `TcpProbe` | connects on Windows, handle by handle | `tcp_probe.c`, the loop of `connects.zig` |
| `UdpExchange` | the name queries of one host | `resolver.c`, `ns_socket.h`, `resolver.zig` |
| `Neighbors` | the kernel's table and its three readers | `neighbors.c` |
| `NeighborTable` | the two reads of a scan, through the parent or `Neighbors`, and what they prove | `neighbor_table.zig`, `scanner.zig` `readNeighbors`, `harvestArp`, `resolvedDuringScan` |
| `Progress` | the tracker and the printing of progress events | `progress.zig`, `Run.advance` |
| `Discovery` | a subnet scan: all its threads, on top of `Progress` | `scanner.zig` 602-1577, `multicast.c` |
| `Connects_proofs`, `Window_proofs`, `Waits_proofs`, `PortScan_proofs`, `IcmpSweepWindows_proofs`, `TcpProbe_proofs`, `NeighborTable_proofs`, `Discovery_proofs` | theorems | |
| `MC*` | instances for TLC | |

Definitions marked `Mutation:` are deliberately wrong variants of the definition
below them (a dropped guard, a missing limit, ...). No specification uses them;
each one, put in its original's place, makes TLC report the property that
`PROJECT.json` pairs it with, which shows that the property can fail.

### Connects

Each loop is a process with a program counter: `top`, `fill`, `start`,
`dropDry`/`dropStarted` (reporting a suspect), `report`, `sleep`, `wait`,
`collected`, `end`. One action stands for one step another thread or the kernel
can see; local code in between belongs to the step before it. `Shared.take` is
`TakeFull`, `TakeJob` or `TakeDry`; `start` is `StartPending`, `StartDone` or
`StartUnprobed`; `Shared.done` is the operator `Done`, used by `Report` and
`DropSuspect`, one step because the code holds the lock for the whole batch.
After the join, `Confirm` is `run`'s last loop and `Return` its result.

The environment may at any time stop the scan, let a pause, the stall limit or a
deadline pass, answer a connect, or let two connects to the machine itself meet
(`Cross`, and `Crossable` in `StartDone`).

Abstractions: times are kept as the outcome of the comparisons made with them
(`pauseOver`, `stalled`, `expired`), so the doubling of the pause is gone but
every order of its end and other events remains. The window is any size between
its bounds after each report, which is what `Window`'s bounds theorem justifies.
`getsockopt`, `getsockname`, `getpeername` and `io.sleep` succeed. A listener
stays or stays away for the whole run.

While writing the model it showed that the `held.len == 0` test where a loop
returns is never what keeps it going: once dry and not short, Held is empty.

### Window and Flight

`Window` is called under the lock, but with stamps the loops read before taking
it, so `Stamps` lets time run backwards by up to `Skew`. Round trips and stamps
share a unit. `heard`, `lead` and `quiet` are history: when, by the machine's clock,
the last answer was observed, how many more answers than silences there were, and
whether the host has been silent for sure. What the window calls dark is measured
against them. `Flight` has a clock: `Turn` is one turn of a loop at one instant
(collect, report, start, compute the wake-up), and the clock moves only when no
loop is awake, that is, loops are prompt. `Cuts` lets a loop read each of the two
relaxed atomics as it was at the end of the instant before, in any combination;
`CutsAfter` does so for the wake-up, unless the loop has just held the lock to
report. `heard` is history: when each answer reached the machine, whoever collects it
and whatever is stored of it. Of `fastest_answer_us` only matters whether the host is
near (`host`), and answers to tries after the burst (`LaterTries`) move the learned
wait but not the stamp.
A quiet burst is not always cut: a loop whose connects passed their floor before
the first answer reached another loop sleeps on, as the comment on `earliestWake`
says; `FloorCheckSuffices` is about the loops that do get to look.

### Rtt and PortScan

`Rtt` keeps microseconds and every truncating division. `PortScan` sees the
engine through its contract: `NextFirst`/`NextRetry`/`NextThird` are `next()` in
each pass, and a probe settles as `Answered`, `Expired`, `Cut` (blind tries only,
not before the floor, and only after `waitCap` gave a wait) or `Errored` (an
error or a dropped suspect: filtered with no wait). `NextPass` is the body of
`scanPorts` between two runs; `RunFails` is an engine error. The pace matters to
timing only and is left to `Window`.

### IcmpSweep

`Look` is the top of the loop (`Walked` is how far `oldest` gets), `SendOk`,
`SendFailed` and `SendBusy` one turn of the send loop each, `Leave` and `Sleep` its
end, `PollEmpty` and `Drain` what poll returns with. The budget is not kept: `next`
counts what was spent of it. Sockets are not told apart: `SendBusy` means that all
of them are full. The clock moves only in poll, which may return a millisecond
late. A `sent_at` that was never written gives any wait of `Garbage`.
`MaxWaiting` bounds the messages waiting in the sockets. `replied`, `refused`,
`fullFrom` and `reports` are history.

`IcmpSweepWindows` extends it: `platform` says which build runs. There Windows
keeps the time (`Complete`, external: a reply, or anything else, at most a
millisecond after the timeout), and each echo in flight holds a slot. `OnReply` is
a completion routine; it runs only where the thread waits alertably, and a wait
ends once the routines due have run (`WinWaitEnds`). A send that finishes on the
spot takes and releases its slot in one step, since no other code can run between.

### TcpProbe

What `start`, `waitSettled` and `finish` come down to on Windows, as one loop calls
them; `Connects` has the loops, and takes their results as given. `conn` is the
kernel's view of each handle: `HandlesConserved` compares it with the arrays the
loop keeps. `Finish` works on the connect behind the handle, `Collect` reports to
the job in the slot, so a slot and its socket that came apart would show.

### UdpExchange

One call of `udp_exchange_all` for up to `WaitMax` requests (eight in the code; `Counts`
says how many a caller makes, and `resolveHostName` makes one or two), then
`resolveHostName`'s choice. A socket bears the number of its request, so that a reply in the wrong
buffer is visible. `Walk` is one turn of the backwards walk; `Settled` moves the
last socket and its owner into the gap. poll may find a reply, an error, or a
datagram the kernel drops when it is read (`corrupt`); a signal may interrupt it
at any time, any number of times; it may return a millisecond late; it may fail.
The Windows branch (`select`) is the same without interruptions.

### Neighbors and NeighborTable

`Neighbors` has the kernel's table, which changes at any time (`Change`), and
`dump_neighbors`: netlink sends it in parts that are each current when read (and is
taken to pass over no row between them, which it does not promise: `neighbors.c` does
not look at `NLM_F_DUMP_INTR`, so `DumpComplete` is about the reader's side only),
Windows at once, macOS into a buffer sized before. `always` and `ever`, the hosts
live throughout the dump and at some point of it, are history. A host that does
not answer ARP can only decay: stale, delay once something is sent to it, probe,
then dead.

`NeighborTable` reads twice. A reply of the parent is a token in a pipe, or a
`half` and its end; it may answer either request, late, twice, with an error, or
with garbage; the parent may hang up. `Line` is `parseReply` and what `awaitReply`
makes of it, `Chunk` one `read`, `GivesUp` any error of `readLine`: all of them set
`gave_up`, after which the parent's input is dropped because nobody reads it. Every
other way out of the parent falls back to a dump. Two conventions: rows have MACs
of their own (`sharesMac` is left out; it only turns proof into a ping), and time
passes only in poll.

### Discovery

Actors are the scan's thread, the listener's, and a pool. A stage of work is a set
of hosts that a pool settles; the sweep and `icmp_ping_sweep` are pools of one,
because the engine holds its lock while it reports and the sweep is one thread,
and ping(1), SendARP and the name lookups are pools of several. `ReportHost` and
`PrintHost` are `reportHost`: the list's lock is held until the event is out,
while `Advance` and `Show` count and print without it. `Finish` and `Join` are
`MulticastListener.finish`, with a wake-up that may be lost. `cut` is a stage that
ends early; in a ping scan that ends the scan with an error and no summary.
What the table says of a host is a choice of each run; `NeighborTable` has why.

### Progress

`CountUnit` is `Tracker.advance`, `ShowProgress` what `Run.advance` does under the
output lock. `Discovery` puts them into two steps of a worker, so between them any
other worker may count, lock and print. `Steps` stands for 100, so that phases can
be longer than it.

## 3. Runs

| Run | Instance | Shows |
|---|---|---|
| `engine` | 2 loops, 2 connects to the machine itself, window 3 (a loop may take one connect at a time of the two it could hold), batches of 2, both shortages, memory failures, 1.1M states | refinement of `ConnectRun` (`EachJobOnce`), no phantom open ports, a missing socket is never silence, nothing asked is lost, and every run ends |
| `rtt_learning` | 4 round trips from below the floor to a third of the ceiling, 77k states | estimate within its samples, wait fits the answers, old slowness is forgotten |
| `window` | window 2..7, prompt and slow answers, dark after 3, skew 1, 12 instants, 8 connects, 179k states | dark, answering and dark again follows the host's real silences; one cut per round trip |
| `deadlines` | 2 loops, burst of 3, floor 2, waits 2 or 3, full wait 5, 7 instants, the two connects of one loop symmetric, 0.7M states | no cut within a learned wait of an earlier answer, no overstay, the floor check suffices |
| `port_scan` | 3 ports, one ranked, round trips that make a host near, far and slow, with and without `--timeout`, third pass from one answer, 2.1M states | see below |
| `icmp_sweep` | 3 hosts, 2 in flight, one echo a millisecond, timeout and patience 2, 2 messages waiting, both platforms, 1.3M states | each host reported once and slots intact; up only if it answered this sweep; down without an echo only when refused or after the full patience; no oversleeping but behind an unsent host; the sweep ends |
| `name_exchange` | 1 or 2 requests, timeout 3, 17k states | a reply in time is kept, by its own request; sockets closed once; one shared wait |
| `tcp_probe` | 3 connects, 2 handles, symmetric jobs, 0.4M states | verdicts earned, no handle leaked or shared |
| `neighbors` | 2 hosts and a multicast row, rows reachable, stale or dead, timeout 2, two replies of which one in pieces, two changes of the table, symmetric hosts, 3.9M states | a dump is complete or empty; the second read is newer than the sweep; the wait is bounded; what is reported without a ping answered, but for two cases |
| `discovery` | 3 hosts of which 2 answer multicast and 2 are in the table, pools of 2, 2 percentage steps, both platforms, TCP and ping scans, 0.8M states | events, list and summary agree; the listener's socket outlives it; counts increase and complete phases end full; the scan ends |

Two loops are enough for every pair of loops to interfere, and the engine's
loops share nothing else; two connects form a crossed pair, or a suspect and the
target it is tested against. What more loops and jobs add is covered by the
proofs. Three ports fill, overwrite and read the retry list at once. Two handles
for three connects make Winsock hand one out again; `udp_exchange_all` is never
called with more than two requests. Two replies are a late one and a right one, and
two changes let a row come and go, or two rows change in different parts of a dump.
In `discovery` one host is known to all three sources, one to the sweep and the
listener, one to the sweep and the table. The model bounds are `MaxTime` (`Window`,
`Flight`), `MaxSettled` (`Window`), `MaxWaiting` (`IcmpSweep`), and `MaxReplies`,
`MaxHalves` and `MaxChanges` (`NeighborTable`), named in their guards; `window`
turns the deadlock check off because both of its bounds run out. `neighbors`
leaves out the state that `neighbors_delay` is about.

`port_scan` checks that the retry list is never read where it was just written and
never outgrows its room; that a complete scan gives up on a port only after two
tries, a full wait or an error; that each port is tried once per pass at most and none is forgotten; that
progress is full exactly when the first two passes are through; that the result
is the ports that answered as open, sorted, once each; how long a silent port can
cost; and that every scan ends.

### Findings

Two runs check what a comment or a document says and end in a counterexample
(`findings` in `PROJECT.json` quotes both sides):

- `icmp_sweep_timeout`: a bug. `oldest` may stand on a host whose send failed and
  whose `sent_at` was never written; poll then sleeps for an arbitrary time while
  the hosts behind it outlive `timeout_ms`.
- `neighbors_delay`: a bug. Rows in DELAY count as fresh proof, but a stale row gets
  there by being used, not by being confirmed, and the sweep's own connects use
  them: a host that left minutes ago is reported without a ping.

Modelling also showed some disagreements that have no run of their own. The first
four are stated in the modules and can be added to the run's configuration to see
the counterexample:

- `NeverUnansweredUnasked` (`Connects`): `connects.zig:134` says a connect that could
  not start is never reported as unanswered; a suspect dropped at lines 518 and 530
  is.
- `NoHitAfterFull` (`PortScan`): `scanner.zig:515` says a frontend never sees 100%
  before the last hit; the third pass records hits after it.
- `NoLongerThanFixed` (`PortScan`): `docs/README.md:119` says no port waits longer
  than with the fixed timeout; a blind first try that waited in full is followed by
  a learned second wait.
- `NeverCutsAnsweredBurst` (`Flight`): the comment on `Cut` (`connects.zig:373`) says a
  wait has passed "since such a connect last got an answer". `Shared.cut` is two relaxed
  loads, so a loop may read the wait an answer has just taught beside the last answer
  before it, and cut the burst in the instant it was answered. `CutsOnlyQuietBurst` is
  what remains: an answer of an earlier instant is never missed.
- `FreshProofUnlessMixed` names two cases in which the harvest reports an absent
  host. When the parent answers the first request with an error and macOS hides the
  kernel's table, `known_before` is the empty table, and every lingering row of the
  parent's second answer looks newly resolved (`scanner.zig:1592`). And a parent
  that sends its table unfiltered, as `docs/README.md` invites it to, may include
  unresolved rows without a MAC: `parseReply` keeps them while `macos_dump` drops
  them.
- `readLine` "waits at most `timeout_ms`" (`neighbor_table.zig:90`) starts over with
  each chunk; `WaitIsBounded` has the bound that does hold.
- "Each phase ends with exactly one `done == total` event" (`docs/README.md`) holds
  of phases that were neither stopped nor cut short (`PhaseEndsFull`): a sweep out
  of sockets ends without it and the next phase begins.

### Fairness

Safety properties assume none. For `Termination`, `engine` assumes that threads are scheduled
(`WF` of each loop, and of the caller's thread that confirms and returns) and that
clocks move (while pauses, stall limits or deadlines are awaited, some of them pass). Nothing is assumed of the
network, and no shortage need ever end: the code gives up on its own.
`icmp_sweep` assumes that its thread runs and that the clock moves whenever it keeps
coming back to poll (`SF` of `Tick`: poll may return at once again and again).
On Windows it assumes too that every echo accepted is completed, which is
`IcmpSendEcho2`'s promise. `discovery` assumes that its threads run (`WF` of the
scan's, the listener's and each worker's): recv, pings and lookups have timeouts of
their own, so a step always comes; no lock needs more than that, because it is held
for new hosts only. Neither the wake-up nor any reply is assumed to arrive.
`port_scan` assumes what the engine run shows, namely that it keeps pulling and
that each probe settles within its wait. `rtt_learning` assumes answers keep
coming, without which there is nothing to learn.

## 4. Proofs

Assumptions are the named `ASSUME`s on the constants, checked by TLC in each run.

**`Connects_proofs`.** `TypeCorrect`, `ContractTheorem` (`Spec => EachJobOnce`:
refinement of `ConnectRun`), `AskedTheorem`, `SilenceTheorem` and `PhantomTheorem`, for
any finite sets of loops and jobs. The contract is not inductive: to know that a verdict is a job's first, one
must know where every job is. The invariant `IInv` says so:

- `Control`: what each program counter implies (a job in hand exactly at `start`,
  where the batch and Held have room for it; a suspect wherever one is dropped);
- `Socketed`: a job in flight has a socket;
- `Exclusive`: a job is in at most one place: the source, one loop's hand, Held,
  flight or verdict buffer, the unconfirmed list, or reported;
- `Covered`: a job the source handed out is in one of those places, unless a
  loop gave up on the run;
- `Emptied`: buffers are empty where the program counter says they are.

Each action preserves each part (one lemma per action, one step per part it can
disturb), and every step maps to a `ConnectRun` step or a stutter.
`SilenceTheorem` (`NoSocketIsNotSilence`) rests on `IInv` and on `Probed`: what is in
flight, settled or unconfirmed did ask its target, a suspect failed on its address,
and an unreported job has no outcome.
`PhantomTheorem` (`NoPhantomOpen`) adds `Met` and `Listening`: a socket is one of a job
in flight, only connects to the machine itself meet each other or themselves, and a
verdict of open names a listener. That a crossed pair goes to the unconfirmed list
rather than to a verdict is what the proof turns on.

**`Window_proofs`.** Bounds, dark hosts (`DarkFollowsTheorem`) and one cut per round
trip, for all sizes, thresholds, round trips and skews. `StoredInv` ties what the window
has stored to what happened (the last answer's stamp is late by no more than the skew,
the counts make the lead), from which `SilenceInv` follows: a host silent for sure is
dark, and a dark one was silent.

**`Waits_proofs`.** Of `Flight`: `OverstayTheorem`, `FloorTheorem` and the action property
`CutTheorem`, for any loops, connects, floor, full wait and learned waits. The first two
are about when a loop sleeps, so neither is inductive: `WakeInv` says that a loop's poll
ends before the full wait of each connect it has in flight, and, for one whose floor is
still ahead or passed with a wait learned, before the burst has been quiet for the
longest wait. A wait learned by another loop moves neither bound, because an answer only
ever moves `last` forward; a wait taken back empties `checked`. `PastInv` keeps starts and
answers out of the future and what a loop may still read no newer than what is there;
`LearnedInv` says that a floor passed with a wait learned was passed with one every loop
could read. `CutTheorem` needs `HeardInv`: an answer that reached the machine has been
reported, but for one of this very instant, so every stamp a loop may still read covers
all earlier answers, although two different loops received and cut. Of `RttLearning`, whose names are its
own for that reason: `HullTheorem` and `WaitTheorem`, the estimate stays within its samples
and the wait fits the answers, for every set of round trips and every floor, headroom and
ceiling. The lemmas bound the truncating averages; the invariant adds `lo <= hi`.

**`PortScan_proofs`.** For any range, any ranking (a sequence without repetitions, with
ports outside the range in it), any round trips and either kind of timeout:
`SlotsTheorem`, `EarlyTheorem`, `SettledTheorem`, `FullTheorem` and `BudgetTheorem`. None
of the five is inductive; each needs to know which ports each pass has come to, so
the invariant speaks of three sets, `Walked`, `Second` and `Third`, read off the
cursors:

- `SlotInv`, `FlightInv`, `CountInv`: what is deferred was walked, once; slots behind the
  cursor are rewritten, slots before it still hold what the first pass deferred; a
  port is in flight once, in the pass it belongs to; silent, answered and in flight
  add up to what the second pass has handed out (so it never writes a slot it has
  not read: `SlotsTheorem`);
- `TriesInv`: a port's tries are the passes that came to it;
- `AnswerInv`, `OpenInv`: what is in flight, or deferred and not handed out, has no answer
  yet, so no port is appended to the open ports twice;
- `HalvesInv`: half units are twice the walked ports that came back, less the deferred,
  plus those through their second try;
- `RoomInv`, `WaitInv`, `EarlyInv`: what a port has waited, what its next try may add, and
  why a port without an answer is in the list or had a full wait;
- `FixedInv`: with `--timeout` no try earns another, so the list of retries, for which
  scanPorts then reserves no room, stays empty. Without it the list has each port at
  most once (`SlotInv`), so it fits in the room for all of them: `appendAssumeCapacity`
  is safe, which `SlotsTheorem` includes.

Two more theorems follow from it: `FinalTheorem`, an action property, that an answer is
final whatever is reported later, and `CapTheorem`, that the waits given to the engine
are in the range `FlightAssumption` asks for.

That the open ports come out sorted is proved without induction: a sorting of a
sequence without repetitions is read off the ranks of its elements (`SortedFacts`).

**`IcmpSweepWindows_proofs`.** Of both sweeps, for any number of hosts, timeout, pace,
patience and number of echoes in flight: `SlotsTheorem`, `OnceTheorem`, `AliveTheorem`,
`OversleepTheorem` and the action property `DownTheorem`. Every step does one of four
things to the hosts (`StepKinds`): nothing, reports of hosts in flight (`Lands`), an echo
(`Sends`), or a report without one waited for (`Skips`). The invariant:

- `HostInv`: hosts are taken in order, each is waiting, in flight or reported, and was
  reported as often; `inFlight` is the number in flight;
- `SlotInv`: the free list has no repetitions, slots in use and hosts in flight are in
  bijection, and only a slot in use has a completion due. The count of slots follows
  from that, not the other way round;
- `EndInv`, `ReplyInv`: how the sweep ends; a reply in the inbox or in a slot was sent;
- `OrderInv`, `PosixTime`, `WindowsTime`: echoes leave in the order of the hosts, `oldest` is
  not past any of them, at the send loop none in flight has run out, and the sleep
  ends with the first that will (`WalkedFacts` says where `oldest` comes to stand, with a
  least element taken from the well-foundedness of `Nat`);
- `BusyInv`: `busySince` is the host's own patience.

**`TcpProbe_proofs`.** `HandlesTheorem` and `VerdictTheorem`, for any jobs and handles of
which there are at least as many as Flight has slots. `Wired` is the heart of it: each
slot has the handle of its own job's connect, no job has two slots, and every open
handle is in a slot; it has to survive the swap-remove of `Collect`
(`SwapRemoveFacts`). `Marked` relates what select saw to the kernel's view, `Unreported`
keeps jobs in flight without a verdict, `Met` says what a connect to another machine met.
`ReportStep` says that a step changes the verdict of at most one job, one that was still
to be started or in flight; `LostTheorem` (none is lost) and the action property
`OnceTheorem` (none is reported twice) follow.

**`NeighborTable_proofs`.** `DumpTheorem`, `OrderTheorem`, `WaitTheorem` and `FreshTheorem`,
for any addresses, any number of replies, pieces and changes of the table. `DumpInv`
says that what a dump may have missed is still to come and that it has nothing never
live; `OrderInv` that a request's number gives away its round and that no reply on its
way is older than its request; `WaitInv` that only a read in the middle of a line earns
another wait. `FreshTheorem` assumes that rows are never in DELAY: with them the
property is false, which is what `neighbors_delay` shows, and the two other known
cases are exceptions in the property itself. Its invariant (`FreshInv`) says that only
who answers is reachable and that every table, read or on its way, lists the old rows
still live.

**`Discovery_proofs`.** For any finite sets of hosts and workers: `EventsTheorem`,
`SocketTheorem`, `PhaseTheorem` and the action property `CountsTheorem`. `LockInv`: the
list's lock is held exactly while an event is due, for a host already listed.
`ShownInv`: the last event is what was claimed last, and phases come in order.
`UnitsInv`: units counted, still to be taken, in a worker's hands and left to SendARP
add up to the phase's total, which is why none is counted twice or lost.
`DiscoveryAssumption` says that the threads are different from each other and from no
thread at all.

The same module proves the theorems of `UdpExchange`, whose names are its own for that
reason: `ClosedTheorem`, `KeptTheorem` and `SharedTheorem`, for any number of requests up
to any `NS_WAIT_MAX` and any timeout. `SharedTheorem` is inductive with the types;
the other two need

- `PlaceInv`: `waiting` holds sockets of requests already sent, each once, and `owner` is
  the same sequence, which the swap-remove of `Settled` must keep;
- `OpenInv`: the open sockets are exactly the ones waited for, until the call closes the
  rest, and every other one opened was closed once;
- `ReplyInv`: a reply that came is still in its socket or in its own request's buffer;
- `WalkInv`: what poll found ahead of the backwards walk is still to be read when the
  walk comes to it, although the elements behind it have moved, and a reply in a socket
  the walk is past came in this very millisecond, so the next poll finds it in time.

Model-checked only:

- liveness (`Termination`, `ScanEnds`, `SweepEnds`, `DiscoveryEnds`,
  `ForgetsSlowAnswers`), which the prover does not reach;
- what the two violation runs are about, and `NoHitAfterFull`, `NoLongerThanFixed`,
  `NeverUnansweredUnasked` and `NeverCutsAnsweredBurst`, which do not hold.

The bounds of the window (`SizeInBounds`, `DarkMeansMin`) and the type invariants, but
for the engine's, are proved and not part of a run.

## 5. Not modelled, and the plan

Left out, by component:

- **Status line and interrupt.** A first Ctrl+C sets the flag that every module has
  as `stop`. Drawing and erasing a line, and the second Ctrl+C, which erases it from
  a signal handler that may run between two writes of the drawing thread, change
  nothing but the terminal.
- **Names and MACs.** `NameCache` and the MAC map fill columns of the summary;
  `sharesMac` only ever asks for a ping more.
- **Datagrams, JSON, addresses, tables.** Pure functions on bytes, with unit tests
  in the repository: `multicast.zig`, the packets of `resolver.zig`, `utils.zig`,
  `oui.zig`, `ports.zig`, `packed_db.zig`, `mc_local_address`.
- **Memory.** Running out of it is modelled in the engine and in the neighbor
  readers; a list of hosts or open ports that cannot grow is not.
- Argument parsing, printing, generators, build files and containers.

No safety property of a passing run is left without a theorem; liveness stays with TLC.
