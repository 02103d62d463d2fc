# PandaProxy, specified

PandaProxy stands between the clients on a network and one Bambu Lab printer: it
accepts the clients' FTPS, MQTT, chamber-camera and RTSP connections and keeps
the number of sessions the printer sees small. This directory holds TLA+
specifications of the parts in which an order of events matters, the TLC runs
that check them on small instances, and proofs checked by TLAPS. Paths such as
`ftp_proxy.py:536` are relative to `src/src/pandaproxy`; the table from every definition to the
lines it models is `map` in `PROJECT.json`.

Everything runs on one asyncio event loop. A task runs undisturbed from one
`await` that suspends to the next, so **an action of a model is such a stretch**,
with all the calls it makes. What makes the code hard is what happens between
two stretches: cancellation, timeouts, disconnections, and other tasks that
change shared fields.

## Inventory

| part | state | operations | talks to | hard because | correct when |
|---|---|---|---|---|---|
| session queue, `ftp_queue.SessionQueue` | `_active`, heap of (priority, counter, future) | `acquire`, `release`, `_wake_next` | every control session | a waiter can be cancelled before, at and after the moment it is granted | slots are conserved, none idles while somebody waits, order is kept |
| port pool and passive relays, `ftp_queue.DataPortPool`, `ftp_proxy._open_passive_relay` | free list, in-use set; per relay a supervisor, a server, handlers, three events, a future | PASV/EPSV, transfer, teardown, timeouts | the session, the client's data connections, the printer's PASV | a relay is torn down from two sides, with two timeouts and a double cancellation | each port is free or in use once; none recycled under a listener; each comes back; one splice per port |
| control session, `ftp_proxy.ControlSession` | printer session, `_holds_slot`, `_state`, `_cwd`, `_lost_settings`, `_data_*` | one handler per FTP command | queue, pool, printer | it loses and reopens the printer session behind the client's back | the client is told the truth about its modes and its directory |
| data pipe, `ftp_proxy._pipe_both_ways` | two pumps, stall clock, two transports | copy, half-close, reset, close | relay handler | one direction fails while the other goes on; buffers outlive the pumps | a truncated transfer never looks complete, a complete one is not reset |
| MQTT broadcast, `mqtt_proxy`, `state_cache` | cache, `_cache_primed`, one bounded queue per client | merge, broadcast, snapshot, hang up | printer, clients | a snapshot races the reports, clients stall, the printer reconnects | no client regresses, misses a report, takes a partial state for a full one or sees the printer's address |
| full-state request gate, `mqtt_proxy._request_pushall` | `_pushall_pending`, its timer, the upstream lock | ask, publish, fail, expire, clear | upstream loop, snapshot tasks | the gate is cleared while somebody still publishes | one request at a time, always askable again |
| MQTT wire format, `mqtt_protocol` | none | packet codec | MQTT | lengths of up to four bytes | decoding inverts encoding |
| chamber proxy, `chamber_proxy`, `fanout` | table of viewers by address, a bounded queue each | connect, broadcast, register, unregister, stop | printer, viewers, `cli` | a teardown removes whatever is under its address; a full queue takes no sentinel; a viewer may register after `stop()` | a viewer that is there gets the frames and is told when they end; `stop()` returns |
| RTSP proxy, `rtsp_proxy` | two child processes, their log tasks, a monitor, a configuration file | start, restart, stop | ffmpeg, MediaMTX, `cli` | cancellation against a monitor that restarts, errors that surface later | a child that exits is replaced; nothing outlives an orderly `stop()` |
| SSDP, `ssdp` | socket, time of the start | announce, stop | the network, MQTT for the version | the version may never come | the proxy is announced |
| certificates, `ca`, `cli` | two keys, two certificates | load, create, check, issue | all servers | a crash at any write, starts with other addresses | the authority is for ever; a matching, trusted certificate is served |
| helpers, `helper` | backoff count | `delay`, `cancel_task`, `close_writer` | everybody | overflow; a swallowed cancellation | delay stays within its bounds |
| command line, `cli` | services, background tasks, stop event | start in parallel, signal, cancel, stop | everybody | one of several starts fails; a stop raises | a signal ends the program, and nothing is left of it |
| detection, `detection`; `protocol` | none | one probe | printer | nothing that happens in an order | - |

`hazards` in `PROJECT.json` lists, line by line, what can go wrong and a test
would hardly reach, with the properties that cover it.

## Modules

| module | role |
|---|---|
| `PrinterLine` | what a client in the line is promised: ranks, first come first served within a rank, leaving at any time |
| `SessionQueue` | `ftp_queue.SessionQueue`, with the cut points of `acquire()`; refines `PrinterLine` |
| `SlotSession` | extends `SessionQueue`: control sessions as its users, with disconnections, `stop()` and cancellation |
| `PassiveRelay` | the port pool, the relays on its ports and the sessions that open and drop them |
| `DataPipe` | the relay of one data connection, up to the closing of its sockets |
| `Transfer` | extends `DataPipe`: the control session's wait for the completion reply, beside the relay |
| `SessionReplay` | what the client was told, what the proxy recorded, and what the printer session has |
| `ReportFanout` | reports from the printer to the MQTT clients |
| `PushallGate` | the gate on full-state requests |
| `ChamberFanout` | frames from the printer to the viewers, and the shutdown of the chamber proxy |
| `CertStore` | the certificate files, written step by step and read again at the next start |
| `Supervision` | start, background tasks, signal and shutdown; the RTSP proxy's children; the announcer |
| `Program` | extends `CertStore` and `Supervision`: `cli.run_proxy`, killed and started again |
| `...Proofs` | TLAPS proofs: `SlotSessionProofs` (of `SessionQueue` too), `PassiveRelayProofs`, `SessionReplayProofs`, `ReportFanoutProofs`, `PushallGateProofs`, `TransferProofs` (of `DataPipe` too), `ChamberFanoutProofs`, `ProgramProofs` (of `CertStore` and `Supervision` too) |
| `MC...` | the values of the constants and the symmetry sets used by TLC |

An operator introduced as a *mutant* of another is that definition with a
plausible mistake in it. It is used by no specification; it shows that the
property it is paired with in `PROJECT.json` fails when the code is wrong.

### SessionQueue and PrinterLine

`acq[s]` says where the call of `acquire()` that `s` made last is suspended:
before its first step, on its future, or after the future was resolved or
cancelled and before the task has run again. `waiters` and `ahead` are the heap:
the counter is only ever compared, so each entry keeps the set of the earlier
ones. `WakeNext` is `_wake_next` as one function of the counter, the heap and the
futures; `TakeFree`, `Enqueue`, `Withdraw`, `HandBack` and `ReleaseSlot` are the
branches of `acquire` and `release`. `CallerStep` uses the queue as `slot()`
does. The refinement maps the owners of a slot to `served` and the live waiters
to `line`.

### SlotSession

The composition of the queue with the sessions that use it. `won`, `lost` and
`cut` are the suspension of `_acquire_slot`'s `finally` at `await gone`, which
is where a cancellation gets lost with `gone`'s own: `TakeSlot` shows that this
happens and that the slot still belongs to somebody. `closing` and `parting`
are the two places where `_release_upstream` awaits `close_writer`, in the middle
of a session and at its end: the printer still has the session then, so
`UsingPrinter` counts them. `unread` is the set of sessions whose reader holds a
command sent ahead: `reader.at_eof()` is False for them, so that `WaitGone` does
not see a departure. `DeadClientLeaves` excepts them; `LeaversGiveUp` does not, and
does not hold. `UsesQueue` checks that every step of the composition is a step of
`SessionQueue`, so that what is proved of the queue holds of it here.

### PassiveRelay

`relay[r]` is what one call of `_open_passive_relay` closes over. Relays have
identities of their own, because a session may still refer to one whose port has
been recycled. A session is in `binding` while it awaits `start_server`. Connecting
to the printer's port and copying are one step of unbounded length. Between
`create_task` and the first step of the supervisor the session may go on, with a
pipelined command or with `close()` after its reply could not be sent: a
cancellation then ends the supervisor before its `finally` exists (`sup` is
`dropped`). `Lost` is what is lost that way; `PortsHaveKeepers`, `PortReturns` and
`PoolRefills` say that nothing else is, and `EveryPortReturns`, without the
exception, does not hold. `OneSplicePerRelay` counts the connections a relay
tracks at one time. The cancellation of a session by `stop()` is not in this module.

### DataPipe

A direction is named by its source side. `sent`, `read` and `got` count what a
side has written, what its pump has read (`moved` in the code) and what the
other side has taken, so `read - got` is what the transport of the destination
holds. `out[s]` is how the proxy has ended its side of the socket to `s`, and
`phase` where the relaying task waits, from the first `asyncio.wait` to the two
`close_writer` of the handler's `finally`. The peers may send, half-close,
break or do nothing at any moment. What a peer has written and its pump has not
read is in the network or in the `StreamReader`, which reads ahead of the pump by
itself; the two are not told apart. `TornDown` is a cancellation of the relaying
task in any of its waits: in the gather it changes nothing, in `close_writer` it
cuts the closing short. Copying in `PassiveRelay` is this module, seen as one step.

### Transfer

`_await_completion` waits for the reply and the data channel together, then, if
the channel ends first, for the reply alone and for a grace. `moved` is
`_data_moved`: the asymmetry of the two directions, which the relay writes just
before it closes its sockets. `waiter` is where the wait is. The relay is that of
`DataPipe` unchanged (theorem `ImplementsPipe`), so its properties are checked
and proved here once.

### SessionReplay

One control session, one action per command, with the opening of the printer
session it may need and every reply the printer may give inside the action: the
session serves one command at a time, and no other task touches these fields.
`Target` is the printer session a command would be forwarded to, opening
included, and the properties compare it with what the client was told. `strayed`
is a history variable: a relative path was accepted while the directory was
lost. `SessionAsTold` excepts that case; `NeverRelocated` does not, and does not hold.

### ReportFanout

Merged reports are numbered; the cache is the number of the last one and whether
a full dump is among them. A broadcast suspends only in `close_writer`, for a
client whose queue is full: `bcast` holds the targets it still has then. What a
client was sent is summarised by `view`. A client may register after the
connection it waited for is gone again, since the code does not look a second time.

### PushallGate

`line` is the asyncio lock with its holder first. Time is reduced to the expiry
of the retry interval after each request. aiomqtt's `publish` is external. It may
last past the next connection, and when it times out its packet may still go out
(`PublishLate`). The history variable `stray` says that one of the two concerns the
current connection: `AtMostOne` excepts that case; `OneAtATime` does not, and does
not hold.

### ChamberFanout

`viewer[v]` is where the handler of connection `v` is suspended; `clients` is
`_clients`, keyed by address, so that a later viewer of the same address finds
an earlier one's entry. An address is free for a later connection when the
earlier one is lost; its handler may still be waiting, and only a write tells it.
`queue` and `open` are the `StreamClient`. The upstream task's `finally` and
`stop()` both call `DisconnectAll`; `CancelUpstream` is `cli`'s cancellation,
wherever the task is.

### CertStore, Supervision, Program

A file is `Absent`, `Torn` (opened and not yet written, so unreadable) or has a
content, reduced to the key, the signer, the listed addresses and whether
renewal is due. `Open` and `Fill` are the two steps of `write_bytes`, so that
`Die` can come between them. `phase` follows the head of `run_proxy`, `start` is
how the program was started this time. `cut` is a history variable: the start
whose certificate was never completed.

In `Supervision` a child is a process the code may hold in a field
(`proc`), or one no field refers to any more (`stray`). `driver` is the task
that launches children, first `start()`, then the monitor, and names its await.
`CancelMonitor` is `task.cancel()` wherever that task is: inside `cancel_task`
the cancellation is swallowed and the loop goes on (`swallowed`). `halt` follows
`RTSPProxy.stop()`. `Announce` may fail, as `sendto` does when a target is not
reachable: the error is swallowed and the next round sends again. `Program` joins the
two where the services load the certificate, and where the program dies.

## Runs

| run | instance | shows |
|---|---|---|
| `MCSessionQueue` | 4 sessions, 2 slots, 2 priorities | conservation, no idle slot, one waiter is next, refinement of `PrinterLine`, uploads are granted |
| `MCSlotSession` | 2 sessions, 1 slot, 1 priority | safety of the composition, use of the queue, a dead client leaves, `stop()` returns |
| `MCPassiveRelay` | 2 sessions, 1 port, 3 relays, 1 connection | safety of the pool |
| `MCPassiveRelayOne` | 1 session, 1 port, 1 relay, 3 connections | one splice per relay, the endpoint stays open, ports in use have keepers and come back, but the lost ones |
| `MCTransfer` | 3 units each way, a buffer of 1 | no truncation passed off as an end, no reset of a complete transfer, the right grace, relay and command end |
| `MCSessionReplay` | 2 settings, 3 values, paths of 2 names | modes and directory are as the client was told |
| `MCReportFanout` | 2 clients, queues of 2, 3 reports | order, completeness, no exposure |
| `MCPushallGate` | 3 snapshot tasks | one request at a time, the gate has an owner, askable again |
| `MCChamberFanout` | 3 viewers on 2 addresses, queues of 2 | the table is right, everyone is told, `stop()` returns |
| `MCProgram` | 4 keys, 1 address | certificates, authority, signal, clean end, restart of children, announcement |

Two more runs, `MCDataPipeDropped` and `MCProgramBroken`, are counterexamples to what a
test and a docstring say of the code; see *Disagreements found*.

**Bounds.** Two slots and four sessions are the least with two owners and two
waiters, so that a release meets both a live and a withdrawn waiter; the sessions'
composition adds nothing the queue's own counter depends on, hence one slot there,
the default of the program. Two sessions are the holder and the waiter. That no
third one disturbs the safety of the composition is proved for every set of sessions;
TLC confirms it for three in half a minute, and the liveness properties for three in a
little over five, too long for a run. One port is the worst case for recycling: the next
relay always gets the port that was just freed. Three relays let a torn-down
one and two of its successors exist together. A queue of two holds a snapshot
and a report (or a frame and the sentinel), and overflows at the third. Three
units each way, with a buffer of one, let either direction be the greater, wait
in `drain` and leave something in the transport at its end. Three viewers on two
addresses let one address be used twice beside a bystander. Four keys are the most
that are in use at one time (the authority's, an old leaf's, a replaced key file's and a
new one's), one address is enough for a start with it and one without.
`MaxDepth`, `MaxReports`, `MaxRequests`, `MaxUnits` and the set `Relays` bound
what the program does not; identities of relays, keys and requests are reused, so
they bound only how many exist at one time. Symmetry is used only in runs
without temporal properties other than action properties.

**Deadlock** is checked except where the system may stop: after `stop()`
(`SlotSession`, `ChamberFanout`), when a transfer is over (`DataPipe`,
`Transfer`), and when a client of the passive relays has hung up on a
session that has nothing left to do.

**Proved, not run.** Each module has a type invariant; it is proved, and so are
`LostIsForgotten`, `RecordMatchesSession` and `NoSurvivingTimer`, and none of these has a
place in a run. TLC confirms them when they are added to the configuration of their module.

**Fairness.** The event loop runs every ready task, so steps of tasks are weakly
fair; waits with a timeout end. Nothing is assumed of clients or of the printer,
with these exceptions. `HoldersRelease` is a premise of `UploadGranted`, not of
the specification: it says that a slot is not kept for ever, which
`UPSTREAM_IDLE_TIMEOUT` and the transfer timeouts enforce against a client that
falls silent, but not against one that goes on using it. In `ChamberFanout` a
viewer reads what it is sent or its connection ends: nothing in the code bounds a
write to a viewer. In `Program` a child's output ends with the child, a launch
that is tried again and again succeeds in the end (strong fairness of
`LaunchDone`), so does an announcement (strong fairness of `Announce` with a send that
goes out), and the starts and stops of the other services end. `Discoverable` and
`RestartedIfRead` are about what the code does with that, not about the network.

## Disagreements found

The first two are the counterexamples of runs, and findings in `PROJECT.json`. Each of
the others is an exception that a property of a run makes; the module also states the
property without it, under the name given here. No run has those: put into the
configuration of its module (as an `INVARIANT` if it is a state predicate, as a `PROPERTY`
under the fair specification otherwise), each ends in a counterexample within a minute.

1. **A truncated transfer can end like a complete one** (`helper.py:234`,
   `MCDataPipeDropped`): at the sender's end of file some of the data is still in
   the transport; a receiver that takes nothing for the grace and the two seconds
   of `close_writer` has it dropped by `transport.abort()`, which ends the stream
   with a FIN.
2. **ffmpeg may never be restarted** (`rtsp_proxy.py:343`, `MCProgramBroken`): its
   progress line has carriage returns and no end of line, so after 64 KiB
   `readline` raises, the log task ends with that error, and the monitor meets it
   again in every round, before it resets the field or launches anything. (Nobody
   reads the pipe from then on either, so ffmpeg may stall before it exits.)
3. **A passive port can leak for the life of the process** (`ftp_proxy.py:815`,
   `EveryPortReturns`): a supervisor cancelled before its first step never enters its
   `finally`. A command pipelined behind the PASV does that, and so does `close()`
   when the control connection broke and the reply to PASV could not be sent.
   `test_ftp_queue.py:357` says the port must always find its way back.
4. **A client that left may keep its turn** (`ftp_proxy.py:588`,
   `LeaversGiveUp`): `at_eof()` is False while a command sent ahead is unread.
5. **Uploads can starve everybody else** (`ftp_queue.py:100`, `NothingStarves`),
   against the docstring at `ftp_queue.py:30`.
6. **A client can be relocated** (`ftp_proxy.py:1021`, `NeverRelocated`): a
   relative CWD or CDUP counts as having restored a directory that was lost,
   against the comment at `ftp_proxy.py:636`.
7. **Two full-state requests can be outstanding** (`mqtt_proxy.py:474`,
   `OneAtATime`): a publish that timed out is taken for one that did not go
   out, and one may last longer (10 s) than the reconnection delay (5 s), against the
   docstring at `mqtt_proxy.py:460`.
8. **A signal can be lost** (`helper.py:247`, `SignalAlwaysEnds`): `cancel_task`
   suppresses its caller's cancellation with the one it waits for; `run_proxy` then
   waits for the monitor for ever.
9. **A child can be launched after `RTSPProxy.stop()`** (`cli.py:327`,
   `StoppedIsStopped`): when another service fails to start, `stop()` runs beside
   `start()`, which goes on.

The other exceptions written into properties are behaviours of the code too, and TLC
shows each when the exception is taken out:

- `PairTrusted`, `cut`: an issue interrupted between its two files, then a start
  with other addresses for which the old certificate would do, keeps that
  certificate beside the new key; `load_cert_chain` refuses the pair on every
  such start (`cli.py:238`).
- `LeavesNothing`, `halt`: `terminate()` on a child that has just exited raises
  `ProcessLookupError` (`rtsp_proxy.py:139`), a broken log raises `ValueError`
  (`rtsp_proxy.py:158`); the other child, the configuration file with the access code
  in it, and the stops of the other services are then given up (`cli.py:417`).

Read off the code, without a property of their own: a connection accepted just before a
teardown joins the set of handlers after it was swept, and stays parked until the second
cancellation (`ftp_proxy.py:807`); REST is not replayed after an idle release
(`ftp_proxy.py:418`); a transfer whose first byte comes after the other side has
half-closed is cut off, with a reset, after five seconds (`ftp_proxy.py:1299`);
426 after a lost completion reply releases the slot while the data relay may
still run (`ftp_proxy.py:1083`); a viewer that does not read holds the chamber
proxy's `stop()`, since nothing bounds its `drain` (`chamber_proxy.py:273`); an upstream
timeout does not count as a failure, so the delay does not grow
(`chamber_proxy.py:194`); the age of a certificate is looked at only at start, and
the authority's never (`cli.py:244`); the MQTT proxy's documented order of shutdown is
undone by `cli`, which cancels its upstream task first (`mqtt_proxy.py:217`,
`cli.py:397`).

## Proofs

Eight modules, each about any values of its constants that satisfy the
assumptions named in the model. In each an inductive invariant is
proved from one step per action, and the theorems follow from it.

`SlotSessionProofs` (`SessionsAssumption`, `MaxConcurrentAssumption`,
`PrioritiesAssumption`), on the queue: `QueueTypeCorrect`, `SlotsConserved`, `NoSlotIdles`,
`SomebodyIsNext`, `QueueIsLine`. None of the invariants is inductive alone. That no slot
idles depends on the heap holding every live waiter, since otherwise `_wake_next` would
find nobody; that the counter is right depends on its being the cardinality of the
owners. `IInv` joins them. `WakeNextCorrect` is the heart: called with a consistent
triple of counter, heap and futures, `_wake_next` leaves one in which no slot idles.
`QueueIsLine` is the refinement of `PrinterLine`, one lemma per branch of the code;
`LineInv` adds that of two waiters exactly one came first (`Arrivals`). `SomebodyIsNext`
rests on `Seniority`, that "came before" is an order: then the waiter whom the fewest
precede is preceded by none, so the third branch of `WakeNext` is never stuck for want
of a `CHOOSE`.

The same module, on the sessions around the queue: `SlotTypeCorrect`,
`NoAcquireIsOrphaned`, `PrinterNotOverrun`, `SessionsUseQueue`, `SlotsConservedInProxy`,
`ProxyIsLine`. `SlotInv` says, for each await of a session, what its `acquire()` may be
doing and whether `_holds_slot` is set (`Fits`). From it every `release()` is an owner's,
every step of the composition is a step of the queue, and the queue's theorems hold in
the proxy.

`PassiveRelayProofs` (`PortsAssumption`, `RelaysAssumption`, `ConnsAssumption`):
`RelayTypeCorrect`, `PortsPartitioned`, `ListenersKeepTheirPort`, `SplicesOne`,
`EndpointAwaited`, `PortsAreKept`. A relay owns its port while it listens or its
supervisor lives; owners have ports that are in use and differ, so that the one
release is an owner's last act. `EInv` adds that no two sessions refer to one
relay and that a session preparing a transfer has an endpoint nobody has settled; `Keepers`
that a port in use belongs to a relay whose supervisor either was cancelled before its
first step (`Lost`) or is alive, and then its only way to end is to give the port back.
`PortsAreKept` therefore holds of every client, and names the one way to lose a port.

`SessionReplayProofs` (`ValuesAssumption`, `SettingsAssumption`):
`ForwardedAsTold`, `RefusedIsNotReplayed`, `ReopeningIsInvisible`, and with
`MaxDepthAssumption` `ReplayTypeCorrect`. `RInv` compares the record with the client over
the settings that are not lost. For the types, `PathsOK` adds that the proxy is never
deeper than the client was told; that a path resolves to a path is an induction along
its hops (`WalkType`), over the fold that `normpath` is modelled by.

`ReportFanoutProofs` (`QueueSizeAssumption`, `MaxReportsAssumption`): `TypeCorrect`,
`OnlyWholeStates`, `PrinterStaysHidden`, `NobodyLeftBehind`, `NeverGoesBack`,
`MissesNothing`. All six are about what a client has seen; `FInv` is about what it
will have seen, its view followed by its queue: that stream is fit to be shown, never goes
back, skips no report after a snapshot, and ends at the newest report, or at the one before
while a broadcast is on its way to the client. A client whose queue is full loses its
registration in the stretch that finds it full, which is why it is promised nothing more.

`PushallGateProofs` (`MaxRequestsAssumption`, `SnapshotsAssumption`):
`GateTypeCorrect`, `AskedOnce`, `NoTimerSurvives`, `GateNeverOrphaned`. `GInv` is
the accounting the one flag stands for: on a connection that is not `stray`, the task
that asks, its request and the last timer are one thing at most, and the flag is up
while there is one. `AskedOnce` and `NoTimerSurvives` are about such connections only;
`GateNeverOrphaned` is about all.

`TransferProofs` (`DataPipeAssumption`): `ImplementsPipe`, `TypeCorrect`,
`EndOfFileIsTrue`, `ResetIsDue`, `GraceIsRight`. `EndOfFileIsTrue` excepts what
`close_writer`'s abort does (disagreement 1), and nothing else. `RelayInv` remembers why a socket
was reset: a pump stopped short while it was the larger direction has reset its
destination, and a reset came with a broken connection or hit the smaller
direction for good. Nothing is read once both pumps have ended (`FigureStands`),
so the figure that chooses the grace is final.

`ChamberFanoutProofs` (`ChamberAssumption`): `TypeCorrect`, `EveryoneIsTold`,
`TableStaysRight`. The table by address is saved by an order among the handlers of
one address: when a later one serves, an earlier one is past its teardown, or waits
on an empty queue that nobody fills any more (`StragglersInv`).

`ProgramProofs` (`FilesAssumption`): `TypeCorrect`, `CertificateUsable`,
`AuthorityIsForever`, `ShutdownIsClean`. `AuthorityInv` and `LeafInv` say what each
phase of a start knows of the files, and of an interrupted certificate that the
start it was for would refuse the old one again. `LaunchInv` and `StopInv` say which
fields the driver may still write when, and that it launches only a child it has
seen gone. `CertificateUsable` keeps `PairTrusted`'s exception: an interrupted issue and
then a start with other addresses.

The library's induction theorems take a predicate as a parameter, which the provers at
hand cannot instantiate. Where a proof needs an induction (`OrderHasNext`, `FoldExists`,
`WalkType`), it looks at the least number for which the claim would fail, which exists
because `<` is well founded on `Nat` (`LeastOf`).

Model-checked only: what needs fairness, which is out of the prover's reach, namely `UploadGranted`,
`DeadClientLeaves`, both `StopReturns`, `PortReturns`, `PoolRefills`, `PipeEnds`, `TransferEnds`,
`ReAskable`, `SignalEnds`, `RestartedIfRead` and `Discoverable`. Every invariant and
every action property of the passing runs is proved.

## Plan

1. Done: all modules above with their runs and proofs.
2. Worth modelling next: `stop()` of the MQTT proxy beside its clients and snapshot
   tasks; `stop()` of the FTP proxy beside the passive relays.
3. Worth proving next: the safety part of the liveness properties, as `PortsAreKept` is of
   `PortReturns`: what each await still expects, so that only fairness is left to TLC.

## Not modelled

What bytes a message holds, logging, TLS, the content of listings, the arguments of
subprocesses, network discovery. `asyncio`, `aiomqtt`, ffmpeg, MediaMTX, the file system and
the printer are modelled by how the code uses them. Not modelled as components: the MQTT
packet codec and the merging and rewriting in `state_cache`, pure functions whose
inputs have no order of events; `ReconnectPolicy`, a function of a counter; the
detection probe and the constants; the parsing of arguments. `TRANSFER_COMPLETION_TIMEOUT` is
left out of `Transfer`, being what the two graces are there to avoid. A loss of the machine's own
write cache is left out of `CertStore`: what was written stays written, in order.
