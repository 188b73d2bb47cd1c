# CANopen Studio in TLA+

CANopen Studio (`src/`) is a desktop analyser for CAN buses: a Python
application with a Tk interface, agents' servers (MCP, A2A) and an OBD-II stack,
on top of a Rust core that reassembles ISO-TP, keeps the trace and decodes
frames, with a Rust window of its own. This directory holds a TLA+ model of it,
the TLC runs that check the model and TLAPS proofs about it. Paths below are
relative to the repository; those without a directory are in
`src/canopen_studio/`. `PROJECT.json` maps every definition to the lines it
stands for, and lists the hazards with the properties that look for them.

## 1. The system

| component | state it keeps | operations | what is hard | what makes it correct |
|---|---|---|---|---|
| Trace ring (`ring_buffer.rs`) | frames, `head`, `total_pushed`, each behind its own lock | push, clear, snapshot, len, total_pushed | three locks; a copy of `head` used after its guard is gone; wrapping | every call is atomic; a snapshot is the newest frames in order; no deadlock |
| ISO-TP (`diag/isotp.py`, `isotp.rs`, `isotp_manager.rs`) | one transfer per source | segment, feed, reset | interleaved sources, wrap of the sequence number, lost bytes | what comes out was sent; nothing is lost without an error |
| Native session (`diag/native.py`) | frame queue, reassembler, deadlines of the call | request, feed, recv, clear | capture thread against session thread; late replies; response pending; flow control of an earlier request | replies belong to the request; a call ends in bounded time, and not early |
| ELM327 session (`diag/interface.py`, `diag/elm327/`) | open flag, exchange lock, BLE client and event loop, input buffer | open, request, read_voltage, close | one adapter shared by threads; timeouts; close under a request; spoilt lines | exchanges keep apart; a caller gets its own answer, and returns |
| Link and connection (`link.py`, `gui.py`, `interfaces.py`) | the link and its parts, `link_opening`, `running`, Tk's callbacks | connect, disconnect by user and agents, capture loop | opening off the Tk thread; partial failure; an unjoined capture loop; a simulator that answers under a lock, or is not joined | nothing leaks; one link; what begins ends |
| Bridge (`bridge.py`, `gui.py`) | stamps of both directions, inject thread; the studio's `bridge` | forward, inject, start, stop | reflections racing sends, or missing; failed sends; stop at any moment; starts that race a disconnect | nothing goes round in a circle; what is discarded was the bridge's own; a bridge mirrors its own link |
| Timers (`gui.py`) | four periodic timers, two refresh loops | start, tick, cancel | message boxes that run the event loop; disconnects by agents | each timer has at most one tick pending, and the window can stop it |
| Poller and recorder (`diag/j1979/polling.py`) | stop event, thread, error, CSV file | start, stop, poll_cycle, write | a join that times out; a file closed under a write; a session closed under a cycle | one cycle lost at most; the thread ends once asked |
| Diagnostic work in the studio (`gui.py`, `_obd_*`) | session, client, `diag_busy`, poller | identify, read, poll, stop, disconnect | results that come back after what they belong to is gone | one request at a time on a session; never busy for good |
| J1979 client (`diag/j1979/`) | none but the session | read_pid, discovery, DTC, readiness, VIN, clear | several ECUs, refused, lost and late answers, continued masks | what is reported is what an ECU said, and whose |
| Vehicle profiles (`diag/profiles/`) | a library in the window, another in the tools | load, resolve, match, apply, reload | inheritance, cycles, files edited under open sessions | a session has the profile its vehicle asks for; the nearest definition decodes |
| Agents (`a2a_server.py`, `mcp_server.py`, `agent_security.py`, `diag/security.py`) | the bus; environment switches | messages, tools, gates | keywords anywhere in a text; four gates in order | nothing is sent that was not asked for and allowed; the answer says what was sent |
| Standalone servers (`mcp_server.py`, `a2a_server.py`, `diag/mcp_tools.py`) | globals without a lock, capture thread | connect, disconnect, obd_connect, obd_disconnect | calls on several threads; a loop nobody joins | links are accounted for; capture threads end |
| Latency tracker (`latency.py`, `latency.rs`, the Rust window) | pending pings, statistics | send, answer, expire, reset | numbers two tools share; expiry and reset racing answers; reflections | an answer is counted once, for an open ping |
| CANopen layer (`stack/`, `simulators`, `gui.py`) | trace, node table, SDO panel | process, refresh, SDO, NMT | capture thread against Tk; two simulators, two classifiers | the trace keeps the newest; the panel shows the object it names |
| NMT master (`nmt.rs`, the Rust window) | nodes, last heartbeat, timeout mark | process_frame, check_timeouts, count | clocks that disagree or go back | what is reported is true, and a silence is reported once |
| Codecs (`frame.rs`, `slcan.rs`, `udp.rs`, `pcap.rs`, `vcd.rs`, `bitstream.rs`, `eds.rs`) | slcan's line buffer | encode, decode | partial lines, stuffing | decoding undoes encoding |
| Front ends (`gui.py` widgets, `crates/canopen-gui`, `crates/canopen-cli`, `sniffer.py`, `updater.py`) | presentation | - | - | - |

How they meet: one capture loop (`_rx_loop`) owns the bus. It hands every frame
to the bridge, to the queue of the native diagnostic session, to the latency
tracker and to the CANopen layer, in that order. The Tk thread opens and closes
links; opening runs on a thread of its own and comes back as a callback queued
with `after(0, ...)`. Agents run on the threads of the MCP and A2A servers,
open links there, start bridges there, and queue callbacks too. A diagnostic
session is called by the studio's worker threads, by the poller's thread and by
agents, and has one lock. The J1979 client and the profiles are what they call.

## 2. The modules

| module | models | state and actions |
|---|---|---|
| `TraceLog` | what a trace buffer promises | the log of pushes since the last clear; `Invoke`, `Return`, atomic in between |
| `TraceRing` | `ring_buffer.rs` | `Vec`, `head`, `total`; `Acquire` takes one lock, the bodies run with all of them |
| `BufferProofs` | theorems about `NativeFrames` and `TraceRing` | |
| `IsoTp` | `segment`, `process_frame` | operators only: `Segment`, `ProcessFrame` and its cases |
| `IsoTpRoundTrip` | `segment` against the reassembler | `Feed`, one frame after the other |
| `NativeFrames` | the way of a frame from the bus to the session | `QueueFrameSource.feed` in its steps, `_request`'s reset, `_feed` |
| `NativeCollect` | `_request`, `_send_request`, `_collect` on whole messages | deadline and settle window as countdowns, `Tick`; `Begin` clears, `SendRequest` sends, `Held` waits for flow control |
| `ElmReplies` | what an ELM327 prints, and `clean_reply`, `_request`, `_collect` | one line per frame, some spoilt; the reassembler of the session |
| `ElmSession` | `DiagnosticInterface`, `ElmProtocol.send`, `BleElmTransport` | a program counter per thread, the exchange lock, the transport's client and loop |
| `StudioConnection` | `Link`, `_connect_link`, `connect_from_mcp`, `_link_opened`, `_disconnect`, `_rx_loop` | of each link its phase and what it holds, a simulator's lock and a simulator not yet ended among it; the studio's fields, the Connect button among them; Tk's callbacks |
| `StudioBridge` | `start_bridge`, `stop_bridge`, and who calls them | `bus` and `bridge`, each thread between its tests and its stores |
| `Bridge` | `CanBridge` | both threads statement by statement, both buses, the stamps |
| `BridgeProofs` | theorems about `Bridge` and `StudioBridge` | |
| `StudioTimers` | the timers and loops of `gui.py`, `_bus_or_warn` and `_link_opened` with their message boxes | ids armed and ids Tk has yet to call; what stands in a box |
| `PidPolling` | `PidPoller`, `CsvRecorder` | where each polling thread is, its stop event, its file |
| `StudioDiagnostics` | `_obd_*` and `_disconnect` in `gui.py`, `Link.diagnostic_session`, `obd_connect`, `obd_disconnect` | the studio's session, work in flight, Tk's callbacks, an agent's session; composes `PidPolling` |
| `StudioDiagnosticsProofs` | theorems about `StudioDiagnostics` and `PidPolling` | |
| `StandaloneServer` | `connect`, `disconnect` and the diagnostic tools without a studio, both servers' capture loops | the globals, each agent between two looks at them |
| `StandaloneServerProofs` | theorem about `StandaloneServer` | |
| `PingLedger` | what a latency tracker promises | of each ping: none, open, answered, dropped |
| `PingNetwork` | `latency.py`, `latency.rs`, `ping_bus`, the echo of either window | trackers, datagrams, calls under way |
| `PingNetworkProofs` | theorems about `PingNetwork`, and that it implements `PingLedger` | |
| `ObdSession` | the J1979 client, `obd_clear_dtcs` and the gate before it | a vehicle, the call under way and its answers |
| `SessionProofs` | theorems about `ElmSession`, `NativeCollect` and `ObdSession` | |
| `VehicleProfiles` | `diag/profiles/`, and its use by the window and by the tools | the directory, two libraries, two sessions |
| `AgentRequests` | the A2A dispatcher, the MCP tools that send, origin and host checks, the write gate | requests tried in the code's order; what is sent and what is answered |
| `StudioProofs` | theorems about `StudioConnection`, `AgentRequests` and `VehicleProfiles` | |
| `CanopenLayer` | classification and decoding, with and without `canopen_core` | operators only |
| `CanopenStudio` | capture, trace, node table, SDO panel, NMT, both simulators | the capture thread and the Tk thread in their steps |
| `NmtMaster` | `nmt.rs` and the Rust window's count | the table, the marks, what the returned values tell a caller |
| `CanopenStudioProofs` | theorems about `CanopenStudio`, `StudioTimers` and `NmtMaster` | |

The `MC_` modules give the constants their values. Four of them gather modules
that share no state, so that one run asks the questions of a layer; a behaviour
exercises one part. `MC_Native` has the parts round trip, frames, printed and
collect; `MC_CanopenStudio` frames, timers and heartbeats; `MC_Bridge` one bridge,
and who starts them; `MC_AgentTools` requests and profiles.

Two abstract specifications are implemented, by theorem as well as in a run.
`TraceRing` EXTENDS `TraceLog` and
carries the log as history variables, so that `ImplementsLog == LogSpec` needs no
mapping: `Push` and `Clear` update both where the body runs with its locks held.
`PingNetwork` shows `LedgerKept == Ledger!Spec`, with `INSTANCE PingLedger WITH`
the outcome of each ping computed from the trackers' pending maps and histories:
neither program's expiry, answer or reset may settle a ping twice, although the
Rust one keeps its counters beside its map.

A link is opened and closed in one step in `StudioDiagnostics`: how that goes is
`StudioConnection`'s subject, as how an exchange goes is that of `ElmSession` and
`NativeCollect`. Definitions whose comment begins with "Mutant" are plausible
slips in the code; no specification uses them, and replacing the definition after
one by it breaks the property `PROJECT.json` names.

Abstractions that hold throughout: a frame, a payload and a byte are told apart
and nothing more, except in `CanopenLayer`, whose numbers are the real ones; time
is nondeterministic (a timeout may happen whenever the code may reach it), except
where windows are compared and so are counted in ticks (`NativeCollect`,
`PingNetwork`, `NmtMaster`); widgets, wording and logging are left out.

A property may be a conjunction of named parts that say one thing together, each
stated and commented on its own: `FramesKeepTheirMessage`,
`AnswerIsHonest`, `ExchangesKeepApart`, `LinksAccounted`, `WhatBeginsEnds`,
`StopIsClean`, `SessionServesItsLink`, `ConnectionAccounted`, `FiguresAreTrue`,
`ProfileIsTheVehicles`, `AnswersAreTrue`. The modules also have type invariants;
they are in no run, to leave the time to the others; that of `TraceRing` is a
theorem, those of section 4 are parts of the inductive invariants.

## 3. The runs

| run | bounds | what it shows |
|---|---|---|
| `trace_ring` | 2 threads, 2 frames, 3 slots, up to 6 pushes between clears | the ring wraps twice, is cleared after a wrap and read meanwhile; no deadlock; every call is one atomic step of `TraceLog` |
| `native` | round trip: the code's own sizes, lengths 1-24, 111-125, 230-240; frames: 2 ECUs, chunks of 2 bytes, numbers modulo 3, a queue of 2, 1 malformed frame, 1 later request, 1 short message; printed: answers of 4 and 2 bytes, 2 requests, 2 spoilt lines, 1 line of chatter; collect: 2 ECUs, windows of 2 and 1 ticks, 2 extensions, requests of 1 or 3 frames, 2 requests, 2 frames queued | both sides of every boundary of the segmentation; a message wraps, pads its last frame and overruns the queue; an ECU that asks for time past the limit, a late reply, also one fed between the clearing and the sending, late flow control, a reply in the settle window of another, a frame that cannot be sent |
| `elm` | 2 threads, 4 commands, 2 timeouts | requests, voltage readings and closings in every order, on an adapter that may go away or not let itself be disconnected |
| `studio` | 2 links of four kinds, agents, 2 pending callbacks | a second opening racing the first, a disconnect and a reconnect, each opening step failing; a simulator of Rust closed while it answers, one of Python that outlives its bus |
| `bridge` | 1 signature, 3 frames from each side, 1 failed send, any number without a reflection; 2 agents and the window, 2 links, 2 bridges | reflections crossing sends or missing, stop in every position of both threads; starts and stops that meet each other, a disconnect and a second link |
| `diagnostics` | 1 agent, 2 links of either kind, 2 native sessions, 1 poller of 1 PID | what began on one link ends on the next; a poller stopped, its join timed out, its link closed under it |
| `server` | 2 agents, 2 links, 1 native session | two connects, a connect and a disconnect, a session and a disconnect at the same time |
| `ping` | 1 studio, 1 viewer, 2 numbers each, 2 pings in all, 2 datagrams under way, a timeout of 1 tick | both tools use the same numbers; answers come late, twice, to the wrong tool, after a reset |
| `obd` | 2 ECUs, 63 vehicles, blocks of 4 PIDs, 2 calls, 1 late answer | every call of the client on vehicles that differ in support, monitors, codes and fuel |
| `canopen` | a trace of 2 frames, 2 sub-indices, 2 frames sent, 2 further events, 3 foreign frames; 2 loops, 2 disconnects; 2 nodes, stamps {0, 1, 4, 5, 6}, intervals {2, 3} | frames recorded while a refresh replaces the list, answers that come after the question has changed; timers, and a link whose bridge failed, in a message box; clocks that jump |
| `agents` | messages of up to 3 words out of 17 and some longer ones; nodes, bytes and subindices up to 255 and one above; 7 directories, 4 vehicles, 1 edit, a depth of 4 | every order of keywords the dispatcher can meet; frames that cannot be made; inheritance, cycles, a file that is skipped, one that raises, one without a parent, edited under an open session |
| `obd_cleared` | as `obd`, 1 call, nothing late | a finding, see below |

Bounds on counters appear as guards of the actions of the environment (the constants
marked "bound"), never of a step that the code must be able to take, with one
exception: writing a command in `ElmSession` stops at `MaxCommands`, and
`CallsReturn` says so. `MaxPending`, `Capacity`, `Keep` and the queue's size are the
code's, scaled down so that the limit is met. One signature is enough for the
bridge: stamps and reflections of another one are other entries of the same
dictionaries. Two threads or agents are enough for `elm`, `server` and `bridge`: the
hazards are between one that has tested something and one that changes it. The
safety properties of `diagnostics` also held on larger instances that take too long
to be run every time (two agents with one poller, one agent with two). Deadlock is
checked in `trace_ring`, `ping` and `agents`, where something can always happen; the
others stop legitimately, at their bounds.

### Fairness

Safety needs none. For liveness, weak fairness is on the program's own threads
(they are scheduled, and each of their steps is enabled until taken) and on time:

* `NativeSpec`: the round trip's next frame. The other parts of `native` have no
  liveness property.
* `ElmSession`: the steps of each caller, its deadline, the adapter's answer, and
  the callback of a lost connection.
* `StudioConnection` (while the GIL can be had), `StudioDiagnostics`: Tk's
  callbacks, the opening thread, the capture loops, the workers (a request has a
  timeout), the poller's thread. `stop()` joins with a timeout.
* `Bridge`: both threads and a `stop()` under way.
* `StandaloneServer`: a call under way and the capture threads.
* `PingNetwork`: `Tick`, the refresh of a window, and a ping a caller has begun.

Nobody is made to call, connect, disconnect, send or stop.

### Where the code and its comments part

`obd_cleared` looks for what a comment promises and finds a counterexample.
`obd_clear_dtcs` answers `"cleared": True` (`diag/mcp_tools.py:506`) whenever the
request went out, also when no ECU acknowledged it and the codes are read back
unchanged; the comment three lines above says that "the answer reflects the
vehicle rather than the request". (Conversely, a request that failed after it was
transmitted is reported as refused, line 500.)

Two more have no run, because a run would only repeat a line of the code.
`ring_buffer.rs:47` calls `total_pushed` the "total number of frames pushed into this
buffer over its lifetime", and `clear()` sets it to 0 (line 69). `TraceLog` and
`RingHoldsNewest` follow the code: the counter counts since the last clear.
And `diag/profiles/library.py:82-85` says of a file that does not parse that it is
skipped, so that one bad file cannot take the others down; but `load` catches
`ProfileError` only. A year that is no number (`model.py:104`) or a byte that is not
UTF-8 raises something else and ends the load of every file, an identification in the
window with it. `VehicleProfiles` has both kinds of bad file.

The following are stated in the modules and are not invariants either. Adding one
as an `INVARIANT` to the cfg of its run gives a short trace; those written with a
`!` belong to an instance and need a name in the `MC_` module first.

* `PendingEcuKeepsItsWindow` (`native`) - ECU A is granted "another full window"
  (`diag/native.py:283`), ECU B answers, and 50 ms later the call returns without A:
  there is one settle deadline for all.
* `EarlyAnswerIsReturned` (`native`) - what comes before the flow control of a long
  request, a refusal included, is thrown away. And it is any flow control: of any
  source and status, also one that refuses or belongs to another tester.
* `RepliesAreToThisRequest` (`native`) - a late reply that is fed after `_request` has
  cleared the queue, be it before the request goes out or later, is returned as an
  answer to it.
* `BadLineCostsItself` (`native`, `Printed!`) - a line too long for a frame ends the
  call with a `ValueError`, and a status word drops the data of all lines.
* `OneExchangeAtATime` (`elm`) - `close()` and `read_voltage()` send without the
  lock that "one exchange at a time" (`diag/interface.py:192`) speaks of.
  `ExchangesKeepApart` is what the lock does give.
* `NothingHalfOpen` (`studio`) - an ELM327 that fails after its transport has
  opened keeps it: the open flag is raised last, and `close()` does nothing without
  it, while `link.py:202` says that nothing is left half open.
* `NeverFrozen` (`studio`) - `stop()` of the Rust simulator asks for the write lock of
  its state with the GIL held (`pyo3_bindings.rs:1113`); the simulator holds that lock
  while it takes the GIL to send an answer (`simulator.rs:106-190`). A link closed at
  that moment freezes the program. The comment in `stop()` sees the same of the join,
  which it makes without the GIL.
* `SimulatorEndsFirst` (`studio`) - Python's own simulator, used without the Rust
  core, is told to stop and not joined (`interfaces.py:433`): its last round may send
  on a bus that is shut down, and passes over what that raises.
* `SessionEndsWithLink` (`diagnostics`) - `_disconnect` closes the session "so it
  cannot outlive" the bus (`gui.py:2475`), but an identification whose thread is
  done adopts its session after the link is gone. `HeldOff` and
  `SessionServesItsLink` show that it does no harm to a later one.
* `EveryBridgeIsTheStudios` (`bridge`) - a bridge whose start meets a disconnect
  mirrors the next connection, asked for or not; of two starts that meet, one bridge
  is lost with its network bus; a second link that is adopted (`_link_opened` has no
  guard) leaves the bridge on the first; and a disconnect that meets `stop_bridge`
  ends with an `AttributeError` before it has closed the link.
* `QuietWithoutLink`, `OneLoopEach` (`canopen`) - timers can be started
  without a link and go on, and a quick reconnection doubles the refresh loop.
* `ReportsTellAll` (`canopen`) - a node that falls silent and comes back in the state
  it had is not reported: `process_frame` returns changes of state only
  (`nmt.rs:109`), while the table counts the node as active again.

### Conditions of the properties, and what they leave out

* `FramesKeepTheirMessage` exempts messages a consecutive frame of which lost
  bytes: `isotp.rs:170` takes what is there and shifts the rest.
* `AnswerIsHonest` begins where `_request` has cleared the queue: nothing that was there
  before is returned. What it cannot say is above (`RepliesAreToThisRequest`). Of
  extensions it keeps only that a call which returns nothing has let them run out.
* `ExchangesKeepApart` matches answers until the first timeout: the late reply may
  arrive after the next command has discarded the input, and is then its answer. Nor
  does it say anything of the answers `close()` and `read_voltage()` read.
* `AdapterLetGo` is about a close that is the only one, and whose disconnect neither
  raises nor outlasts its 5 s: that is swallowed (`ble.py:296`), and the client is
  forgotten with the adapter still held. Of two, the second may stop
  the event loop under the first's disconnect, and the adapter stays taken. After a
  loss, `open()` does nothing until somebody closes, and a read raises though data
  are there.
* `LinksAccounted` lets a closed link keep the transport of an ELM327 whose set-up
  failed and a thread of Python's simulator that has been told to stop. It leaves
  out, of its parts, the one about links nobody can close once an agent has
  connected: `connect_from_mcp` (`gui.py:2232`) tests and raises `link_opening` on
  another thread, and two links may be adopted, the first of which is lost. An agent
  that is only refused lowers the flag the user's opening has raised
  (`gui.py:2239`); what keeps the user from opening a second link then is that the
  button is disabled (`gui.py:2281`), which is why the model has it.
  `WhatBeginsEnds` is about a program that has not frozen, and allows for a
  reconnection: a capture loop that has not seen `running` fall (`gui.py:2451` does
  not join it) goes on beside the new one. `ConnectionAccounted` and
  `CaptureThreadsEnd` have the same conditions on agents and reconnections; that the
  stop of a simulator may freeze, as above, is not modelled again in
  `StandaloneServer`.
* `NothingInvented` exempts frames repeated while still under way (one stamp for
  two reflections, `bridge.py:176`) and, on a bus that sends after shutdown, what
  happens after `stop()` has cleared the stamps (`bridge.py:112`).
  `OnlyReflectionsDiscarded` exempts the same frames, and lets a direction discard as
  many frames as it sent that failed or were not reflected (an adapter need not echo, a
  UDP bus does not hear itself, `link.py:226`): the stamp of each stays for 0.25 s and
  costs the other side an equal frame. `BridgeKeepsToItsLink` exempts bridges that
  another thread came across while they were started, and lets one that runs go on
  with its bus when another link takes the place of its own.
* `TimersInHand` speaks of the loops of a link when no link stands in the box that
  says its bridge failed (`gui.py:2328`): until that is dismissed, it has none.
* `ReportsAreTrue` promises a caller no more than the truth: see `ReportsTellAll`.
* `SessionServesItsLink` is, where agents are concerned, about agents that do not
  connect or disconnect at the same time: the globals of `diag/mcp_tools.py` have
  no lock. `SourcesAccounted`, a part of `ConnectionAccounted`, has the same condition.
  So two overlapping calls of agents, the worst of that hazard, are in the models, and
  no property promises anything of them.
* `FreeAgain` needs somebody to ask a poller to stop when the session it polls was
  closed: `NotConnectedError` is no `TransportError`, so `poll_cycle` counts it
  (`polling.py:168`) and asks the next PID. What python-can raises is caught nowhere.
* `FiguresAreTrue` holds `ping_bus` to its answers, except that it also reports a
  success for a ping that expired or was reset meanwhile. `PingsSettle` is about
  studios: a viewer drops stale pings, and refreshes its rates and NMT timeouts,
  only when a frame arrives, although its comment says "regardless" (`main.rs`).
* `TraceKeepsNewest` exempts frames recorded between the slice and the store of a
  refresh, which are lost. `ReplyIsTheObjects` allows for an older value and for
  the acknowledgement of a write (0); `TableShowsLastBeat` for a node guarding
  frame, which `canopen_core` takes for an unknown state.
* `ReadinessRight` holds a monitor to the ECUs that implement what was asked: an ECU
  with PID 0x01 but without 0x41 does not answer a readiness of this cycle, and its
  monitors are not in it.
* `DtcsAsSent` exempts codes sent without a count that look like one: the guess
  (`dtc.py:169`) is wrong there, and nothing in the code tells it.
* `ProfileIsTheVehicles` and `NearestDefinitionDecodes` are about sessions as they
  were identified: a reload in the window leaves a session of the tools on the old
  files, and the other way round. A file with `extends: ""` has no parent
  (`model.py:146`), and its sessions are without the generic profile: the second
  property follows the lineage as the files make it. Between resolving and adopting,
  and between the reload of the library and that of the session, the tools store
  several globals (`mcp_tools.py:222-225, 561-565`), in one step here. What the
  window's chooser lists is taken to be read when it is used.

Smaller things met while modelling: 0x473 is taken for a frame of node 115, and a
command's target for a node discovered; SEVCON's 0x270 is also decoded as a
controlword; the simulator in Python answers without ever having been initialised
with a state; writes of `uint16` and `uint32` in the upper half of the range are
refused, because "int16" is a part of "uint16". "stop sync" broadcasts an NMT stop,
"send sdo read" sends a frame, "connect ... simulate", the example of the agent
card, raises. `process_frame` takes a 29-bit 0x701 for a heartbeat, and the A2A agent
cannot address a node above 255: `can.Message` raises, which it answers with a server
error. `sdo_read` of an index above 65535 asks for its lower two bytes and names the whole
of it in its answer.

## 4. The proofs

Every theorem holds for all values of the constants that satisfy the assumptions
named here, and for behaviours of any length. Each proof has the same shape: an
inductive invariant, a lemma that `Init` implies it, a lemma (or one case) per
action that the action preserves it, a step lemma over `Next`, and the theorem,
which adds that the invariant implies the property.

Of the trace buffer, `BufferProofs` proves, for every capacity, every set of threads
and any number of pushes: `TypeCorrect`, `HoldsNewest`, `SnapshotHead`,
`NeverGridlocked` and `RingImplementsLog`. The assumptions are `CapacityAssumption`
(a positive capacity, asserted by `TraceRingBuffer::new`) and `LimitsAssumption`
(limits are naturals).

`RingHoldsNewest` alone is not inductive: after a push it depends on where
`head` is while the ring is not full, and a snapshot's answer on nobody having
moved `head` since it was copied. `IInv` adds that `head` rests at 0 until the
ring is full (`HeadRests`), that a thread has taken no more locks than its
operation needs (`StageInRange`), and that a writer's locks exclude everybody
(`Exclusion`). The step proof has one case per action; a push into a full ring is
the one that needs arithmetic, and rests on lemmas about `SubSeq` and `Newest`.
`NeverGridlocked` asks whether a writer holds the buffer: if so, it
is done or finds its next lock free, unless a `total_pushed`, which then is done,
has it; if not, any reader can go on, and without a reader no lock is held.

Of the frames of a native session, `BufferProofs` proves `FramesArrive`
(`FramesKeepTheirMessage`), for any ECUs, messages, queue, and sizes of frames.
`SizesAssumption` and `ScriptAssumption` say that chunks and messages are not empty,
that messages fit a transfer, and that a consecutive frame which lost a byte has one
left. The property speaks of what was handed over; the invariant has to speak of all
that is still to come. `FramesInv` puts the frames of an ECU in one order, by message
and place in it (`Before`): those in the queue, the one the capture loop holds, and
those the ECU has not sent. Whatever happens to the queue takes frames from that row
and changes no order (`WayInv`). What has been delivered comes before all of it
(`DeliveredInv`), so that nothing comes twice. A transfer is of one message, which all
consecutive frames to come belong to (`TransferInv`), and that a gap in it cannot go
unseen is arithmetic: the sequence number wraps, so a frame after a gap of a whole
turn does fit, but then what is left of the message is too short to fill the transfer
(`Whole`), which the next first frame ends. `LosslessInv` is the other half: while
nothing was lost, what is to come goes on exactly where the transfer or the delivery
ends (`GoesOn`). A flow control frame plays its part in this: a first frame on its way
means that its ECU waits, and that no consecutive frame is behind it.

`CanopenStudioProofs` proves five theorems. `ReportsStayTrue`: `ReportsAreTrue` for
any nodes, bytes, stamps and intervals in the naturals (`TimesAssumption`,
`NoIntervalAssumption`). `MasterInv` ties the mark of a node to the one report of
its silence, and that report to a silence of more than one and a half intervals, as
it was when the report was made; what was told of a node is its state, and a node
that the table has marked as silent is one the caller believes gone, though not the
other way round. There is one lemma per action, and `GraceIsHalf` for the rounding
of the interval's half. `TimersStayInHand` (`TimersInHand`): a timer has the one
tick that `_disconnect` would cancel, or stands in one message box, or is off; with
a box on the screen the timer in it has nothing pending (`Chained`), which is why
dismissing it cannot start a second chain. `LoopsInv` is what the property says of
the loops, for any number of links adopted over one another. `NewestAreKept`
(`TraceKeepsNewest`, any `Keep` above 0 as `KeepAssumption` says): outside a refresh
the trace is a whole end of what was recorded (`WholeEnd`), and what a refresh has
sliced is one too, although the capture thread appends to the list that is about to
be replaced; the order follows from the numbers being older than the frame that is
on its way (`Dated`). `BeatsAreShown` (`TableShowsLastBeat`, any foreign frames with
an identifier, `ForeignAssumption`): both classifiers take exactly the 11-bit
identifiers 0x701 to 0x77F for the state of a node (`HeartbeatsFound`,
`FrameParsed`), and a node with a heartbeat has an entry in both tables.
`RepliesAreTheObjects` (`ReplyIsTheObjects`) is about any objects, downloads and
speeds (`BytesAssumption`: bytes are bytes, an index and a speed are words) and any
foreign frames that do not bear the server's own identifier (`ServerAssumption`; the
panel tells who answers by nothing else). A frame is `Truthful` when the value in it
is one the object it names has had. Every frame on its way to the window, in the
trace and in the slice of a refresh is (`AnswerInv`), because the node holds what
its objects had last (`SimTruthful`) and an answer names the object that was asked
for: index and value come back out of their bytes as they went in (`TwoBytes`,
`ReplyTruthful`).

`SessionProofs` proves eight theorems about sessions and the client on them.
`SharingIsSafe` (`ExchangesKeepApart`) and `CloseLetsGo` (`AdapterLetGo`), of
`ElmSession`, hold for any threads, commands and timeouts; `ThreadsAssumption` says
that the free lock is no thread. The invariant has four parts. `LockInv` pairs the
place of each thread with its call and the lock with the one request on the wire.
`OpenInv` is why an opening thread needs no lock: nobody else can call more than
`read_voltage()` before the flag is up. `CloseInv` follows a single close from the
client over the adapter, unless its disconnect failed, to the loop, which the property
states only at its end.
`WireInv` is the reason for the matching of answers: until a timeout or a call that
goes past the lock, at most one reply is under way, it is the reader's, and the
input is empty when nobody reads. None of this survives a timeout, as the
property's condition says.

`WaitEnds` (`WaitIsBounded`) and `AnswersAreHonest` (`AnswerIsHonest`), of
`NativeCollect`, hold for any ECUs, windows, extensions and lengths of requests
(`TimesAssumption`: the settle window is positive and shorter than the timeout, as
0.05 s and 2 s are). `BudgetInv` is a potential: what was waited plus what is left
of the deadline stays within a timeout for each extension granted and one more.
`SilenceInv` says that without an answer there is no settle window and the deadline
covers what was promised, from which an empty result means a whole window. `HeardInv`
says that what is in the queue was fed since the clearing; when the request went out
plays no part in it.

`DiscoveryIsExact` (`DiscoveryExact`), `ReadingsAreFiledRight` (`ReadingsBelong`),
`ReadinessIsRight` (`ReadinessRight`) and `CodesAreAsSent` (`DtcsAsSent`), of
`ObdSession`, hold for any ECUs and vehicles, any size of a block of PIDs and any
number of calls, answers that are lost, refused or late included. `CarsAssumption`
says what an ECU is: it implements PIDs above 0, those that announce a later block
of its PIDs among them, and has its codes as pairs of bytes that are not both zero;
`BoundsAssumption` that a block is not empty. `ObdInv` says of each call under way
what it owes its end. A walk over the support bitmasks has claimed nothing false
and, while no answer was lost or late, nothing is missing up to the block it is at
(`WalkInv`), although it goes on to the next block as soon as one ECU announces it:
an ECU that has PIDs there announces it, and the others do not answer. The readings
of a freeze frame wait under the ECU that gave them (`HeldInv`, `FrozenInv`,
`ValuesInv`), and the answers that are to be named wait until the engine's
controller was asked (`IgnitionInv`). All that is ever heard is an answer of an ECU
of this vehicle (`Honest`), which is what `Echoes` sorts. `CodesAreAsSent` needs no
invariant but lemmas about the payload: the bytes of codes are read
back as these codes, and padding with them as none (`WordsReadBack`), whichever of its
two readings `ParseDtcPayload` settles on (`ParsedAsSent`).

`BridgeProofs` proves `LoopProtection` (`NothingInvented`) and `NothingWithheld`
(`OnlyReflectionsDiscarded`) of `CanBridge`, for any signatures, frames, failures
and moments of `stop()`, and `BridgesKeepToTheirLink` (`BridgeKeepsToItsLink`) of
the threads that start and stop bridges, for any number of them
(`AdoptionsAssumption`: the bounds are naturals). The properties count frames over a
whole behaviour; the invariant accounts for the one that is under way now, per
signature that was never repeated. It is in one place at a time (`OneCopy`); what
was passed on, and the frame that is about to be, came from the other side
(`Passed`); and each stamp is covered by a send of the bridge that no discarded
frame has been set against, reflected or not (`Matched`). The stores of
`start_bridge` are covered by `BridgingInv`: a start that nobody came across finds
the fields as it left them, or its link replaced (`Undisturbed`), and a bridge whose
start is over is the studio's while nobody is between a test and a store
(`Settled`).

`StandaloneServerProofs` proves `NothingIsLeftBehind` (`ConnectionAccounted`) for
any agents, links and sessions (`BoundsAssumption`). `ServerInv` says how far each
connect has come (`Connected`), what there is when nobody connects (`Standing`,
`LinksInv`), that a session and its queue belong to the current link
(`SessionInv`), and that the A2A server serves one call at a time and keeps
neither link nor session (`A2aInv`). Each part is conditional on the calls that
were under way together, which `CallsInv` shows to be recorded.

`PingNetworkProofs` proves `FiguresHold` (`FiguresAreTrue`) and the refinement
`LedgerIsKept` (`LedgerKept`: `Spec => Ledger!Spec`, each step mapped to a step of
`PingLedger` or a stutter) for any studios and viewers that are different tools
(`ToolsAssumption`) and natural bounds (`BoundsAssumption`). The difficult part is a
counter kept apart from the map it counts: `Balance` says that the answers counted or
about to be, and the open pings, are together at most the pings counted as sent or
about to be, and what remains of that inside a viewer's reset. `NumberInv` (numbers
given, answers once), `CallInv` (two callers hold different pings), `AgentInv` (a
ping is no older than its agent has waited) and `WireInv` (whose echo is under way)
support it. Cardinalities rest on `FiniteSetTheorems`.

`StudioDiagnosticsProofs` proves `OneCycleAtMost` (`AtMostOneCycleLost`),
`RequestsHeldOff` (`HeldOff`) and `SessionsServed` (`SessionServesItsLink`) for any
links, sessions, pollers, agents and PIDs (`PidsAssumption`: at least one PID, as
`_obd_poll` requires). `StudioInv` collects what the window keeps true without a
lock: how many samples each polling thread may owe its file (`LostInv`), what holds
`busy` up, one worker or one poller (`BusyInv`), that a session belongs to a link
that was opened (`LinkInv`), which one the capture loop feeds (`FedInv`), and how the
globals of the tools agree while agents do not overlap (`ToolInv`). `LeftInv` is what
makes it inductive: a poller that outlived the join in `_obd_stop` polls a session
that is closed for good, so that it cannot meet the requests of a later one.

`StudioProofs` proves `LinksStayAccounted` (`LinksAccounted`) of `StudioConnection`
for any links and agents (`KindsAssumption` names the four kinds of link). In
`ConnectionInv`, `LinkInv` says of each phase what a link holds: while it opens, the
simulator comes last and finds its bus (`IsOpening`); while it closes, what the
steps done so far let go of is gone (`IsClosing`, `Gone`). `HandOverInv` follows a
link through Tk's callbacks: it is open, is not the studio's yet, and comes once.
The lock of a simulator and one that is ending are parts of what a link holds, and
are carried along with it.
`OneAttempt` says that the attempts of a user who is the only one to connect follow
one another; it rests on the button, not on `link_opening`.

`AgentsSeeWhatHappened` (`AnswersAreTrue`) is about any messages, calls and gates
(`RequestsAssumption` tells the three apart). `Outcome` holds of every handler by
itself, frames that cannot be made included, and a lemma says that one of them takes
the message and which one, when it only looks.

`ProfilesStayTheVehicles` (`ProfileIsTheVehicles`) holds for any profiles, depths of
inheritance and edits.
`ProfilesInv` says that the match of a session fits its vehicle from its resolution
on, through every reload (`Fitting`): each of the three stages, and the fall back to
the generic profile, is a lemma about `Resolve`. `NearestDefinitionsDecode`
(`NearestDefinitionDecodes`) is about any files whose identifiers are not `None`
(`DisksAssumption`). `DecodesInv` keeps the library of a match and the table taken
from it (`OfLibrary`) whatever becomes of the files since; the rest is about the
operators, by induction over the length of a chain (`Segment`): a chain that ends is
made of profiles of its library and ends in the one asked for (`ChainOfProfiles`),
and a merged table has each definition from the nearest layer (`NearestLayer`).

Three attempts at a proof have changed the model. `NoOrphan`, a part of
`LinksAccounted`, could not be proved and is false with three links when, as in an
earlier version, the button can be pressed at any time: with two links TLC had not
met it. And `ReadinessRight` was stated of every ECU with the status PID, which TLC's
vehicles satisfied because no monitor was complete in the one ECU and not in the
other; now one is. Third, the values an object has had did not begin with the name of
the device, for the object that is the name; the download of a foreign master whose
frame is too short for its bytes was taken, which `expedited_download_payload`
refuses.

Only model-checked:

* all liveness (`EveryMessageArrives`, `CallsReturn`, `WhatBeginsEnds`,
  `StopIsClean`, `FreeAgain`, `CaptureThreadsEnd`, `PingsSettle`): it rests on
  fairness, which the prover cannot reason about;
* `RepliesAsPrinted`: the reply is a fold over the lines, and the lines of several
  ECUs mix.

## 5. Plan

1. slcan's line buffer over a serial stream, the CAN bit stream's stuffing.
2. Capability probing and protocol selection of the ELM327, its serial and TCP
   transports; a native session that owns its bus.
3. PDO mapping and telemetry in Rust.

## 6. Not modelled

Presentation (Tk and Slint widgets, CLI and extcap argument handling, colours,
tables), the sniffer (one loop around an adapter), network access (updater, the
HTTP layer of the agents' servers), file formats written for other tools (pcap,
VCD), the PID formulas (pure functions of a table), the importers of vehicle
profiles (text parsers), CI and packaging. They keep no state that another
component relies on, or none whose order could go wrong. The BLE and serial
libraries, python-can, Tk and the ECUs are outside the repository; where they act,
they are actions of the environment, marked external in `PROJECT.json`.
