---------------------------- MODULE CanopenStudio ---------------------------
(* The CANopen side of the connected studio: simulated nodes on the bus,    *)
(* the capture thread that classifies, counts and records every frame, the  *)
(* refresh of the window that trims the trace by putting a shorter list in  *)
(* its place, and the SDO panel, which looks for its answer in the trace    *)
(* once, 200 ms after it asked. The capture thread and the Tk thread        *)
(* interleave; both simulators and both classifiers are here.               *)
EXTENDS CanopenLayer

CONSTANTS
  Keep,          \* the trace is trimmed to this many frames (500)
  Objects,       \* the <<index, sub-index>> the user asks for
  Writes,        \* the byte strings the user downloads
  Commands, Targets,   \* the NMT command bytes the user sends, and to which nodes
  Foreign,       \* frames other nodes and masters of the bus may send
  Speeds,        \* the speeds the simulated drive turns at
  MaxSent, MaxEvents   \* bounds: frames the user sends, other events

Words == {w \in Nat : w < 65536}        \* the numbers of 16 bits

ASSUME KeepAssumption == Keep \in Nat \ {0}
ASSUME ForeignAssumption == \A f \in Foreign : f.cid \in Nat
\* Frames and downloads are of bytes, an index and a speed of a word.
ASSUME BytesAssumption ==
  /\ \A f \in Foreign : f.data \in Seq(0..255)
  /\ \A b \in Writes : b \in Seq(0..255) /\ Len(b) \in 1..4
  /\ Objects \subseteq Words \X (0..255)
  /\ Speeds \subseteq Words
\* Nobody else uses the identifier the server answers under.
ASSUME ServerAssumption == \A f \in Foreign : f.cid # \h581

VARIABLES
  native,        \* whether canopen_core could be imported
  sim,           \* the simulated nodes
  toNodes, toStudio,   \* frames on the bus, either way
  nodeStates,    \* canopen_layer.node_states
  discovered,    \* discovered_nodes
  telemetry,     \* telemetry_data
  stats,         \* total_rx, total_tx
  captured, list,      \* the frames of captured_messages, and which list it is
  paused,        \* trace_paused
  rx,            \* where the capture thread is
  refresh,       \* the trace as sliced by a refresh that has yet to store it
  waits,         \* objects whose answer will be looked for
  label,         \* the outcome the SDO panel shows
  events,        \* how many events there were, of those that are bounded
  announced,     \* history: the last heartbeat of each node
  held,          \* history: the values each object has had
  recorded       \* history: frames recorded apart from any refresh

vars == <<native, sim, toNodes, toStudio, nodeStates, discovered, telemetry, stats, captured,
          list, paused, rx, refresh, waits, label, events, announced, held, recorded>>
studio == <<nodeStates, discovered, telemetry, captured, list, paused, rx, refresh, waits,
            label, announced, recorded>>
panel == <<paused, waits, label>>

Server == 1                              \* the node with a dictionary
Idle == [pc |-> "recv"]
NoList == [pc |-> "idle"]
Number(bytes) == LET at(i) == IF i <= Len(bytes) THEN bytes[i] ELSE 0
                 IN at(1) + 256 * at(2) + 65536 * at(3)
Little(n) == <<n % 256, (n \div 256) % 256, 0, 0>>
Newest(s, n) == SubSeq(s, IF Len(s) > n THEN Len(s) - n + 1 ELSE 1, Len(s))
Type == <<\h92, \h01, \h02, \h00>>         \* the device type 0x00020192
Name == <<86, 105, 114, 116>>              \* the device name, Virt
ReadOnly == {<<\h1000, 0>>, <<\h1008, 0>>, <<\h606C, 0>>}

\* What the dictionary holds at first.
FirstValue(o) == CASE o = <<\h1000, 0>> -> Number(Type)
                   [] o = <<\h1008, 0>> -> Number(Name)
                   [] o = <<\h606C, 0>> -> 1800
                   [] OTHER -> 0

\* The native simulator starts its nodes pre-operational. The Python one never
\* gives their states, nor its speed, a first value.
Init ==
  /\ native \in BOOLEAN
  /\ sim = IF native THEN [nmt |-> <<\h7F, \h7F>>, rpm |-> 1800, written |-> NoSignals]
                     ELSE [nmt |-> <<None, None>>, rpm |-> None, written |-> NoSignals]
  /\ toNodes = <<>> /\ toStudio = <<>>
  /\ nodeStates = NoSignals /\ discovered = NoSignals /\ announced = NoSignals
  /\ telemetry = [speed |-> 0, torque |-> 0, status |-> "", temp |-> 0]
  /\ stats = [rx |-> 0, tx |-> 0]
  /\ captured = <<>> /\ list = 0 /\ paused = FALSE
  /\ rx = Idle /\ refresh = NoList
  /\ waits = {} /\ label = [kind |-> "ready"]
  /\ events = 0
  /\ held = [o \in Objects |-> {FirstValue(o)}]
  /\ recorded = <<>>

Event == events < MaxEvents /\ events' = events + 1

-----------------------------------------------------------------------------
(* The simulated nodes. *)

\* An NMT command moves node 1; a reset of the communication does nothing.
Commanded(state, command) ==
  CASE command = \h01 -> \h05
    [] command = \h02 -> \h04
    [] command = \h80 -> \h7F
    [] command = \h81 -> \h00
    [] OTHER -> state

\* What an upload of an object answers. Without a first round the Python
\* simulator has no speed to give: it raises, and does not answer.
Upload(o) ==
  CASE o = <<\h1000, 0>> -> <<\h43, Type>>
    [] o = <<\h1008, 0>> -> <<\h43, Name>>
    [] o = <<\h606C, 0>> -> <<\h43, Little(sim.rpm)>>
    [] o \in DOMAIN sim.written ->
         <<\h43 + 4 * (4 - Len(sim.written[o])), sim.written[o]>>
    [] OTHER -> <<\h42, <<0, 0, 0, 0>>>>

Reply(cs, o, bytes) == Frame(\h580 + Server, <<cs>> \o Object(o[1], o[2]) \o bytes)
AnswersUpload(o) == <<Reply(Upload(o)[1], o, Upload(o)[2])>>

\* The bytes of an expedited download, as its command specifier counts them; it
\* is none if they are not all there.
DataEnd(cs) == 8 - (IF cs % 2 = 1 THEN (cs \div 4) % 4 ELSE 0)
Downloaded(data) == SubSeq(data, 5, DataEnd(data[1]))
IsDownload(data) ==
  data[1] \div 32 = 1 /\ (data[1] \div 2) % 2 = 1 /\ DataEnd(data[1]) <= Len(data)

ReceivesNmt(f) ==
  /\ f.cid = \h000 /\ Len(f.data) >= 2
  /\ sim' = IF f.data[2] \in {0, Server}
            THEN [sim EXCEPT !.nmt[1] = Commanded(@, f.data[1])] ELSE sim
  /\ UNCHANGED <<toStudio, held>>

Asked(f) == <<IndexOf(f.data), SubOf(f.data)>>

ReceivesUpload(f) ==
  LET o == Asked(f) IN
  /\ f.cid = \h600 + Server /\ Len(f.data) >= 4 /\ f.data[1] = \h40
  /\ toStudio' = toStudio \o
       IF o = <<\h606C, 0>> /\ sim.rpm = None THEN <<>> ELSE AnswersUpload(o)
  /\ UNCHANGED <<sim, held>>

\* Only the native simulator takes downloads; it refuses those of the objects
\* it serves from its own state.
ReceivesDownload(f) ==
  LET o == Asked(f)
      bytes == Downloaded(f.data) IN
  /\ f.cid = \h600 + Server /\ Len(f.data) >= 4 /\ IsDownload(f.data)
  /\ IF ~native THEN UNCHANGED <<sim, toStudio, held>>
     ELSE IF o \in ReadOnly
     THEN /\ toStudio' = Append(toStudio, Reply(\h80, o, <<2, 0, 1, 6>>))
          /\ UNCHANGED <<sim, held>>
     ELSE /\ sim' = [sim EXCEPT !.written = Entered(@, o, bytes)]
          /\ toStudio' = Append(toStudio, Reply(\h60, o, <<0, 0, 0, 0>>))
          /\ held' = [held EXCEPT ![o] = @ \cup {Number(bytes)}]

\* Any other frame is not for them.
Ignores(f) ==
  /\ ~(f.cid = \h000 /\ Len(f.data) >= 2)
  /\ ~(f.cid = \h600 + Server /\ Len(f.data) >= 4 /\ (f.data[1] = \h40 \/ IsDownload(f.data)))
  /\ UNCHANGED <<sim, toStudio, held>>

NodesReceive ==
  /\ toNodes # <<>>
  /\ toNodes' = Tail(toNodes)
  /\ LET f == Head(toNodes) IN
     ReceivesNmt(f) \/ ReceivesUpload(f) \/ ReceivesDownload(f) \/ Ignores(f)
  /\ UNCHANGED <<native, studio, stats, events>>

\* A heartbeat of each node that has a state; the first without one ends the round.
Beats ==
  LET beat(n) == Frame(\h700 + n, <<sim.nmt[n]>>) IN
  CASE sim.nmt[1] = None -> <<>>
    [] sim.nmt[2] = None -> <<beat(1)>>
    [] OTHER -> <<beat(1), beat(2)>>


Heartbeats ==
  /\ Event
  /\ toStudio' = toStudio \o Beats
  /\ UNCHANGED <<native, sim, toNodes, studio, stats, held>>

\* One round of process data, at the speed of the moment.
Pdos(rpm) ==
  <<Frame(\h181, <<\h27, 0>>),
    Frame(\h281, <<\h27, 0>> \o Little(rpm)),
    Frame(\h473, Little(5000) \o Little(rpm)),
    Frame(\h270, <<3, 4, 0, 0, 0, 80, 0, 0>>),
    Frame(\h156, <<0, 0, 10, 0, 50, 0, 32, 0>>)>>

Telemetry(rpm) ==
  /\ Event
  /\ sim' = [sim EXCEPT !.rpm = rpm]
  /\ toStudio' = toStudio \o Pdos(rpm)
  /\ held' = [o \in Objects |-> IF o = <<\h606C, 0>> THEN held[o] \cup {rpm} ELSE held[o]]
  /\ UNCHANGED <<native, toNodes, studio, stats>>

\* Another node or master of the bus: any frame, to the studio and the nodes.
Others(f) ==
  /\ Event
  /\ toStudio' = Append(toStudio, f)
  /\ toNodes' = Append(toNodes, f)
  /\ UNCHANGED <<native, sim, studio, stats, held>>

-----------------------------------------------------------------------------
(* The capture thread. *)

\* A node is discovered by any frame with its number, and its state is that of
\* its last heartbeat.
Discover(f, class) ==
  LET n == class.node
      known == IF n \in DOMAIN discovered THEN discovered[n]
               ELSE [state |-> "Unknown", services |-> {}]
      state == IF class.service = "HEARTBEAT" /\ f.data # <<>> THEN NmtState(f.data[1])
               ELSE known.state
  IN IF n <= 0 THEN discovered
     ELSE Entered(discovered, n,
                  [state |-> state, services |-> known.services \cup {class.service}])

\* The gauges take what the decoders found; the speed of a SEVCON controller
\* before that of a generic drive.
Gauges(signals) ==
  LET Of(name, old) == IF name \in DOMAIN signals THEN signals[name] ELSE old IN
  [speed  |-> Of("actual_speed_rpm", Of("velocity_actual", telemetry.speed)),
   torque |-> Of("target_torque", telemetry.torque),
   status |-> Of("cia402_state", telemetry.status),
   temp   |-> Of("heatsink_temp_c", telemetry.temp)]

\* recv() returns a frame, everything is done with it but recording it, and
\* unless the trace is paused the list to append to is looked up.
Capture ==
  /\ rx.pc = "recv" /\ toStudio # <<>>
  /\ LET f == Head(toStudio)
         parsed == Process(nodeStates, f, native, "all") IN
     /\ toStudio' = Tail(toStudio)
     /\ stats' = [stats EXCEPT !.rx = @ + 1]
     /\ nodeStates' = parsed.nodes
     /\ discovered' = Discover(f, parsed.class)
     /\ telemetry' = Gauges(parsed.signals)
     /\ announced' = IF ~f.ext /\ f.cid \in \h701..\h77F /\ f.data # <<>>
                     THEN Entered(announced, f.cid - \h700, f.data[1]) ELSE announced
     /\ rx' = IF paused THEN Idle ELSE [pc |-> "append", frame |-> f, list |-> list]
  /\ UNCHANGED <<native, sim, toNodes, captured, list, refresh, panel, events, held, recorded>>

\* The frame is appended to that list, which by now may no longer be the trace.
Record ==
  LET entry == [n |-> stats.rx, frame |-> rx.frame] IN
  /\ rx.pc = "append"
  /\ captured' = IF rx.list = list THEN Append(captured, entry) ELSE captured
  /\ recorded' = IF rx.list = list /\ refresh = NoList THEN Append(recorded, entry) ELSE recorded
  /\ rx' = Idle
  /\ UNCHANGED <<native, sim, toNodes, toStudio, nodeStates, discovered, telemetry, stats,
                 list, refresh, panel, events, announced, held>>

-----------------------------------------------------------------------------
(* The Tk thread. A refresh keeps it between slicing the trace and storing it. *)
tk == <<native, sim, toStudio, nodeStates, discovered, telemetry, rx, announced, held>>
Free == refresh = NoList

RefreshSlicesOldest ==
  /\ Free /\ ~paused /\ captured # <<>>
  /\ Event
  /\ refresh' = [pc |-> "sliced",
                 trace |-> SubSeq(captured, 1, IF Len(captured) < Keep THEN Len(captured)
                                                                       ELSE Keep)]
  /\ UNCHANGED <<tk, toNodes, stats, captured, list, panel, recorded>>

RefreshSlices ==
  /\ Free /\ ~paused /\ captured # <<>>
  /\ Event
  /\ refresh' = [pc |-> "sliced", trace |-> Newest(captured, Keep)]
  /\ UNCHANGED <<tk, toNodes, stats, captured, list, panel, recorded>>

RefreshStores ==
  /\ ~Free
  /\ captured' = refresh.trace
  /\ list' = list + 1
  /\ refresh' = NoList
  /\ UNCHANGED <<tk, toNodes, stats, panel, events, recorded>>

TogglePause ==
  /\ Free /\ Event
  /\ paused' = ~paused
  /\ UNCHANGED <<tk, toNodes, stats, captured, list, refresh, waits, label, recorded>>

ClearTrace ==
  /\ Free /\ captured # <<>> /\ Event
  /\ captured' = <<>> /\ recorded' = <<>>
  /\ UNCHANGED <<tk, toNodes, stats, list, refresh, panel>>

Send(f) ==
  /\ Free /\ stats.tx < MaxSent
  /\ toNodes' = Append(toNodes, f)
  /\ stats' = [stats EXCEPT !.tx = @ + 1]
  /\ UNCHANGED <<tk, captured, list, refresh, paused, events, recorded>>

SendNmt(command, node) ==
  Send(NmtFrame(command, node)) /\ UNCHANGED <<waits, label>>

SdoReads(o) ==
  /\ Send(SdoRead(Server, o[1], o[2]))
  /\ waits' = waits \cup {o}
  /\ label' = [kind |-> "waiting"]

SdoWrites(o, bytes) ==
  /\ Send(SdoWrite(Server, o[1], o[2], bytes))
  /\ label' = [kind |-> "sent"]
  /\ UNCHANGED waits

ConcernsAnySub(f, o) ==
  f.cid = \h580 + Server /\ Len(f.data) >= 4 /\ IndexOf(f.data) = o[1]

\* Whether a frame of the trace is the node's word on the object.
Concerns(f, o) ==
  /\ f.cid = \h580 + Server /\ Len(f.data) >= 4
  /\ IndexOf(f.data) = o[1] /\ SubOf(f.data) = o[2]

\* The newest such frame, from whenever it may be, is the outcome.
CheckSdoReply(o) ==
  LET found == {i \in DOMAIN captured : Concerns(captured[i].frame, o)} IN
  /\ Free /\ o \in waits
  /\ waits' = waits \ {o}
  /\ label' = IF found = {} THEN [kind |-> "timeout"]
              ELSE LET data == captured[CHOOSE i \in found : \A j \in found : j <= i].frame.data
                   IN [kind |-> IF data[1] = \h80 THEN "abort" ELSE "reply",
                       object |-> o, value |-> Number(SubSeq(data, 5, Len(data)))]
  /\ UNCHANGED <<tk, toNodes, stats, captured, list, refresh, paused, events, recorded>>

Next ==
  \/ NodesReceive
  \/ Heartbeats
  \/ \E rpm \in Speeds : Telemetry(rpm)
  \/ \E f \in Foreign : Others(f)
  \/ Capture
  \/ Record
  \/ RefreshSlices
  \/ RefreshStores
  \/ TogglePause
  \/ ClearTrace
  \/ \E c \in Commands, n \in Targets : SendNmt(c, n)
  \/ \E o \in Objects : SdoReads(o) \/ CheckSdoReply(o)
  \/ \E o \in Objects, b \in Writes : SdoWrites(o, b)

Spec == Init /\ [][Next]_vars
-----------------------------------------------------------------------------
\* Every variable keeps its type.
TypeOK ==
  /\ native \in BOOLEAN /\ paused \in BOOLEAN
  /\ rx.pc \in {"recv", "append"}
  /\ refresh.pc \in {"idle", "sliced"}
  /\ waits \subseteq Objects
  /\ label.kind \in {"ready", "waiting", "sent", "reply", "abort", "timeout"}
  /\ list \in 0..MaxEvents

\* The trace is in the order of the bus, and a frame recorded while no refresh
\* was replacing the list (gui.py _rx_loop against _update_gui_loop) is still
\* in it, as long as it is among the newest the trim keeps: a trim, a pause or
\* a clear never costs a newer frame and leaves an older one.
TraceKeepsNewest ==
  /\ \A i, j \in DOMAIN captured : i < j => captured[i].n < captured[j].n
  /\ LET newest == Newest(recorded, Keep) IN
     \A i \in DOMAIN newest : \E j \in DOMAIN captured : captured[j] = newest[i]

\* What the SDO panel shows as an object's value is a value the object has had:
\* the answer found in the trace may be an old one, or the acknowledgement of a
\* download, but never that of another object (_check_sdo_reply).
ReplyIsTheObjects ==
  label.kind = "reply" => label.value \in held[label.object] \cup {0}

\* The state in the node table is that of the node's last heartbeat, and no
\* other frame that bears the node's number changes it; the layer's own table
\* agrees, except where canopen_core takes node guarding for an unknown state.
TableShowsLastBeat ==
  \A n \in DOMAIN discovered :
    /\ discovered[n].state =
         IF n \in DOMAIN announced THEN NmtState(announced[n]) ELSE "Unknown"
    /\ n \in DOMAIN announced =>
         \/ nodeStates[n] = NmtState(announced[n])
         \/ native /\ nodeStates[n] = "UNKNOWN"

-----------------------------------------------------------------------------
=============================================================================
