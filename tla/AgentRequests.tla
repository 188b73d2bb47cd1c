---------------------------- MODULE AgentRequests ----------------------------
(***************************************************************************)
(* What agents ask of the studio: free-text messages to the A2A server     *)
(* (a2a_server.py), calls of the MCP tools that transmit (mcp_server.py),  *)
(* the guard both servers stand behind (agent_security.py), and the write  *)
(* gate of the diagnostic tools (diag/security.py).  A message is a        *)
(* sequence of words; a word carries the keywords it contains, since the   *)
(* dispatcher looks for keywords anywhere in the text, and the numbers it  *)
(* reads as.  Connecting and disconnecting are modelled step by step in    *)
(* StandaloneServer; here they only bring the bus up and down.             *)
(***************************************************************************)
EXTENDS Integers, Sequences, SequencesExt

CONSTANTS Posts,       \* HTTP requests to the A2A server
          ToolCalls,   \* calls of the MCP tools that transmit
          Permitted,   \* CANOPEN_STUDIO_ALLOWED_ORIGINS
          GateCalls,   \* calls of the write gate
          Absent       \* an absent header, number or identifier

\* What the tools and the gate are called with has the arguments of their signatures.
ASSUME RequestsAssumption ==
  /\ \A request \in Posts : "tool" \notin DOMAIN request
  /\ \A call \in ToolCalls : /\ call.tool \in {"send_frame", "send_nmt", "send_sync", "sdo_read"}
                            /\ "method" \notin DOMAIN call
  /\ \A call \in GateCalls : DOMAIN call.gate = {"agent", "entries"}
  /\ Absent \notin {"sent", "allowed", "message/send"}

VARIABLES adapter,     \* "none", "up", or "faulty": send raises
          switches,    \* the environment variables that open the write path
          asked,       \* the request last answered, or Absent
          frames,      \* what it made the studio transmit
          answer,      \* what came back
          counted      \* what it added to total_tx

requestVars == <<adapter, switches, asked, frames, answer, counted>>

RequestsInit == /\ adapter \in {"none", "up", "faulty"}
                /\ switches \in [process : BOOLEAN, agents : BOOLEAN]
                /\ asked = Absent /\ frames = <<>> /\ answer = Absent /\ counted = 0

-----------------------------------------------------------------------------
(* The guard: a missing header passes. *)

HostIsLocal(host) == host \in {Absent, "loopback"}
OriginIsAllowed(origin) == origin = Absent \/ origin \in Permitted
Rejected(request) == ~ HostIsLocal(request.host) \/ ~ OriginIsAllowed(request.origin)

-----------------------------------------------------------------------------
(* An outcome is an answer and the frames that went out. *)

Frame(id, data) == [id |-> id, data |-> data]
Say(text) == [answer |-> text, frames |-> <<>>]
Byte == 0..255

\* can.Message raises for what is no byte, before the adapter sees the frame.
Transmit(frame) ==
  CASE adapter = "none" -> Say("not connected")
    [] adapter = "up" /\ Range(frame.data) \subseteq Byte ->
         [answer |-> "sent", frames |-> <<frame>>]
    [] OTHER -> Say("failed")

NmtBytes == [start |-> 1, stop |-> 2, pre_operational |-> 128,
             reset_node |-> 129, reset_communication |-> 130]
SendNmt(command, node) == Transmit(Frame(0, <<NmtBytes[command], node>>))
SendSync == Transmit(Frame(128, <<>>))
SendFrame(id, data) == Transmit(Frame(id, data))

\* The index is cut to two bytes, although the answer names the whole of it.
SendSdoRead(node, index, sub) ==
  Transmit(Frame(1536 + node, <<64, index % 256, (index \div 256) % 256, sub, 0, 0, 0, 0>>))

-----------------------------------------------------------------------------
(* _handle_message: the first test that matches decides. *)

Holds(m, keywords) == \E i \in DOMAIN m : m[i].has \cap keywords # {}

Looks(m) == \/ Holds(m, {"status", "connected", "connection"})
            \/ Holds(m, {"trace", "frames", "trames", "monitor", "received"})
            \/ Holds(m, {"network", "nodes", "telemetry", "rpm", "torque"})

NmtCommands == <<"start", "stop", "pre_operational", "reset_node", "reset_communication">>
InTwoWords == [pre_operational |-> <<"pre", "operational">>, reset_node |-> <<"reset", "node">>,
               reset_communication |-> <<"reset", "communication">>]

\* A command is found under its name, or under its name in two words.
Commands(m) ==
  SelectSeq(NmtCommands,
            LAMBDA c : \/ Holds(m, {c})
                       \/ /\ c \in DOMAIN InTwoWords
                          /\ \E i \in 1..(Len(m) - 1) :
                               <<m[i].text, m[i + 1].text>> = InTwoWords[c])

\* The node is the first number of the message, and every node without one.
NmtTarget(m) == LET numbers == SelectSeq(m, LAMBDA w : w.number # Absent)
                IN IF numbers = <<>> THEN 0 ELSE numbers[1].number

\* What reads as a frame: a word with 0x, or of two hexadecimal digits or more.
FrameWords(m) == SelectSeq(m, LAMBDA w : w.frame)

\* A word that is no number has the message passed on to the next test, and
\* so has a byte above 255; without a bus nobody looks at the bytes.
SendsFrame(m) == /\ Holds(m, {"send"}) /\ FrameWords(m) # <<>>
                 /\ \A i \in DOMAIN FrameWords(m) :
                      LET value == FrameWords(m)[i].hex
                      IN value # Absent /\ (i > 1 => adapter = "none" \/ value \in Byte)
HandleSend(m) == SendFrame(FrameWords(m)[1].hex,
                           [i \in 1..(Len(FrameWords(m)) - 1) |-> FrameWords(m)[i + 1].hex])

\* The words that follow one of the names.
After(m, names) == {i \in 2..Len(m) : m[i - 1].text \in names}
LastOf(m, at, field, default) ==
  IF at = {} THEN default ELSE m[CHOOSE i \in at : \A j \in at : j <= i][field]

\* A node or subindex that is no number ends the request: int() raises, and
\* nothing catches it.  An index that is none is passed over.
HandleSdo(m) ==
  LET node  == After(m, {"node"})
      sub   == After(m, {"sub", "subindex"})
      index == {i \in After(m, {"index", "idx", "0x1000"}) : m[i].hex # Absent}
  IN IF \E i \in node \cup sub : m[i].number = Absent THEN Say("failed")
     ELSE SendSdoRead(LastOf(m, node, "number", 1), LastOf(m, index, "hex", 4096),
                      LastOf(m, sub, "number", 0))

Matches(m, test) ==
  CASE test = "look"       -> Looks(m)
    [] test = "connect"    -> m[1].text = "connect"
    [] test = "disconnect" -> m[1].text = "disconnect"
    [] test = "nmt"        -> Commands(m) # <<>>
    [] test = "sync"       -> Holds(m, {"sync"})
    [] test = "send"       -> SendsFrame(m)
    [] test = "sdo"        -> Holds(m, {"sdo"}) /\ Holds(m, {"read", "lire"})
    [] test = "help"       -> TRUE

\* Mutant: commands are looked for first.
ActsFirst == <<"nmt", "look", "connect", "disconnect", "sync", "send", "sdo", "help">>

Order == <<"look", "connect", "disconnect", "nmt", "sync", "send", "sdo", "help">>
Handler(m) == Order[SelectInSeq(Order, LAMBDA test : Matches(m, test))]

HandleMessage(m) ==
  CASE Handler(m) = "nmt"  -> SendNmt(Commands(m)[1], NmtTarget(m))
    [] Handler(m) = "sync" -> SendSync
    [] Handler(m) = "send" -> HandleSend(m)
    [] Handler(m) = "sdo"  -> HandleSdo(m)
    [] Handler(m) = "look" -> Say("shown")
    [] Handler(m) = "help" -> Say("help")

-----------------------------------------------------------------------------
(* The requests. *)

Answered(request, outcome) ==
  asked' = request /\ frames' = outcome.frames /\ answer' = outcome.answer

\* "connect" with a bitrate that is no number raises.  A simulator whose own
\* bus cannot be opened leaves the first one connected.
HandleConnect(m) ==
  \/ /\ Len(m) > 3 /\ m[4].number = Absent
     /\ answer' = "failed" /\ UNCHANGED adapter
  \/ /\ Len(m) > 3 => m[4].number # Absent
     /\ \/ adapter # "none" /\ answer' = "already connected" /\ UNCHANGED adapter
        \/ adapter = "none" /\ answer' = "connected" /\ adapter' \in {"up", "faulty"}
        \/ adapter = "none" /\ answer' = "failed"
           /\ adapter' \in {"none"} \cup (IF Holds(m, {"sim"}) THEN {"up", "faulty"} ELSE {})
HandleDisconnect == /\ answer' = IF adapter = "none" THEN "not connected" ELSE "disconnected"
                    /\ adapter' = "none"

\* jsonrpc_endpoint, behind LocalOnlyMiddleware.
Endpoint(request) ==
  IF Rejected(request) THEN Answered(request, Say("refused")) /\ UNCHANGED adapter
  ELSE CASE request.method = Absent -> Answered(request, Say("parse error")) /\ UNCHANGED adapter
         [] request.method = "message/send" ->
              (IF Handler(request.message) \in {"connect", "disconnect"}
               THEN /\ asked' = request /\ frames' = <<>>
                    /\ IF Handler(request.message) = "connect"
                       THEN HandleConnect(request.message) ELSE HandleDisconnect
               ELSE Answered(request, HandleMessage(request.message)) /\ UNCHANGED adapter)
         [] OTHER -> Answered(request, Say("no such method")) /\ UNCHANGED adapter

Post == /\ asked = Absent
        /\ \E request \in Posts : Endpoint(request)
        /\ counted' = 0
        /\ UNCHANGED switches

Tool(call) ==
  CASE call.tool = "send_frame" ->
         (IF adapter = "none" THEN Say("not connected")
          ELSE IF Len(call.data) > 8 THEN Say("too long")
          ELSE SendFrame(call.id, call.data))
    [] call.tool = "send_nmt" ->
         (IF adapter # "none" /\ call.command \notin DOMAIN NmtBytes THEN Say("unknown command")
          ELSE IF adapter = "none" THEN Say("not connected") ELSE SendNmt(call.command, call.node))
    [] call.tool = "send_sync" -> SendSync
    [] call.tool = "sdo_read"  -> SendSdoRead(call.node, call.index, call.sub)

CallTool == /\ asked = Absent
            /\ \E call \in ToolCalls : Answered(call, Tool(call))
            /\ counted' = IF answer' = "sent" THEN 1 ELSE 0     \* _count_tx
            /\ UNCHANGED <<adapter, switches>>

-----------------------------------------------------------------------------
(* WriteGate. *)

Implemented == {4}
WriteServices == {46, 47, 49}

\* An entry without an identifier covers the whole service.
Covers(entry, service, identifier) ==
  entry.service = service /\ entry.identifier \in {Absent, identifier}

\* check: whether it returns; the first conjunct that fails words the refusal.
Check(gate, service, identifier, confirm) ==
  /\ service \in Implemented
  /\ switches.process
  /\ gate.agent => switches.agents
  /\ service \in WriteServices =>
       \E i \in DOMAIN gate.entries : Covers(gate.entries[i], service, identifier)
  /\ confirm

Allows(gate, service, identifier) == Check(gate, service, identifier, TRUE)

AskGate == /\ asked = Absent
           /\ \E call \in GateCalls :
                LET allowed == IF call.confirm = Absent
                               THEN Allows(call.gate, call.service, call.identifier)
                               ELSE Check(call.gate, call.service, call.identifier, call.confirm)
                IN Answered(call, Say(IF allowed THEN "allowed" ELSE "refused"))
           /\ counted' = 0
           /\ UNCHANGED <<adapter, switches>>

Done == /\ asked # Absent
        /\ asked' = Absent /\ frames' = <<>> /\ answer' = Absent /\ counted' = 0
        /\ UNCHANGED <<adapter, switches>>

RequestsNext == Post \/ CallTool \/ AskGate \/ Done
RequestsSpec == RequestsInit /\ [][RequestsNext]_requestVars
-----------------------------------------------------------------------------
\* A request that is refused, that is no message, or that mentions anything
\* there is to look at transmits nothing and leaves the connection alone,
\* whatever else it says: _handle_message tests "status", "trace" and
\* "network" before any command.
LookingActsOnNothing ==
  [][ /\ asked = Absent /\ asked' # Absent /\ "method" \in DOMAIN asked'
      /\ \/ Rejected(asked') \/ asked'.method # "message/send" \/ Looks(asked'.message)
      => frames' = <<>> /\ adapter' = adapter ]_requestVars

\* What is answered is what was done: "sent" exactly when one frame went
\* out on a bus that works, and the tools count exactly what they sent.
AnswerTellsWhatWentOut ==
  /\ answer = "sent" <=> Len(frames) = 1
  /\ frames # <<>> => adapter = "up"
  /\ asked # Absent /\ "tool" \in DOMAIN asked => counted = Len(frames)

\* What an agent sees is what happened (a2a_server.py, mcp_server.py).
AnswersAreTrue == LookingActsOnNothing /\ []AnswerTellsWhatWentOut
=============================================================================
