-------------------------- MODULE StandaloneServer --------------------------
(***************************************************************************)
(* The agents' servers when no studio is attached.  Both keep the          *)
(* connection in globals without a lock, beside a capture loop that nobody *)
(* joins.  The MCP server runs its tools on threads of their own, one per  *)
(* call; the A2A server handles one message after the other on its event   *)
(* loop, so that it has one agent here.  A link is numbered when it is     *)
(* opened, and a native diagnostic session (its frame queue) likewise.     *)
(***************************************************************************)
EXTENDS Naturals, FiniteSets

CONSTANTS Agents,
          MaxLinks,     \* bound: links opened
          MaxSessions   \* bound: native diagnostic sessions

ASSUME BoundsAssumption == MaxLinks \in Nat /\ MaxSessions \in Nat

VARIABLES server,      \* "mcp" or "a2a"
          link, bus, layer, running,   \* _standalone_link, _bus, _layer, _running
          kind, phase, \* of each link: "can" or "elm"; "none", "open", "closed"
          loop,        \* of each link: the capture thread its connection started
          session,     \* the diagnostic tools' _session: its link, 0 for none
          registered,  \* _registered_source
          sources,     \* _standalone_frame_sources
          queues,      \* native sessions opened so far
          at, has,     \* of each agent: where it is, and the link in its hands
          overlaps     \* history: kinds of calls that were under way together

connVars == <<link, bus, layer, running>>
linkVars == <<kind, phase>>
obdVars == <<session, registered, sources, queues>>
vars == <<server, connVars, linkVars, loop, obdVars, at, has, overlaps>>

Links == 1..MaxLinks
Nothing == 0

Init == /\ server \in {"mcp", "a2a"}
        /\ link = Nothing /\ bus = Nothing /\ layer = Nothing /\ running = FALSE
        /\ kind = [l \in Links |-> "can"] /\ phase = [l \in Links |-> "none"]
        /\ loop = [l \in Links |-> [at |-> "none", on |-> Nothing]]
        /\ session = Nothing /\ registered = Nothing /\ sources = {} /\ queues = 0
        /\ at = [a \in Agents |-> "idle"] /\ has = [a \in Agents |-> Nothing]
        /\ overlaps = {}
-----------------------------------------------------------------------------
(* What a call is while it runs, and with which calls it has overlapped. *)
Connecting == {"open", "store", "bus", "layer", "run"}
Leaving == {"obd", "forget", "down", "take", "close", "clear"}
Diagnosing == {"session", "adopt", "identify", "obdclose", "reset"}

CallOf(where) == IF where \in Connecting THEN "connect"
                 ELSE IF where \in Leaving THEN "disconnect"
                 ELSE "obd"

MayCall(a) == /\ at[a] = "idle"
              /\ server = "a2a" => \A b \in Agents : at[b] = "idle"

\* Two calls under way together that matter to the properties below.
Overlap(c, d) == CASE {c, d} = {"connect"} -> {"connects"}
                   [] {c, d} = {"connect", "disconnect"} -> {"connect and disconnect"}
                   [] "connect" \notin {c, d} -> {"diagnostics"}
                   [] OTHER -> {}

\* A call gets past its first test.
Begin(a, where) ==
  /\ at' = [at EXCEPT ![a] = where]
  /\ overlaps' = overlaps \cup
       UNION {Overlap(CallOf(where), CallOf(at[b])) : b \in {b \in Agents : at[b] # "idle"}}

Go(a, where) == at' = [at EXCEPT ![a] = where] /\ UNCHANGED overlaps
-----------------------------------------------------------------------------
(* connect() of the MCP server. *)

Connect(a) ==
  /\ MayCall(a) /\ server = "mcp" /\ link = Nothing
  /\ Begin(a, "open")
  /\ UNCHANGED <<server, connVars, linkVars, loop, obdVars, has>>

\* Link.open: either it is open afterwards or nothing is left of it.
OpenLink(a) ==
  /\ at[a] = "open"
  /\ \/ Go(a, "idle") /\ UNCHANGED <<linkVars, has>>
     \/ \E l \in Links, k \in {"can", "elm"} :
          /\ phase[l] = "none" /\ \A m \in 1..(l - 1) : phase[m] # "none"
          /\ kind' = [kind EXCEPT ![l] = k]
          /\ phase' = [phase EXCEPT ![l] = "open"]
          /\ has' = [has EXCEPT ![a] = l]
          /\ Go(a, "store")
  /\ UNCHANGED <<server, connVars, loop, obdVars>>

StoreLink(a) ==
  /\ at[a] = "store"
  /\ link' = has[a]
  /\ IF kind[has[a]] = "can"
     THEN Go(a, "bus") /\ UNCHANGED has
     ELSE Go(a, "idle") /\ has' = [has EXCEPT ![a] = Nothing]
  /\ UNCHANGED <<server, bus, layer, running, linkVars, loop, obdVars>>

\* link.bus is None once somebody has closed the link.
StoreBus(a) ==
  /\ at[a] = "bus"
  /\ bus' = IF phase[has[a]] = "open" THEN has[a] ELSE Nothing
  /\ Go(a, "layer")
  /\ UNCHANGED <<server, link, layer, running, linkVars, loop, obdVars, has>>

\* CANopenLayer(bus=_standalone_bus): the global, whatever it is by now.
StoreLayer(a) ==
  /\ at[a] = "layer"
  /\ layer' = bus
  /\ Go(a, "run")
  /\ UNCHANGED <<server, link, bus, running, linkVars, loop, obdVars, has>>

StartCapture(a) ==
  /\ at[a] = "run"
  /\ running' = TRUE
  /\ loop' = [loop EXCEPT ![has[a]].at = "check"]
  /\ has' = [has EXCEPT ![a] = Nothing]
  /\ Go(a, "idle")
  /\ UNCHANGED <<server, link, bus, layer, linkVars, obdVars>>
-----------------------------------------------------------------------------
(* disconnect() of the MCP server, obd_disconnect() first. *)
Disconnect(a) ==
  /\ MayCall(a) /\ server = "mcp" /\ link # Nothing
  /\ Begin(a, "obd")
  /\ UNCHANGED <<server, connVars, linkVars, loop, obdVars, has>>

\* The link's own ELM327 session is not closed, a borrowed bus neither.
LeaveSession(a) ==
  /\ at[a] = "obd"
  /\ Go(a, IF session = Nothing THEN "down" ELSE "forget")
  /\ UNCHANGED <<server, connVars, linkVars, loop, obdVars, has>>

\* Mutant: the session goes, its queue stays with the capture loop.
KeepSource == /\ session' = Nothing /\ registered' = Nothing
              /\ UNCHANGED <<sources, queues>>

ResetState == /\ session' = Nothing /\ registered' = Nothing
              /\ sources' = sources \ {registered}
              /\ UNCHANGED queues

ForgetSession(a) ==
  /\ at[a] = "forget"
  /\ ResetState
  /\ Go(a, "down")
  /\ UNCHANGED <<server, connVars, linkVars, loop, has>>

StopRunning(a) ==
  /\ at[a] = "down"
  /\ running' = FALSE
  /\ Go(a, "take")
  /\ UNCHANGED <<server, link, bus, layer, linkVars, loop, obdVars, has>>

\* None.close() raises when another call has taken the link meanwhile.
TakeLink(a) ==
  /\ at[a] = "take"
  /\ link' = Nothing
  /\ has' = [has EXCEPT ![a] = link]
  /\ Go(a, IF link = Nothing THEN "idle" ELSE "close")
  /\ UNCHANGED <<server, bus, layer, running, linkVars, loop, obdVars>>

CloseLink(a) ==
  /\ at[a] = "close"
  /\ phase' = [phase EXCEPT ![has[a]] = "closed"]
  /\ has' = [has EXCEPT ![a] = Nothing]
  /\ Go(a, "clear")
  /\ UNCHANGED <<server, connVars, kind, loop, obdVars>>

ClearAll(a) ==
  /\ at[a] = "clear"
  /\ bus' = Nothing /\ layer' = Nothing
  /\ Go(a, "idle")
  /\ UNCHANGED <<server, link, running, linkVars, loop, obdVars, has>>
-----------------------------------------------------------------------------
(* obd_connect() on the current link, and obd_disconnect(). *)
ObdConnect(a) ==
  /\ MayCall(a) /\ server = "mcp" /\ session = Nothing
  /\ link # Nothing /\ phase[link] = "open"
  /\ queues + Cardinality({b \in Agents : at[b] = "session"}) < MaxSessions
  /\ Begin(a, "session")
  /\ has' = [has EXCEPT ![a] = link]
  /\ UNCHANGED <<server, connVars, linkVars, loop, obdVars>>

\* Link.diagnostic_session: LinkError on a link closed since; a native session
\* brings a queue, which is registered before anything is asked.
OpenSession(a) ==
  /\ at[a] = "session"
  /\ \/ /\ phase[has[a]] # "open"
        /\ ResetState
        /\ Go(a, "idle") /\ has' = [has EXCEPT ![a] = Nothing]
     \/ /\ phase[has[a]] = "open" /\ kind[has[a]] = "elm"
        /\ Go(a, "adopt") /\ UNCHANGED <<obdVars, has>>
     \/ /\ phase[has[a]] = "open" /\ kind[has[a]] = "can"
        /\ queues' = queues + 1
        /\ sources' = sources \cup {queues + 1} /\ registered' = queues + 1
        /\ Go(a, "adopt") /\ UNCHANGED <<session, has>>
  /\ UNCHANGED <<server, connVars, linkVars, loop>>

AdoptSession(a) ==
  /\ at[a] = "adopt"
  /\ session' = has[a]
  /\ Go(a, "identify")
  /\ UNCHANGED <<server, connVars, linkVars, loop, registered, sources,
                 queues, has>>

\* identify() and resolve(): what fails in them undoes the session.
Identify(a) ==
  /\ at[a] = "identify"
  /\ \/ UNCHANGED obdVars
     \/ ResetState
  /\ has' = [has EXCEPT ![a] = Nothing]
  /\ Go(a, "idle")
  /\ UNCHANGED <<server, connVars, linkVars, loop>>

ObdDisconnect(a) ==
  /\ MayCall(a) /\ server = "mcp" /\ session # Nothing
  /\ Begin(a, "reset")
  /\ UNCHANGED <<server, connVars, linkVars, loop, obdVars, has>>

ObdReset(a) ==
  /\ at[a] = "reset"
  /\ ResetState
  /\ Go(a, "idle")
  /\ UNCHANGED <<server, connVars, linkVars, loop, has>>
-----------------------------------------------------------------------------
(* The A2A server's _standalone_connect and _standalone_disconnect: no link *)
(* object, the bus is stored as soon as it is open.                         *)
A2aConnect(a) ==
  /\ MayCall(a) /\ server = "a2a" /\ bus = Nothing
  /\ \E l \in Links :
       /\ phase[l] = "none" /\ \A m \in 1..(l - 1) : phase[m] # "none"
       /\ phase' = [phase EXCEPT ![l] = "open"]
       /\ bus' = l /\ layer' = l
       /\ has' = [has EXCEPT ![a] = l]
  /\ Begin(a, "run")
  /\ UNCHANGED <<server, link, running, kind, loop, obdVars>>

\* The simulator's own bus does not open: "Connection failed", and the bus stays.
A2aSimulatorFails(a) ==
  /\ at[a] = "run" /\ server = "a2a"
  /\ has' = [has EXCEPT ![a] = Nothing]
  /\ Go(a, "idle")
  /\ UNCHANGED <<server, connVars, linkVars, loop, obdVars>>

A2aDisconnect(a) ==
  /\ MayCall(a) /\ server = "a2a" /\ bus # Nothing
  /\ running' = FALSE
  /\ has' = [has EXCEPT ![a] = bus]
  /\ Begin(a, "close")
  /\ UNCHANGED <<server, link, bus, layer, linkVars, loop, obdVars>>
-----------------------------------------------------------------------------
(* _standalone_rx_loop, one per connection; the two servers' are the same *)
(* but for the frame sources, of which the A2A server has none.           *)
LoopGoes(l, where, b) == loop' = [loop EXCEPT ![l] = [at |-> where, on |-> b]]

CheckRunning(l) ==
  /\ loop[l].at = "check"
  /\ LoopGoes(l, IF running /\ bus # Nothing THEN "recv" ELSE "ended", Nothing)
  /\ UNCHANGED <<server, connVars, linkVars, obdVars, at, has, overlaps>>

\* The global is read again; None.recv and a closed bus raise, which ends the loop.
EnterRecv(l) ==
  /\ loop[l].at = "recv"
  /\ IF bus # Nothing /\ phase[bus] = "open"
     THEN LoopGoes(l, "wait", bus) ELSE LoopGoes(l, "ended", Nothing)
  /\ UNCHANGED <<server, connVars, linkVars, obdVars, at, has, overlaps>>

\* Mutant: a receive without a time limit, which a closed bus does not wake.
WaitForever(l) ==
  /\ loop[l].at = "wait"
  /\ LoopGoes(l, "failed", Nothing)
  /\ phase[loop[l].on] = "open"
  /\ UNCHANGED <<server, connVars, linkVars, obdVars, at, has, overlaps>>

\* 80 ms pass, or the bus is closed underneath and it returns nothing or raises,
\* or the adapter fails: whatever is raised ends the loop, and nobody is told.
LeaveRecv(l) ==
  /\ loop[l].at = "wait"
  /\ \/ LoopGoes(l, "check", Nothing)
     \/ phase[loop[l].on] = "closed" /\ LoopGoes(l, "ended", Nothing)
     \/ phase[loop[l].on] = "open" /\ LoopGoes(l, "failed", Nothing)
  /\ UNCHANGED <<server, connVars, linkVars, obdVars, at, has, overlaps>>

\* A frame: every source is fed, and the layer decodes it for the trace.
Receive(l) ==
  /\ loop[l].at = "wait" /\ phase[loop[l].on] = "open"
  /\ LoopGoes(l, "check", Nothing)
  /\ UNCHANGED <<server, connVars, linkVars, obdVars, at, has, overlaps>>

Capture(l) == \/ CheckRunning(l) \/ EnterRecv(l) \/ LeaveRecv(l)
              \/ Receive(l)

Work(a) == \/ OpenLink(a) \/ StoreLink(a) \/ StoreBus(a) \/ StoreLayer(a)
           \/ StartCapture(a) \/ LeaveSession(a) \/ ForgetSession(a)
           \/ StopRunning(a) \/ TakeLink(a) \/ CloseLink(a) \/ ClearAll(a)
           \/ OpenSession(a) \/ AdoptSession(a) \/ Identify(a) \/ ObdReset(a)

Call(a) == \/ Connect(a) \/ Disconnect(a) \/ ObdConnect(a) \/ ObdDisconnect(a)
           \/ A2aConnect(a) \/ A2aSimulatorFails(a) \/ A2aDisconnect(a)

Next == \/ \E a \in Agents : Call(a) \/ Work(a)
        \/ \E l \in Links : Capture(l)

\* Threads are scheduled and a receive returns; nobody has to call anything.
Spec == /\ Init /\ [][Next]_vars
        /\ \A a \in Agents : WF_vars(Work(a))
        /\ \A l \in Links : WF_vars(Capture(l))
-----------------------------------------------------------------------------
Quiet == \A a \in Agents : at[a] = "idle"
Overlapped(what) == what \in overlaps

\* No link is lost: one that is open can be closed by the next disconnect, or is
\* in the hands of a call under way.  It takes two connects at a time to lose one.
LinksAccounted ==
  ~ Overlapped("connects") =>
    \A l \in Links : phase[l] = "open" =>
      l \in {link, bus} \/ \E a \in Agents : has[a] = l

\* What the servers say of the connection holds together: a CAN link in use has
\* its bus, its layer and its capture thread (unless the adapter failed under
\* it, or the A2A server's simulator had no bus), and without a link nothing of
\* the one before is left to send on.
ConnectionHoldsTogether ==
  Quiet /\ ~ Overlapped("connects") /\ ~ Overlapped("connect and disconnect")
    => /\ layer = bus
       /\ link # Nothing => phase[link] = "open" /\ (kind[link] = "can" <=> bus = link)
       /\ bus # Nothing => phase[bus] = "open"
                        /\ (running => loop[bus].at \notin {"none", "ended"})
       /\ bus # Nothing /\ server = "mcp" => running /\ link = bus
       /\ running => bus # Nothing

\* A session's queue is fed by the capture loop as long as the session lasts,
\* and no longer; and the session is gone when its link is ("cannot outlive
\* it").  Diagnostic calls that overlap with one another or with a disconnect
\* are excluded: they may unregister each other's queue.
SourcesAccounted ==
  ~ Overlapped("diagnostics") =>
    /\ sources = {registered} \ {Nothing}
    /\ session # Nothing /\ kind[session] = "can" => registered # Nothing
    /\ session # Nothing /\ Quiet /\ ~ Overlapped("connects") =>
         session = link /\ phase[session] = "open"

\* What connect, disconnect (mcp_server.py) and the diagnostic tools leave behind
\* is accounted for: links, connection and the queues of sessions.
ConnectionAccounted == LinksAccounted /\ ConnectionHoldsTogether /\ SourcesAccounted

\* A capture thread is joined by nobody, and yet none outlives its connection,
\* unless the next one is up before it looks.
CaptureThreadsEnd ==
  \A l \in Links : ~ running /\ loop[l].at \in {"check", "recv", "wait"}
                     ~> running \/ loop[l].at \in {"ended", "failed"}
=============================================================================
