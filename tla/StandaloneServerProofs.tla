----------------------- MODULE StandaloneServerProofs -----------------------
(* What a connection of the agents' servers leaves behind, for any agents and *)
(* any number of links.                                                       *)
EXTENDS StandaloneServer, TLAPS

Places == Connecting \cup Leaving \cup Diagnosing \cup {"idle"}
Holding == {"store", "bus", "layer", "run", "close", "session", "adopt", "identify"}
LoopPlaces == {"none", "check", "recv", "wait", "ended", "failed"}

ServerTypes ==
  /\ server \in {"mcp", "a2a"} /\ running \in BOOLEAN
  /\ {link, bus, layer, session} \subseteq 0..MaxLinks
  /\ kind \in [Links -> {"can", "elm"}] /\ phase \in [Links -> {"none", "open", "closed"}]
  /\ loop \in [Links -> [at : LoopPlaces, on : 0..MaxLinks]]
  /\ registered \in Nat /\ queues \in Nat
  /\ at \in [Agents -> Places] /\ has \in [Agents -> 0..MaxLinks]

\* What is held was opened.
HeldInv ==
  /\ \A a \in Agents : at[a] \in Holding => has[a] # Nothing
  /\ \A a \in Agents : has[a] # Nothing => phase[has[a]] # "none"
  /\ \A l \in {link, bus, session} \ {Nothing} : phase[l] # "none"

\* One agent at a time talks to the A2A server, which keeps no link and no session.
A2aInv ==
  server = "a2a" =>
    /\ link = Nothing /\ session = Nothing /\ registered = Nothing /\ sources = {}
    /\ \A a, b \in Agents : at[a] # "idle" /\ at[b] # "idle" => a = b
    /\ \A a \in Agents : at[a] \in {"idle", "run", "close", "clear"}
    /\ \A a \in Agents : at[a] \in {"run", "close"} => has[a] = bus
    /\ \A a \in Agents : at[a] = "close" => ~ running
    /\ \A l \in Links : phase[l] = "open" => l = bus
    /\ bus # Nothing /\ (\A a \in Agents : at[a] # "clear") => phase[bus] = "open"
    /\ \A a \in Agents : at[a] = "clear" => \A l \in Links : phase[l] # "open"
    /\ layer = bus
    /\ running => bus # Nothing /\ \A a \in Agents : at[a] = "idle"

\* Which calls are under way together was noted.
CallsInv ==
  /\ ~ Overlapped("connects") =>
       \A a, b \in Agents : at[a] \in Connecting /\ at[b] \in Connecting => a = b
  /\ ~ Overlapped("connect and disconnect") =>
       \A a, b \in Agents : ~ (at[a] \in Connecting /\ at[b] \in Leaving)
  /\ ~ Overlapped("diagnostics") =>
       \A a, b \in Agents : at[a] \in Leaving \cup Diagnosing /\ at[b] \in Leaving \cup Diagnosing
                              => a = b

\* A link is stored when there is none.
LinksInv ==
  server = "mcp" /\ ~ Overlapped("connects") =>
    /\ \A a \in Agents : at[a] \in {"open", "store"} => link = Nothing
    /\ \A l \in Links : phase[l] = "open" =>
         l = link \/ \E a \in Agents : at[a] \in {"store", "close"} /\ has[a] = l

\* How far a connect has come.
Connected(a) ==
  /\ ~ running
  /\ at[a] \in {"open", "store"} => link = Nothing
  /\ at[a] \in {"open", "store", "bus"} => bus = Nothing
  /\ at[a] \in {"open", "store", "bus", "layer"} => layer = Nothing
  /\ at[a] \in {"bus", "layer", "run"} => link = has[a] /\ kind[link] = "can"
  /\ at[a] \in {"layer", "run"} => bus = link
  /\ at[a] = "run" => layer = bus
  /\ at[a] # "open" => phase[has[a]] = "open"

InConnect == {a \in Agents : at[a] \in Connecting}
Among(places) == \E a \in Agents : at[a] \in places

\* What there is while nobody connects, whoever disconnects.
Standing ==
  /\ layer = bus
  /\ link # Nothing => /\ phase[link] = "open" /\ (kind[link] = "can" <=> bus = link)
                       /\ ~ Among({"close", "clear"})
  /\ bus # Nothing => bus = link \/ Among({"close", "clear"})
  /\ bus # Nothing => running \/ Among({"take", "close", "clear"})
  /\ running => bus # Nothing /\ bus = link /\ ~ Among({"take", "close", "clear"})

ConnInv ==
  server = "mcp" /\ ~ Overlapped("connects") /\ ~ Overlapped("connect and disconnect") =>
    /\ \A a \in InConnect : Connected(a)
    /\ InConnect = {} => Standing

\* The capture thread of the connection there is.
LoopInv ==
  (server = "mcp" => ~ Overlapped("connects") /\ ~ Overlapped("connect and disconnect"))
  /\ running
    => loop[bus].at \notin {"none", "ended"} /\ (loop[bus].at = "wait" => loop[bus].on = bus)

\* A session, its queue and its link.
SessionInv ==
  ~ Overlapped("diagnostics") =>
    /\ sources = {registered} \ {Nothing}
    /\ \A a \in Agents : at[a] \in {"session", "adopt"} => session = Nothing
    /\ \A a \in Agents : at[a] = "adopt" /\ kind[has[a]] = "can" => registered # Nothing
    /\ \A a \in Agents : at[a] = "identify" => session = has[a]
    /\ \A a \in Agents : at[a] \in {"down", "take", "close", "clear"} => session = Nothing
    /\ session = Nothing /\ ~ Among({"adopt"}) => registered = Nothing
    /\ session # Nothing /\ kind[session] = "can" => registered # Nothing
    /\ ~ Overlapped("connects") =>
         /\ session # Nothing => session = link /\ phase[link] = "open"
         /\ \A a \in Agents : at[a] \in {"session", "adopt", "identify"}
                                => has[a] = link /\ phase[link] = "open"

ServerInv == /\ ServerTypes /\ HeldInv /\ A2aInv /\ CallsInv /\ LinksInv /\ ConnInv /\ LoopInv
             /\ SessionInv

\* Nothing is open and nobody has called.
LEMMA InitServer == Init => ServerInv
<1> SUFFICES ASSUME Init PROVE ServerInv
  OBVIOUS
<1> USE BoundsAssumption DEF Init, Links, Nothing
<1>1. ServerTypes
  <2>1. [at |-> "none", on |-> Nothing] \in [at : LoopPlaces, on : 0..MaxLinks]
    BY DEF LoopPlaces
  <2> QED BY <2>1 DEF ServerTypes, Places
<1>2. HeldInv
  BY DEF HeldInv, Holding
<1>3. A2aInv /\ CallsInv /\ LinksInv
  BY DEF A2aInv, CallsInv, LinksInv, Overlapped, Connecting, Leaving, Diagnosing
<1>4. ConnInv
  BY DEF ConnInv, Standing, InConnect, Connecting, Overlapped
<1>5. LoopInv
  BY DEF LoopInv
<1>6. SessionInv
  BY DEF SessionInv, Among, Overlapped
<1> QED BY <1>1, <1>2, <1>3, <1>4, <1>5, <1>6 DEF ServerInv

\* The types hold whatever is done.
LEMMA ServerTypesStep == ServerTypes /\ HeldInv /\ [Next]_vars => ServerTypes'
<1> SUFFICES ASSUME ServerTypes, HeldInv, [Next]_vars PROVE ServerTypes'
  OBVIOUS
<1> USE BoundsAssumption
    DEF ServerTypes, Links, Nothing, Places, Connecting, Leaving, Diagnosing,
        connVars, linkVars, obdVars, Go, Begin
<1>30. ASSUME NEW a \in Agents, NEW where \in Places, Go(a, where)
       PROVE  at' \in [Agents -> Places]
  BY <1>30
<1>31. ASSUME NEW a \in Agents, NEW l \in 0..MaxLinks, has' = [has EXCEPT ![a] = l]
       PROVE  has' \in [Agents -> 0..MaxLinks]
  BY <1>31
<1>1. ASSUME NEW a \in Agents, Connect(a) PROVE ServerTypes'
  BY <1>1 DEF Connect
<1>2. ASSUME NEW a \in Agents, OpenLink(a) PROVE ServerTypes'
  <2>1. CASE Go(a, "idle") /\ UNCHANGED <<linkVars, has>>
    BY <1>2, <2>1 DEF OpenLink
  <2>2. ASSUME NEW l \in Links, NEW k \in {"can", "elm"},
               kind' = [kind EXCEPT ![l] = k], phase' = [phase EXCEPT ![l] = "open"],
               has' = [has EXCEPT ![a] = l], Go(a, "store")
        PROVE  ServerTypes'
    <3>1. at' \in [Agents -> Places] /\ has' \in [Agents -> 0..MaxLinks]
      <4>1. at' \in [Agents -> Places]
        BY <2>2, <1>30
      <4>2. has' \in [Agents -> 0..MaxLinks]
        BY <2>2
      <4> QED BY <4>1, <4>2
    <3>2. kind' \in [Links -> {"can", "elm"}] /\ phase' \in [Links -> {"none", "open", "closed"}]
      BY <2>2
    <3> QED BY <1>2, <3>1, <3>2 DEF OpenLink
  <2> QED BY <1>2, <2>1, <2>2 DEF OpenLink
<1>3. ASSUME NEW a \in Agents, StoreLink(a) PROVE ServerTypes'
  <2>1. CASE kind[has[a]] = "can"
    BY <1>3, <2>1 DEF StoreLink
  <2>2. CASE kind[has[a]] # "can"
    <3>1. at' \in [Agents -> Places] /\ has' \in [Agents -> 0..MaxLinks]
      <4>1. at' \in [Agents -> Places]
        BY <1>3, <2>2, <1>30 DEF StoreLink
      <4>2. has' = [has EXCEPT ![a] = Nothing] /\ Nothing \in 0..MaxLinks
        BY <1>3, <2>2 DEF StoreLink
      <4>3. has' \in [Agents -> 0..MaxLinks]
        BY <4>2, <1>31
      <4> QED BY <4>1, <4>3
    <3> QED BY <1>3, <2>2, <3>1 DEF StoreLink
  <2> QED BY <2>1, <2>2
<1>4. ASSUME NEW a \in Agents, StoreBus(a) PROVE ServerTypes'
  BY <1>4 DEF StoreBus, HeldInv, Holding
<1>5. ASSUME NEW a \in Agents, StoreLayer(a) PROVE ServerTypes'
  BY <1>5 DEF StoreLayer
<1>6. ASSUME NEW a \in Agents, StartCapture(a) PROVE ServerTypes'
  <2>1. has[a] \in Links /\ "check" \in LoopPlaces
    BY <1>6 DEF StartCapture, HeldInv, Holding, LoopPlaces
  <2>2. loop' \in [Links -> [at : LoopPlaces, on : 0..MaxLinks]]
    BY <1>6, <2>1 DEF StartCapture
  <2> QED BY <1>6, <2>2 DEF StartCapture
<1>7. ASSUME NEW a \in Agents, Disconnect(a) PROVE ServerTypes'
  BY <1>7 DEF Disconnect
<1>8. ASSUME NEW a \in Agents, LeaveSession(a) PROVE ServerTypes'
  BY <1>8 DEF LeaveSession
<1>9. ASSUME NEW a \in Agents, StopRunning(a) PROVE ServerTypes'
  BY <1>9 DEF StopRunning
<1>10. ASSUME NEW a \in Agents, ForgetSession(a) PROVE ServerTypes'
  BY <1>10 DEF ForgetSession, ResetState
<1>11. ASSUME NEW a \in Agents, ObdReset(a) PROVE ServerTypes'
  BY <1>11 DEF ObdReset, ResetState
<1>12. ASSUME NEW a \in Agents, TakeLink(a) PROVE ServerTypes'
  BY <1>12 DEF TakeLink
<1>13. ASSUME NEW a \in Agents, CloseLink(a) PROVE ServerTypes'
  <2>1. phase' \in [Links -> {"none", "open", "closed"}]
    BY <1>13 DEF CloseLink
  <2> QED BY <1>13, <2>1 DEF CloseLink
<1>14. ASSUME NEW a \in Agents, ClearAll(a) PROVE ServerTypes'
  BY <1>14 DEF ClearAll
<1>15. ASSUME NEW a \in Agents, ObdConnect(a) PROVE ServerTypes'
  BY <1>15 DEF ObdConnect
<1>16. ASSUME NEW a \in Agents, ObdDisconnect(a) PROVE ServerTypes'
  BY <1>16 DEF ObdDisconnect
<1>17. ASSUME NEW a \in Agents, OpenSession(a) PROVE ServerTypes'
  <2>1. CASE phase[has[a]] # "open"
    <3>1. Go(a, "idle") /\ has' = [has EXCEPT ![a] = Nothing] /\ ResetState
      BY <1>17, <2>1 DEF OpenSession
    <3>2. at' \in [Agents -> Places] /\ has' \in [Agents -> 0..MaxLinks]
      <4>1. at' \in [Agents -> Places]
        BY <3>1, <1>30
      <4>2. has' \in [Agents -> 0..MaxLinks]
        BY <3>1
      <4> QED BY <4>1, <4>2
    <3> QED BY <1>17, <3>1, <3>2 DEF OpenSession, ResetState
  <2>2. CASE kind[has[a]] = "elm" /\ phase[has[a]] = "open"
    <3>1. Go(a, "adopt") /\ UNCHANGED <<obdVars, has>>
      BY <1>17, <2>2 DEF OpenSession
    <3>2. at' \in [Agents -> Places]
      BY <1>30, <3>1
    <3> QED BY <1>17, <3>1, <3>2 DEF OpenSession
  <2>3. CASE kind[has[a]] = "can" /\ phase[has[a]] = "open"
    <3>1. Go(a, "adopt") /\ UNCHANGED <<session, has>>
          /\ queues' = queues + 1 /\ registered' = queues + 1
      BY <1>17, <2>3 DEF OpenSession
    <3>2. at' \in [Agents -> Places]
      BY <1>30, <3>1
    <3> QED BY <1>17, <3>1, <3>2 DEF OpenSession
  <2> QED BY <1>17, <2>1, <2>2, <2>3 DEF OpenSession
<1>18. ASSUME NEW a \in Agents, AdoptSession(a) PROVE ServerTypes'
  BY <1>18 DEF AdoptSession, HeldInv, Holding
<1>19. ASSUME NEW a \in Agents, Identify(a) PROVE ServerTypes'
  BY <1>19 DEF Identify, ResetState
<1>20. ASSUME NEW a \in Agents, A2aConnect(a) PROVE ServerTypes'
  BY <1>20 DEF A2aConnect
<1>21. ASSUME NEW a \in Agents, A2aSimulatorFails(a) PROVE ServerTypes'
  BY <1>21 DEF A2aSimulatorFails
<1>22. ASSUME NEW a \in Agents, A2aDisconnect(a) PROVE ServerTypes'
  BY <1>22 DEF A2aDisconnect
<1>23. ASSUME NEW l \in Links, Capture(l) PROVE ServerTypes'
  <2>1. ASSUME NEW where \in LoopPlaces, NEW b \in 0..MaxLinks, LoopGoes(l, where, b)
        PROVE  loop' \in [Links -> [at : LoopPlaces, on : 0..MaxLinks]]
    BY <2>1 DEF LoopGoes
  <2>2. {"check", "recv", "wait", "ended", "failed"} \subseteq LoopPlaces /\ bus \in 0..MaxLinks
        /\ 0 \in 0..MaxLinks
    BY DEF LoopPlaces
  <2>3. loop' \in [Links -> [at : LoopPlaces, on : 0..MaxLinks]]
    BY <1>23, <2>1, <2>2 DEF Capture, CheckRunning, EnterRecv, LeaveRecv, Receive
  <2> QED BY <1>23, <2>3 DEF Capture, CheckRunning, EnterRecv, LeaveRecv, Receive
<1>24. CASE UNCHANGED vars
  BY <1>24 DEF vars
<1> QED
  BY <1>1, <1>2, <1>3, <1>4, <1>5, <1>6, <1>7, <1>8, <1>9, <1>10, <1>11, <1>12, <1>13, <1>14,
     <1>15, <1>16, <1>17, <1>18, <1>19, <1>20, <1>21, <1>22, <1>23, <1>24
  DEF Next, Call, Work

\* A call that begins notes with which calls it overlaps.
LEMMA BeginNotes ==
  ASSUME ServerTypes, NEW a \in Agents, NEW where \in Places, Begin(a, where), NEW b \in Agents
  PROVE  /\ overlaps \subseteq overlaps'
         /\ where \in Connecting /\ at[b] \in Connecting => "connects" \in overlaps'
         /\ where \in Connecting /\ at[b] \in Leaving => "connect and disconnect" \in overlaps'
         /\ where \in Leaving /\ at[b] \in Connecting => "connect and disconnect" \in overlaps'
         /\ where \in Leaving \cup Diagnosing /\ at[b] \in Leaving \cup Diagnosing
              => "diagnostics" \in overlaps'
<1>1. overlaps \subseteq overlaps'
  BY DEF Begin
<1>2. ASSUME at[b] # "idle", NEW what \in Overlap(CallOf(where), CallOf(at[b]))
      PROVE  what \in overlaps'
  BY <1>2 DEF Begin
<1>3. \A p \in Places :
        /\ p \in Connecting => CallOf(p) = "connect"
        /\ p \in Leaving => CallOf(p) = "disconnect"
        /\ p \in Diagnosing => CallOf(p) = "obd"
  BY DEF CallOf, Connecting, Leaving, Diagnosing
<1>4. at[b] \in Places
  BY DEF ServerTypes
<1>5. at[b] \in Connecting \cup Leaving \cup Diagnosing => at[b] # "idle"
  BY DEF Connecting, Leaving, Diagnosing
<1>6. /\ "connects" \in Overlap("connect", "connect")
      /\ "connect and disconnect" \in Overlap("connect", "disconnect")
      /\ "connect and disconnect" \in Overlap("disconnect", "connect")
      /\ \A c, d \in {"disconnect", "obd"} : "diagnostics" \in Overlap(c, d)
  BY DEF Overlap
<1> HIDE DEF Overlap, CallOf
<1> QED BY <1>1, <1>2, <1>3, <1>4, <1>5, <1>6

\* A call stays of its kind until it ends.
LEMMA GoesOn ==
  ASSUME ServerTypes, CallsInv, NEW a \in Agents, NEW where \in Places, Go(a, where),
         \/ where = "idle"
         \/ \E kinds \in {Connecting, Leaving, Diagnosing} : where \in kinds /\ at[a] \in kinds
  PROVE  CallsInv'
<1>1. /\ overlaps' = overlaps /\ at'[a] = where
      /\ \A b \in Agents : b # a => at'[b] = at[b]
  BY DEF Go, ServerTypes
<1>2. \A b \in Agents :
        /\ at'[b] \in Connecting => at[b] \in Connecting
        /\ at'[b] \in Leaving => at[b] \in Leaving
        /\ at'[b] \in Diagnosing => at[b] \in Diagnosing
  BY <1>1 DEF Connecting, Leaving, Diagnosing
<1> QED BY <1>1, <1>2 DEF CallsInv, Overlapped

\* Which calls overlap is noted by each that begins.
LEMMA CallsStep == ServerTypes /\ CallsInv /\ [Next]_vars => CallsInv'
<1> SUFFICES ASSUME ServerTypes, CallsInv, [Next]_vars PROVE CallsInv'
  OBVIOUS
<1>1. ASSUME NEW a \in Agents, NEW where \in Places, at[a] = "idle", Begin(a, where)
      PROVE  CallsInv'
  <2>1. /\ at'[a] = where
        /\ \A b \in Agents : b # a => at'[b] = at[b]
    BY <1>1 DEF Begin, ServerTypes
  <2>2. \A b \in Agents :
          /\ overlaps \subseteq overlaps'
          /\ where \in Connecting /\ at[b] \in Connecting => "connects" \in overlaps'
          /\ where \in Connecting /\ at[b] \in Leaving => "connect and disconnect" \in overlaps'
          /\ where \in Leaving /\ at[b] \in Connecting => "connect and disconnect" \in overlaps'
          /\ where \in Leaving \cup Diagnosing /\ at[b] \in Leaving \cup Diagnosing
               => "diagnostics" \in overlaps'
    BY <1>1, BeginNotes
  <2>3. Connecting \cap Leaving = {}
    BY DEF Connecting, Leaving
  <2>4. "connects" \notin overlaps' =>
          \A b, c \in Agents : at'[b] \in Connecting /\ at'[c] \in Connecting => b = c
    BY <2>1, <2>2 DEF CallsInv, Overlapped
  <2>5. "connect and disconnect" \notin overlaps' =>
          \A b, c \in Agents : ~ (at'[b] \in Connecting /\ at'[c] \in Leaving)
    BY <2>1, <2>2, <2>3 DEF CallsInv, Overlapped
  <2>6. "diagnostics" \notin overlaps' =>
          \A b, c \in Agents :
            at'[b] \in Leaving \cup Diagnosing /\ at'[c] \in Leaving \cup Diagnosing => b = c
    BY <2>1, <2>2 DEF CallsInv, Overlapped
  <2> QED BY <2>4, <2>5, <2>6 DEF CallsInv, Overlapped
<1>2. {"open", "obd", "session", "reset", "run", "close", "idle"} \subseteq Places
  BY DEF Places, Connecting, Leaving, Diagnosing
<1>3. ASSUME NEW a \in Agents, Call(a), ~ A2aSimulatorFails(a) PROVE CallsInv'
  BY <1>1, <1>2, <1>3
  DEF Call, Connect, Disconnect, ObdConnect, ObdDisconnect, A2aConnect, A2aDisconnect, MayCall
<1>4. ASSUME NEW a \in Agents, Work(a) \/ A2aSimulatorFails(a) PROVE CallsInv'
  <2>1. PICK where \in Places :
          /\ Go(a, where)
          /\ \/ where = "idle"
             \/ \E kinds \in {Connecting, Leaving, Diagnosing} : where \in kinds /\ at[a] \in kinds
    <3> USE DEF Places, Connecting, Leaving, Diagnosing
    <3>1. CASE OpenLink(a)
      BY <3>1 DEF OpenLink
    <3>2. CASE StoreLink(a)
      BY <3>2 DEF StoreLink
    <3>3. CASE StoreBus(a) \/ StoreLayer(a)
      BY <3>3 DEF StoreBus, StoreLayer
    <3>4. CASE StartCapture(a) \/ ClearAll(a) \/ A2aSimulatorFails(a)
      BY <3>4 DEF StartCapture, ClearAll, A2aSimulatorFails
    <3>5. CASE LeaveSession(a)
      BY <3>5 DEF LeaveSession
    <3>6. CASE ForgetSession(a) \/ StopRunning(a)
      BY <3>6 DEF ForgetSession, StopRunning
    <3>7. CASE TakeLink(a)
      BY <3>7 DEF TakeLink
    <3>8. CASE CloseLink(a)
      BY <3>8 DEF CloseLink
    <3>9. CASE OpenSession(a)
      BY <3>9 DEF OpenSession
    <3>10. CASE AdoptSession(a)
      BY <3>10 DEF AdoptSession
    <3>11. CASE Identify(a) \/ ObdReset(a)
      BY <3>11 DEF Identify, ObdReset
    <3> QED
      BY <1>4, <3>1, <3>2, <3>3, <3>4, <3>5, <3>6, <3>7, <3>8, <3>9, <3>10, <3>11 DEF Work
  <2> QED BY <2>1, GoesOn
<1>5. ASSUME NEW l \in Links, Capture(l) PROVE CallsInv'
  <2>1. UNCHANGED <<at, overlaps>>
    BY <1>5 DEF Capture, CheckRunning, EnterRecv, LeaveRecv, Receive
  <2> QED BY <2>1 DEF CallsInv, Overlapped
<1>6. CASE UNCHANGED vars
  BY <1>6 DEF vars, CallsInv, Overlapped
<1> QED BY <1>3, <1>4, <1>5, <1>6 DEF Next, Call

\* Where the agents are, and what they hold, after one of them went on.
Step(a, where) == at'[a] = where /\ \A b \in Agents : b # a => at'[b] = at[b]
Hold(a, l) == has'[a] = l /\ \A b \in Agents : b # a => has'[b] = has[b]

\* A link that is opened is new; the others stay what they are.
Opens(l) == /\ phase[l] = "none" /\ phase'[l] = "open"
            /\ \A m \in Links : m # l => phase'[m] = phase[m]
Closes(l) == phase'[l] = "closed" /\ \A m \in Links : m # l => phase'[m] = phase[m]

\* What an agent's step does, one action after the other.
LEMMA CallSteps ==
  ASSUME ServerTypes, NEW a \in Agents
  PROVE  /\ Connect(a) => Step(a, "open")
         /\ Disconnect(a) => Step(a, "obd")
         /\ ObdConnect(a) => Step(a, "session") /\ Hold(a, link)
         /\ ObdDisconnect(a) => Step(a, "reset")
         /\ A2aConnect(a) => \E l \in Links : Step(a, "run") /\ Hold(a, l) /\ Opens(l)
                                              /\ bus' = l /\ layer' = l
         /\ A2aSimulatorFails(a) => Step(a, "idle") /\ Hold(a, Nothing)
         /\ A2aDisconnect(a) => Step(a, "close") /\ Hold(a, bus)
<1> USE DEF ServerTypes, Step, Hold, Begin, Go
<1>1. Connect(a) => Step(a, "open")
  BY DEF Connect
<1>2. Disconnect(a) => Step(a, "obd")
  BY DEF Disconnect
<1>3. ObdConnect(a) => Step(a, "session") /\ Hold(a, link)
  BY DEF ObdConnect
<1>4. ObdDisconnect(a) => Step(a, "reset")
  BY DEF ObdDisconnect
<1>5. ASSUME A2aConnect(a)
      PROVE  \E l \in Links : Step(a, "run") /\ Hold(a, l) /\ Opens(l) /\ bus' = l /\ layer' = l
  <2>1. PICK l \in Links : /\ phase[l] = "none" /\ phase' = [phase EXCEPT ![l] = "open"]
                           /\ bus' = l /\ layer' = l
                           /\ has' = [has EXCEPT ![a] = l]
    BY <1>5 DEF A2aConnect
  <2>2. Opens(l)
    BY <2>1 DEF Opens
  <2>3. Step(a, "run") /\ Hold(a, l)
    BY <1>5, <2>1 DEF A2aConnect
  <2> QED BY <2>1, <2>2, <2>3
<1>6. A2aSimulatorFails(a) => Step(a, "idle") /\ Hold(a, Nothing)
  BY DEF A2aSimulatorFails
<1>7. A2aDisconnect(a) => Step(a, "close") /\ Hold(a, bus)
  BY DEF A2aDisconnect
<1> QED BY <1>1, <1>2, <1>3, <1>4, <1>5, <1>6, <1>7

\* The same of a call that goes on.
LEMMA WorkSteps ==
  ASSUME ServerTypes, HeldInv, NEW a \in Agents
  PROVE  /\ OpenLink(a) => \/ Step(a, "idle") /\ UNCHANGED <<has, phase, kind>>
                           \/ \E l \in Links : /\ Step(a, "store") /\ Hold(a, l) /\ Opens(l)
                                               /\ \A m \in Links : m # l => kind'[m] = kind[m]
         /\ StoreLink(a) => IF kind[has[a]] = "can" THEN Step(a, "bus") /\ has' = has
                                                    ELSE Step(a, "idle") /\ Hold(a, Nothing)
         /\ StoreBus(a) => Step(a, "layer")
         /\ StoreLayer(a) => Step(a, "run")
         /\ StartCapture(a) => /\ Step(a, "idle") /\ Hold(a, Nothing)
                               /\ loop'[has[a]].at = "check"
         /\ LeaveSession(a) => Step(a, IF session = Nothing THEN "down" ELSE "forget")
         /\ ForgetSession(a) => Step(a, "down")
         /\ StopRunning(a) => Step(a, "take")
         /\ TakeLink(a) => Step(a, IF link = Nothing THEN "idle" ELSE "close") /\ Hold(a, link)
         /\ CloseLink(a) => Step(a, "clear") /\ Hold(a, Nothing) /\ Closes(has[a])
         /\ ClearAll(a) => Step(a, "idle")
         /\ OpenSession(a) =>
              \/ phase[has[a]] # "open" /\ ResetState /\ Step(a, "idle") /\ Hold(a, Nothing)
              \/ /\ phase[has[a]] = "open" /\ UNCHANGED <<session, has>> /\ Step(a, "adopt")
                 /\ IF kind[has[a]] = "elm" THEN UNCHANGED <<registered, sources, queues>>
                    ELSE /\ sources' = sources \cup {queues + 1}
                         /\ registered' = queues + 1 /\ queues' = queues + 1
         /\ AdoptSession(a) => Step(a, "identify")
         /\ Identify(a) => Step(a, "idle") /\ Hold(a, Nothing)
         /\ ObdReset(a) => Step(a, "idle")
<1> USE DEF ServerTypes, Step, Hold, Go
<1>1. ASSUME OpenLink(a)
      PROVE  \/ Step(a, "idle") /\ UNCHANGED <<has, phase, kind>>
             \/ \E l \in Links : /\ Step(a, "store") /\ Hold(a, l) /\ Opens(l)
                                 /\ \A m \in Links : m # l => kind'[m] = kind[m]
  <2>1. CASE Go(a, "idle") /\ UNCHANGED <<linkVars, has>>
    BY <2>1 DEF linkVars
  <2>2. ASSUME NEW l \in Links, NEW k, phase[l] = "none", kind' = [kind EXCEPT ![l] = k],
               phase' = [phase EXCEPT ![l] = "open"], has' = [has EXCEPT ![a] = l], Go(a, "store")
        PROVE  /\ Step(a, "store") /\ Hold(a, l) /\ Opens(l)
               /\ \A m \in Links : m # l => kind'[m] = kind[m]
    <3>1. Opens(l)
      BY <2>2 DEF Opens
    <3>2. Step(a, "store") /\ Hold(a, l)
      BY <2>2
    <3>3. \A m \in Links : m # l => kind'[m] = kind[m]
      BY <2>2
    <3> QED BY <3>1, <3>2, <3>3
  <2> QED BY <1>1, <2>1, <2>2 DEF OpenLink
<1>2. StoreLink(a) => IF kind[has[a]] = "can" THEN Step(a, "bus") /\ has' = has
                                              ELSE Step(a, "idle") /\ Hold(a, Nothing)
  BY DEF StoreLink
<1>3. StoreBus(a) => Step(a, "layer")
  BY DEF StoreBus
<1>4. StoreLayer(a) => Step(a, "run")
  BY DEF StoreLayer
<1>5. StartCapture(a) => Step(a, "idle") /\ Hold(a, Nothing)
  BY DEF StartCapture
<1>6. StartCapture(a) => loop'[has[a]].at = "check"
  BY DEF StartCapture, HeldInv, Holding, Links, Nothing
<1>7. LeaveSession(a) => Step(a, IF session = Nothing THEN "down" ELSE "forget")
  BY DEF LeaveSession
<1>8. ForgetSession(a) => Step(a, "down")
  BY DEF ForgetSession
<1>9. StopRunning(a) => Step(a, "take")
  BY DEF StopRunning
<1>10. TakeLink(a) => Step(a, IF link = Nothing THEN "idle" ELSE "close") /\ Hold(a, link)
  BY DEF TakeLink
<1>11. CloseLink(a) => Step(a, "clear") /\ Hold(a, Nothing)
  BY DEF CloseLink
<1>12. CloseLink(a) => Closes(has[a])
  BY DEF CloseLink, Closes, HeldInv, Holding, Links, Nothing
<1>13. ClearAll(a) => Step(a, "idle")
  BY DEF ClearAll
<1>14. ASSUME OpenSession(a)
       PROVE  \/ phase[has[a]] # "open" /\ ResetState /\ Step(a, "idle") /\ Hold(a, Nothing)
              \/ /\ phase[has[a]] = "open" /\ UNCHANGED <<session, has>> /\ Step(a, "adopt")
                 /\ IF kind[has[a]] = "elm" THEN UNCHANGED <<registered, sources, queues>>
                    ELSE /\ sources' = sources \cup {queues + 1}
                         /\ registered' = queues + 1 /\ queues' = queues + 1
  <2>1. CASE phase[has[a]] # "open"
    BY <1>14, <2>1 DEF OpenSession
  <2>2. CASE phase[has[a]] = "open" /\ kind[has[a]] = "elm"
    BY <1>14, <2>2 DEF OpenSession, obdVars
  <2>3. CASE phase[has[a]] = "open" /\ kind[has[a]] # "elm"
    BY <1>14, <2>3 DEF OpenSession
  <2> QED BY <2>1, <2>2, <2>3
<1>15. AdoptSession(a) => Step(a, "identify")
  BY DEF AdoptSession
<1>16. Identify(a) => Step(a, "idle") /\ Hold(a, Nothing)
  BY DEF Identify
<1>17. ObdReset(a) => Step(a, "idle")
  BY DEF ObdReset
<1> QED
  BY <1>1, <1>2, <1>3, <1>4, <1>5, <1>6, <1>7, <1>8, <1>9, <1>10, <1>11, <1>12, <1>13, <1>14,
     <1>15, <1>16, <1>17

\* A link that was opened is not new again.
LEMMA HeldStep == ServerTypes /\ HeldInv /\ [Next]_vars => HeldInv'
<1> SUFFICES ASSUME ServerTypes, HeldInv, [Next]_vars PROVE HeldInv'
  OBVIOUS
<1> USE DEF Nothing, Links, HeldInv, Holding, Step, Hold, connVars, linkVars, obdVars
<1>1. /\ link \in 0..MaxLinks /\ bus \in 0..MaxLinks /\ session \in 0..MaxLinks
      /\ \A a \in Agents : has[a] \in 0..MaxLinks
  BY DEF ServerTypes
<1>2. ASSUME NEW a \in Agents, Connect(a) PROVE HeldInv'
  BY <1>1, <1>2, CallSteps DEF Connect
<1>3. ASSUME NEW a \in Agents, Disconnect(a) PROVE HeldInv'
  BY <1>1, <1>3, CallSteps DEF Disconnect
<1>4. ASSUME NEW a \in Agents, ObdConnect(a) PROVE HeldInv'
  BY <1>1, <1>4, CallSteps DEF ObdConnect
<1>5. ASSUME NEW a \in Agents, ObdDisconnect(a) PROVE HeldInv'
  BY <1>1, <1>5, CallSteps DEF ObdDisconnect
<1>6. ASSUME NEW a \in Agents, A2aConnect(a) PROVE HeldInv'
  <2>1. PICK l \in Links : Step(a, "run") /\ Hold(a, l) /\ Opens(l) /\ bus' = l
    BY <1>6, CallSteps
  <2>2. UNCHANGED <<link, session>>
    BY <1>6 DEF A2aConnect
  <2> QED BY <1>1, <2>1, <2>2 DEF Opens
<1>7. ASSUME NEW a \in Agents, A2aSimulatorFails(a) PROVE HeldInv'
  BY <1>1, <1>7, CallSteps DEF A2aSimulatorFails
<1>8. ASSUME NEW a \in Agents, A2aDisconnect(a) PROVE HeldInv'
  BY <1>1, <1>8, CallSteps DEF A2aDisconnect
<1>9. ASSUME NEW a \in Agents, OpenLink(a) PROVE HeldInv'
  BY <1>1, <1>9, WorkSteps DEF OpenLink, Opens
<1>10. ASSUME NEW a \in Agents, StoreLink(a) PROVE HeldInv'
  BY <1>1, <1>10, WorkSteps DEF StoreLink
<1>11. ASSUME NEW a \in Agents, StoreBus(a) PROVE HeldInv'
  BY <1>1, <1>11, WorkSteps DEF StoreBus
<1>12. ASSUME NEW a \in Agents, StoreLayer(a) PROVE HeldInv'
  BY <1>1, <1>12, WorkSteps DEF StoreLayer
<1>13. ASSUME NEW a \in Agents, StartCapture(a) PROVE HeldInv'
  <2>1. Step(a, "idle") /\ Hold(a, Nothing) /\ UNCHANGED <<link, bus, session, phase>>
    BY <1>13, WorkSteps DEF StartCapture
  <2> QED BY <1>1, <2>1
<1>14. ASSUME NEW a \in Agents, LeaveSession(a) PROVE HeldInv'
  BY <1>1, <1>14, WorkSteps DEF LeaveSession
<1>15. ASSUME NEW a \in Agents, ForgetSession(a) PROVE HeldInv'
  BY <1>1, <1>15, WorkSteps DEF ForgetSession, ResetState
<1>16. ASSUME NEW a \in Agents, StopRunning(a) PROVE HeldInv'
  BY <1>1, <1>16, WorkSteps DEF StopRunning
<1>17. ASSUME NEW a \in Agents, TakeLink(a) PROVE HeldInv'
  <2>1. /\ Step(a, IF link = Nothing THEN "idle" ELSE "close") /\ Hold(a, link)
        /\ link' = Nothing /\ UNCHANGED <<bus, session, phase>>
    BY <1>17, WorkSteps DEF TakeLink
  <2> QED BY <1>1, <2>1
<1>18. ASSUME NEW a \in Agents, CloseLink(a) PROVE HeldInv'
  <2>1. /\ Step(a, "clear") /\ Hold(a, Nothing) /\ Closes(has[a])
        /\ UNCHANGED <<link, bus, session>>
    BY <1>18, WorkSteps DEF CloseLink
  <2>2. \A m \in Links : phase[m] # "none" => phase'[m] # "none"
    BY <2>1 DEF Closes
  <2> QED BY <1>1, <2>1, <2>2
<1>19. ASSUME NEW a \in Agents, ClearAll(a) PROVE HeldInv'
  BY <1>1, <1>19, WorkSteps DEF ClearAll
<1>20. ASSUME NEW a \in Agents, OpenSession(a) PROVE HeldInv'
  BY <1>1, <1>20, WorkSteps DEF OpenSession, ResetState
<1>21. ASSUME NEW a \in Agents, AdoptSession(a) PROVE HeldInv'
  BY <1>1, <1>21, WorkSteps DEF AdoptSession
<1>22. ASSUME NEW a \in Agents, Identify(a) PROVE HeldInv'
  <2>1. /\ Step(a, "idle") /\ Hold(a, Nothing)
        /\ UNCHANGED <<link, bus, phase>> /\ session' \in {session, Nothing}
    BY <1>22, WorkSteps DEF Identify, ResetState
  <2> QED BY <1>1, <2>1
<1>23. ASSUME NEW a \in Agents, ObdReset(a) PROVE HeldInv'
  BY <1>1, <1>23, WorkSteps DEF ObdReset, ResetState
<1>24. ASSUME NEW l \in Links, Capture(l) PROVE HeldInv'
  BY <1>24 DEF Capture, CheckRunning, EnterRecv, LeaveRecv, Receive
<1>25. CASE UNCHANGED vars
  BY <1>25 DEF vars
<1> QED
  BY <1>2, <1>3, <1>4, <1>5, <1>6, <1>7, <1>8, <1>9, <1>10, <1>11, <1>12, <1>13, <1>14, <1>15,
     <1>16, <1>17, <1>18, <1>19, <1>20, <1>21, <1>22, <1>23, <1>24, <1>25
  DEF Next, Call, Work

\* A server stays what it is, and what was noted stays noted.
LEMMA NotesStay == [Next]_vars => server' = server /\ overlaps \subseteq overlaps'
<1> SUFFICES ASSUME [Next]_vars PROVE server' = server /\ overlaps \subseteq overlaps'
  OBVIOUS
<1>1. ASSUME NEW a \in Agents, Call(a) PROVE server' = server /\ overlaps \subseteq overlaps'
  BY <1>1 DEF Call, Connect, Disconnect, ObdConnect, ObdDisconnect, A2aConnect,
     A2aSimulatorFails, A2aDisconnect, Begin, Go
<1>2. ASSUME NEW a \in Agents, Work(a) PROVE server' = server /\ overlaps \subseteq overlaps'
  <2>1. server' = server
    BY <1>2 DEF Work, OpenLink, StoreLink, StoreBus, StoreLayer, StartCapture, LeaveSession,
       ForgetSession, StopRunning, TakeLink, CloseLink, ClearAll, OpenSession, AdoptSession,
       Identify, ObdReset
  <2>2. overlaps' = overlaps
    BY <1>2 DEF Work, OpenLink, StoreLink, StoreBus, StoreLayer, StartCapture, LeaveSession,
       ForgetSession, StopRunning, TakeLink, CloseLink, ClearAll, OpenSession, AdoptSession,
       Identify, ObdReset, Go
  <2> QED BY <2>1, <2>2
<1>3. ASSUME NEW l \in Links, Capture(l) PROVE server' = server /\ overlaps \subseteq overlaps'
  BY <1>3 DEF Capture, CheckRunning, EnterRecv, LeaveRecv, Receive
<1>4. CASE UNCHANGED vars
  BY <1>4 DEF vars
<1> QED BY <1>1, <1>2, <1>3, <1>4 DEF Next

\* The A2A server serves one message after the other.
LEMMA A2aStep == ServerTypes /\ HeldInv /\ A2aInv /\ [Next]_vars => A2aInv'
<1> SUFFICES ASSUME ServerTypes, HeldInv, A2aInv, [Next]_vars, server = "a2a" PROVE A2aInv'
  BY NotesStay DEF A2aInv
<1> USE DEF A2aInv, Nothing, Links, Step, Hold, connVars, linkVars, obdVars, MayCall
<1>1. /\ bus \in 0..MaxLinks
      /\ \A a \in Agents : at[a] = "run" => has[a] # Nothing
  BY DEF ServerTypes, HeldInv, Holding
<1>2. ASSUME NEW a \in Agents, A2aConnect(a) PROVE A2aInv'
  <2>1. PICK l \in Links : /\ Step(a, "run") /\ Hold(a, l) /\ Opens(l)
                           /\ bus' = l /\ layer' = l
    BY <1>2, CallSteps
  <2>2. bus = Nothing /\ running' = running /\ (\A b \in Agents : at[b] = "idle")
    BY <1>2 DEF A2aConnect
  <2>3. UNCHANGED <<link, session, registered, sources>>
    BY <1>2 DEF A2aConnect
  <2> QED BY <1>1, <2>1, <2>2, <2>3 DEF Opens
<1>3. ASSUME NEW a \in Agents, A2aSimulatorFails(a) PROVE A2aInv'
  <2>1. Step(a, "idle") /\ Hold(a, Nothing)
    BY <1>3, CallSteps
  <2>2. at[a] = "run" /\ UNCHANGED <<bus, layer, running, phase>>
    BY <1>3 DEF A2aSimulatorFails
  <2>3. UNCHANGED <<link, session, registered, sources>>
    BY <1>3 DEF A2aSimulatorFails
  <2> QED BY <1>1, <2>1, <2>2, <2>3
<1>4. ASSUME NEW a \in Agents, A2aDisconnect(a) PROVE A2aInv'
  <2>1. Step(a, "close") /\ Hold(a, bus)
    BY <1>4, CallSteps
  <2>2. /\ ~ running' /\ UNCHANGED <<bus, layer, phase>> /\ bus # Nothing
        /\ \A b \in Agents : at[b] = "idle"
    BY <1>4 DEF A2aDisconnect
  <2>3. UNCHANGED <<link, session, registered, sources>>
    BY <1>4 DEF A2aDisconnect
  <2> QED BY <1>1, <2>1, <2>2, <2>3
<1>5. ASSUME NEW a \in Agents, StartCapture(a) PROVE A2aInv'
  <2>1. Step(a, "idle") /\ Hold(a, Nothing)
    BY <1>5, WorkSteps
  <2>2. at[a] = "run" /\ UNCHANGED <<bus, layer, phase>>
    BY <1>5 DEF StartCapture
  <2>3. UNCHANGED <<link, session, registered, sources>>
    BY <1>5 DEF StartCapture
  <2> QED BY <1>1, <2>1, <2>2, <2>3
<1>6. ASSUME NEW a \in Agents, CloseLink(a) PROVE A2aInv'
  <2>1. Step(a, "clear") /\ Hold(a, Nothing) /\ Closes(has[a])
    BY <1>6, WorkSteps
  <2>2. at[a] = "close" /\ UNCHANGED <<bus, layer, running>>
    BY <1>6 DEF CloseLink
  <2>3. UNCHANGED <<link, session, registered, sources>>
    BY <1>6 DEF CloseLink
  <2> QED BY <1>1, <2>1, <2>2, <2>3 DEF Closes
<1>7. ASSUME NEW a \in Agents, ClearAll(a) PROVE A2aInv'
  <2>1. Step(a, "idle")
    BY <1>7, WorkSteps
  <2>2. at[a] = "clear" /\ bus' = Nothing /\ layer' = Nothing /\ UNCHANGED <<running, phase, has>>
    BY <1>7 DEF ClearAll
  <2>3. UNCHANGED <<link, session, registered, sources>>
    BY <1>7 DEF ClearAll
  <2> QED BY <1>1, <2>1, <2>2, <2>3
<1>8. ASSUME NEW a \in Agents, Call(a) \/ Work(a)
      PROVE  \/ A2aConnect(a) \/ A2aSimulatorFails(a) \/ A2aDisconnect(a)
             \/ StartCapture(a) \/ CloseLink(a) \/ ClearAll(a)
  <2>1. at[a] \in {"idle", "run", "close", "clear"}
    OBVIOUS
  <2> QED
    BY <1>8, <2>1 DEF Call, Work, Connect, Disconnect, ObdConnect, ObdDisconnect, OpenLink,
       StoreLink, StoreBus, StoreLayer, LeaveSession, ForgetSession, StopRunning, TakeLink,
       OpenSession, AdoptSession, Identify, ObdReset
<1>9. ASSUME NEW l \in Links, Capture(l) PROVE A2aInv'
  BY <1>9 DEF Capture, CheckRunning, EnterRecv, LeaveRecv, Receive
<1>10. CASE UNCHANGED vars
  BY <1>10 DEF vars
<1> QED
  BY <1>2, <1>3, <1>4, <1>5, <1>6, <1>7, <1>8, <1>9, <1>10
  DEF Next

\* An open link is kept, or in the hands of the call that stores or closes it.
LEMMA LinksStep ==
  ServerTypes /\ HeldInv /\ CallsInv /\ LinksInv /\ [Next]_vars => LinksInv'
<1> SUFFICES ASSUME ServerTypes, HeldInv, CallsInv, LinksInv, [Next]_vars,
                    server = "mcp", "connects" \notin overlaps'
             PROVE  LinksInv'
  BY NotesStay DEF LinksInv, Overlapped
<1>1. server' = server /\ overlaps \subseteq overlaps'
  BY NotesStay
<1>2. CallsInv'
  BY CallsStep
<1> USE DEF LinksInv, Overlapped, Nothing, Links, Step, Hold, connVars, linkVars, obdVars,
            MayCall, Opens, Closes
<1>3. /\ "connects" \notin overlaps
      /\ link \in 0..MaxLinks /\ \A a \in Agents : has[a] \in 0..MaxLinks
      /\ \A a \in Agents : at[a] \in {"store", "close"} => has[a] \in Links
      /\ \A a, b \in Agents : at[a] \in Connecting /\ at[b] \in Connecting => a = b
  <2>1. /\ link \in 0..MaxLinks /\ \A a \in Agents : has[a] \in 0..MaxLinks
        /\ \A a \in Agents : at[a] \in {"store", "close"} => has[a] # Nothing
    BY DEF ServerTypes, HeldInv, Holding
  <2>2. "connects" \notin overlaps
    BY <1>1
  <2>3. \A a, b \in Agents : at[a] \in Connecting /\ at[b] \in Connecting => a = b
    BY <2>2 DEF CallsInv
  <2>4. \A a \in Agents : at[a] \in {"store", "close"} => has[a] \in Links
    BY <2>1
  <2> QED BY <2>1, <2>2, <2>3, <2>4
<1>4. ASSUME NEW a \in Agents, Connect(a) PROVE LinksInv'
  BY <1>1, <1>2, <1>3, <1>4, CallSteps DEF Connect
<1>5. ASSUME NEW a \in Agents, Disconnect(a) PROVE LinksInv'
  BY <1>1, <1>2, <1>3, <1>5, CallSteps DEF Disconnect
<1>6. ASSUME NEW a \in Agents, ObdConnect(a) PROVE LinksInv'
  <2>1. /\ Step(a, "session") /\ Hold(a, link) /\ at[a] = "idle" /\ UNCHANGED <<link, phase>>
    BY <1>6, CallSteps DEF ObdConnect
  <2> QED BY <1>3, <2>1
<1>7. ASSUME NEW a \in Agents, ObdDisconnect(a) PROVE LinksInv'
  BY <1>1, <1>2, <1>3, <1>7, CallSteps DEF ObdDisconnect
<1>8. ASSUME NEW a \in Agents, OpenLink(a) PROVE LinksInv'
  BY <1>1, <1>2, <1>3, <1>8, WorkSteps DEF OpenLink
<1>9. ASSUME NEW a \in Agents, StoreLink(a) PROVE LinksInv'
  <2>1. /\ at[a] = "store" /\ link' = has[a] /\ phase' = phase
        /\ \/ Step(a, "bus") /\ has' = has
           \/ Step(a, "idle") /\ Hold(a, Nothing)
    BY <1>9, WorkSteps DEF StoreLink
  <2>2. \A b \in Agents : b # a => at[b] \notin {"open", "store"}
    BY <1>3, <2>1 DEF Connecting
  <2> QED BY <1>3, <2>1, <2>2
<1>10. ASSUME NEW a \in Agents, StoreBus(a) PROVE LinksInv'
  BY <1>1, <1>2, <1>3, <1>10, WorkSteps DEF StoreBus
<1>11. ASSUME NEW a \in Agents, StoreLayer(a) PROVE LinksInv'
  BY <1>1, <1>2, <1>3, <1>11, WorkSteps DEF StoreLayer
<1>12. ASSUME NEW a \in Agents, StartCapture(a) PROVE LinksInv'
  <2>1. /\ at[a] = "run" /\ Step(a, "idle") /\ Hold(a, Nothing) /\ UNCHANGED <<link, phase>>
    BY <1>12, WorkSteps DEF StartCapture
  <2> QED BY <1>3, <2>1
<1>13. ASSUME NEW a \in Agents, LeaveSession(a) PROVE LinksInv'
  BY <1>1, <1>2, <1>3, <1>13, WorkSteps DEF LeaveSession
<1>14. ASSUME NEW a \in Agents, ForgetSession(a) PROVE LinksInv'
  BY <1>1, <1>2, <1>3, <1>14, WorkSteps DEF ForgetSession
<1>15. ASSUME NEW a \in Agents, StopRunning(a) PROVE LinksInv'
  <2>1. /\ at[a] = "down" /\ Step(a, "take") /\ UNCHANGED <<link, phase, has>>
    BY <1>15, WorkSteps DEF StopRunning
  <2> QED BY <1>3, <2>1
<1>16. ASSUME NEW a \in Agents, TakeLink(a) PROVE LinksInv'
  <2>1. /\ at[a] = "take" /\ Hold(a, link) /\ link' = Nothing /\ phase' = phase
        /\ Step(a, IF link = Nothing THEN "idle" ELSE "close")
    BY <1>16, WorkSteps DEF TakeLink
  <2> QED BY <1>3, <2>1
<1>17. ASSUME NEW a \in Agents, CloseLink(a) PROVE LinksInv'
  <2>1. /\ at[a] = "close" /\ Step(a, "clear") /\ Hold(a, Nothing) /\ Closes(has[a]) /\ link' = link
    BY <1>17, WorkSteps DEF CloseLink
  <2> QED BY <1>3, <2>1
<1>18. ASSUME NEW a \in Agents, ClearAll(a) PROVE LinksInv'
  BY <1>1, <1>2, <1>3, <1>18, WorkSteps DEF ClearAll
<1>19. ASSUME NEW a \in Agents, OpenSession(a) PROVE LinksInv'
  BY <1>1, <1>2, <1>3, <1>19, WorkSteps DEF OpenSession
<1>20. ASSUME NEW a \in Agents, AdoptSession(a) PROVE LinksInv'
  BY <1>1, <1>2, <1>3, <1>20, WorkSteps DEF AdoptSession
<1>21. ASSUME NEW a \in Agents, Identify(a) PROVE LinksInv'
  <2>1. /\ at[a] = "identify" /\ Step(a, "idle") /\ Hold(a, Nothing) /\ UNCHANGED <<link, phase>>
    BY <1>21, WorkSteps DEF Identify
  <2> QED BY <1>3, <2>1
<1>22. ASSUME NEW a \in Agents, ObdReset(a) PROVE LinksInv'
  BY <1>1, <1>2, <1>3, <1>22, WorkSteps DEF ObdReset
<1>23. ASSUME NEW a \in Agents
       PROVE  ~ (A2aConnect(a) \/ A2aSimulatorFails(a) \/ A2aDisconnect(a))
  BY DEF A2aConnect, A2aSimulatorFails, A2aDisconnect
<1>24. ASSUME NEW l \in Links, Capture(l) PROVE LinksInv'
  BY <1>1, <1>3, <1>24 DEF Capture, CheckRunning, EnterRecv, LeaveRecv, Receive
<1>25. CASE UNCHANGED vars
  BY <1>3, <1>25 DEF vars
<1> QED
  BY <1>4, <1>5, <1>6, <1>7, <1>8, <1>9, <1>10, <1>11, <1>12, <1>13, <1>14, <1>15, <1>16, <1>17,
     <1>18, <1>19, <1>20, <1>21, <1>22, <1>23, <1>24, <1>25
  DEF Next, Call, Work

\* What a connect has done so far, and what stands when nobody connects.
LEMMA ConnStep == ServerTypes /\ HeldInv /\ CallsInv /\ ConnInv /\ [Next]_vars => ConnInv'
<1> SUFFICES ASSUME ServerTypes, HeldInv, CallsInv, ConnInv, [Next]_vars,
                    server = "mcp", "connects" \notin overlaps',
                    "connect and disconnect" \notin overlaps'
             PROVE  ConnInv'
  BY NotesStay DEF ConnInv, Overlapped
<1> USE DEF Nothing, Step, Hold
<1>1. "connects" \notin overlaps /\ "connect and disconnect" \notin overlaps
  BY NotesStay
<1>2. CallsInv'
  BY CallsStep
<1>3. /\ \A a \in Agents : at[a] \in Connecting => Connected(a)
      /\ (\A a \in Agents : at[a] \notin Connecting) => Standing
  BY <1>1 DEF ConnInv, InConnect, Overlapped
<1>4. \A a, b \in Agents : at[a] \in Connecting /\ at[b] \in Connecting => a = b
  BY <1>1 DEF CallsInv, Overlapped
<1>5. \A a, b \in Agents : ~ (at[a] \in Connecting /\ at[b] \in Leaving)
  BY <1>1 DEF CallsInv, Overlapped
<1>6. \A a, b \in Agents : ~ (at'[a] \in Connecting /\ at'[b] \in Leaving)
  BY <1>2 DEF CallsInv, Overlapped
<1>7. ASSUME \A a \in Agents : at'[a] \in Connecting => Connected(a)',
             (\A a \in Agents : at'[a] \notin Connecting) => Standing'
      PROVE  ConnInv'
  BY <1>7 DEF ConnInv, InConnect
<1>8. /\ link \in 0..MaxLinks /\ bus \in 0..MaxLinks /\ running \in BOOLEAN
      /\ \A a \in Agents : has[a] \in 0..MaxLinks
      /\ \A a \in Agents : at[a] \in {"store", "bus", "layer", "run", "close"} => has[a] # Nothing
      /\ \A a, b \in Agents : at[a] \in Connecting /\ at[b] \in {"take", "close", "clear"} => FALSE
  <2>1. /\ link \in 0..MaxLinks /\ bus \in 0..MaxLinks /\ running \in BOOLEAN
        /\ \A a \in Agents : has[a] \in 0..MaxLinks
    BY DEF ServerTypes
  <2>2. \A a \in Agents : at[a] \in {"store", "bus", "layer", "run", "close"} => has[a] # Nothing
    BY DEF HeldInv, Holding
  <2>3. {"take", "close", "clear"} \subseteq Leaving
    BY DEF Leaving
  <2> QED BY <2>1, <2>2, <2>3, <1>5
\* A call that neither connects nor takes the connection down.
<1>9. ASSUME NEW a \in Agents, NEW where, Step(a, where),
             UNCHANGED <<link, bus, layer, running, kind, phase>>,
             \A b \in Agents : b # a => has'[b] = has[b],
             at[a] \notin Connecting \cup {"take", "close", "clear"},
             where \notin Connecting \cup {"take", "close", "clear"}
      PROVE  ConnInv'
  <2>1. ASSUME NEW b \in Agents, at'[b] \in Connecting PROVE Connected(b)'
    <3>1. b # a /\ at'[b] = at[b] /\ has'[b] = has[b]
      BY <1>9, <2>1
    <3> QED BY <1>3, <1>9, <2>1, <3>1 DEF Connected
  <2>2. ASSUME \A b \in Agents : at'[b] \notin Connecting PROVE Standing'
    <3>1. \A b \in Agents : at[b] \notin Connecting
      BY <1>9, <2>2
    <3>2. \A places \in {{"take", "close", "clear"}, {"close", "clear"}} :
            Among(places)' <=> Among(places)
      BY <1>9 DEF Among
    <3>3. /\ Among({"take", "close", "clear"})' <=> Among({"take", "close", "clear"})
          /\ Among({"close", "clear"})' <=> Among({"close", "clear"})
      BY <3>2
    <3> HIDE DEF Among
    <3> QED BY <1>3, <1>9, <3>1, <3>3 DEF Standing
  <2> QED BY <1>7, <2>1, <2>2
<1>10. ASSUME NEW a \in Agents, Connect(a) PROVE ConnInv'
  <2>1. /\ Step(a, "open") /\ at[a] = "idle" /\ link = Nothing
        /\ UNCHANGED <<link, bus, layer, running, has, kind, phase>>
    BY <1>10, CallSteps DEF Connect, MayCall, connVars, linkVars
  <2>2. \A b \in Agents : b # a => at[b] \notin Connecting \cup Leaving
    <3>1. "open" \in Connecting
      BY DEF Connecting
    <3>2. \A b \in Agents : at'[b] \in Connecting => a = b
      BY <1>1, <1>2, <2>1, <3>1 DEF CallsInv, Overlapped
    <3> QED BY <1>6, <2>1, <3>1, <3>2
  <2>3. Standing
    BY <1>3, <2>1, <2>2 DEF Connecting
  <2>4. ~ Among({"take", "close", "clear"}) /\ ~ Among({"close", "clear"})
    BY <2>1, <2>2 DEF Among, Leaving
  <2>5. bus = Nothing /\ layer = Nothing /\ ~ running
    BY <2>1, <2>3, <2>4 DEF Standing
  <2>6. Connected(a)'
    BY <2>1, <2>5 DEF Connected
  <2>7. \A b \in Agents : at'[b] \in Connecting => b = a
    BY <2>1, <2>2
  <2>8. at'[a] \in Connecting
    BY <2>1 DEF Connecting
  <2> QED BY <1>7, <2>6, <2>7, <2>8
\* A connect that goes on, and one that has ended.
<1>11. ASSUME NEW a \in Agents, at[a] \in Connecting, NEW where, Step(a, where),
              where \in Connecting => Connected(a)', where \notin Connecting => Standing'
       PROVE  ConnInv'
  BY <1>4, <1>7, <1>11
<1>12. ASSUME NEW a \in Agents, at[a] \in Connecting, Step(a, "idle")
       PROVE  ~ Among({"take", "close", "clear"})' /\ ~ Among({"close", "clear"})'
  BY <1>8, <1>12 DEF Among
<1>13. ASSUME NEW a \in Agents, OpenLink(a) PROVE ConnInv'
  <2>1. /\ at[a] = "open" /\ UNCHANGED <<link, bus, layer, running>>
        /\ \/ Step(a, "idle") /\ UNCHANGED <<has, phase, kind>>
           \/ \E l \in Links : Step(a, "store") /\ Hold(a, l) /\ Opens(l)
    BY <1>13, WorkSteps DEF OpenLink, connVars
  <2>2. at[a] \in Connecting /\ "store" \in Connecting
    BY <2>1 DEF Connecting
  <2>3. link = Nothing /\ bus = Nothing /\ layer = Nothing /\ ~ running
    BY <1>3, <2>1, <2>2 DEF Connected
  <2>4. CASE Step(a, "idle")
    <3>1. Standing'
      BY <1>12, <2>1, <2>2, <2>3, <2>4 DEF Standing
    <3> QED BY <1>11, <2>2, <2>4, <3>1 DEF Connecting
  <2>5. CASE \E l \in Links : Step(a, "store") /\ Hold(a, l) /\ Opens(l)
    <3>1. Connected(a)'
      BY <2>1, <2>3, <2>5 DEF Connected, Opens
    <3> QED BY <1>11, <2>2, <2>5, <3>1
  <2> QED BY <2>1, <2>4, <2>5
<1>14. ASSUME NEW a \in Agents, StoreLink(a) PROVE ConnInv'
  <2>1. /\ at[a] = "store" /\ link' = has[a] /\ UNCHANGED <<bus, layer, running, phase, kind>>
        /\ IF kind[has[a]] = "can" THEN Step(a, "bus") /\ has' = has
                                   ELSE Step(a, "idle") /\ Hold(a, Nothing)
    BY <1>14, WorkSteps DEF StoreLink, linkVars
  <2>2. at[a] \in Connecting /\ "bus" \in Connecting /\ "idle" \notin Connecting
    BY <2>1 DEF Connecting
  <2>3. bus = Nothing /\ layer = Nothing /\ ~ running /\ phase[has[a]] = "open"
    BY <1>3, <2>1, <2>2 DEF Connected
  <2>4. CASE kind[has[a]] = "can"
    <3>1. Connected(a)'
      BY <2>1, <2>3, <2>4 DEF Connected
    <3> QED BY <1>11, <2>1, <2>2, <2>4, <3>1
  <2>5. CASE kind[has[a]] # "can"
    <3>1. has[a] # Nothing
      BY <1>8, <2>1
    <3>2. ~ Among({"take", "close", "clear"})' /\ ~ Among({"close", "clear"})'
      BY <1>12, <2>1, <2>2, <2>5
    <3>3. Standing'
      BY <2>1, <2>3, <2>5, <3>1, <3>2 DEF Standing
    <3> QED BY <1>11, <2>1, <2>2, <2>5, <3>3
  <2> QED BY <2>4, <2>5
<1>15. ASSUME NEW a \in Agents, StoreBus(a) PROVE ConnInv'
  <2>1. /\ at[a] = "bus" /\ bus' = IF phase[has[a]] = "open" THEN has[a] ELSE Nothing
        /\ Step(a, "layer") /\ UNCHANGED <<link, layer, running, phase, kind, has>>
    BY <1>15, WorkSteps DEF StoreBus, linkVars
  <2>2. at[a] \in Connecting /\ "layer" \in Connecting
    BY <2>1 DEF Connecting
  <2>3. Connected(a)'
    BY <1>3, <2>1, <2>2 DEF Connected
  <2> QED BY <1>11, <2>1, <2>2, <2>3
<1>16. ASSUME NEW a \in Agents, StoreLayer(a) PROVE ConnInv'
  <2>1. /\ at[a] = "layer" /\ layer' = bus
        /\ Step(a, "run") /\ UNCHANGED <<link, bus, running, phase, kind, has>>
    BY <1>16, WorkSteps DEF StoreLayer, linkVars
  <2>2. at[a] \in Connecting /\ "run" \in Connecting
    BY <2>1 DEF Connecting
  <2>3. Connected(a)'
    BY <1>3, <2>1, <2>2 DEF Connected
  <2> QED BY <1>11, <2>1, <2>2, <2>3
<1>17. ASSUME NEW a \in Agents, StartCapture(a) PROVE ConnInv'
  <2>1. /\ at[a] = "run" /\ running' /\ Step(a, "idle")
        /\ UNCHANGED <<link, bus, layer, phase, kind>>
    BY <1>17, WorkSteps DEF StartCapture, linkVars
  <2>2. at[a] \in Connecting /\ "idle" \notin Connecting
    BY <2>1 DEF Connecting
  <2>3. /\ link = has[a] /\ kind[link] = "can" /\ bus = link /\ layer = bus /\ phase[link] = "open"
        /\ link # Nothing
    <3>1. has[a] # Nothing
      BY <1>8, <2>1
    <3> QED BY <1>3, <2>1, <2>2, <3>1 DEF Connected
  <2>4. ~ Among({"take", "close", "clear"})' /\ ~ Among({"close", "clear"})'
    BY <1>12, <2>1, <2>2
  <2>5. Standing'
    BY <2>1, <2>3, <2>4 DEF Standing
  <2> QED BY <1>11, <2>1, <2>2, <2>5
\* A disconnect finds nobody connecting.
<1>18. ASSUME NEW a \in Agents, at[a] \in Leaving, NEW where, Step(a, where),
              where \notin Connecting, Standing => Standing'
       PROVE  ConnInv'
  <2>1. \A b \in Agents : at[b] \notin Connecting
    BY <1>5, <1>18
  <2>2. \A b \in Agents : at'[b] \notin Connecting
    BY <1>18, <2>1
  <2> QED BY <1>3, <1>7, <1>18, <2>1, <2>2
<1>19. {"down", "take", "close", "clear"} \subseteq Leaving
       /\ {"take", "close", "clear", "idle"} \cap Connecting = {}
  BY DEF Leaving, Connecting
<1>20. ASSUME NEW a \in Agents, StopRunning(a) PROVE ConnInv'
  <2>1. /\ at[a] = "down" /\ ~ running' /\ Step(a, "take")
        /\ UNCHANGED <<link, bus, layer, phase, kind>>
    BY <1>20, WorkSteps DEF StopRunning, linkVars
  <2>2. Among({"close", "clear"})' <=> Among({"close", "clear"})
    BY <2>1 DEF Among
  <2>3. Among({"take", "close", "clear"})'
    BY <2>1 DEF Among
  <2>4. Standing => Standing'
    BY <2>1, <2>2, <2>3 DEF Standing
  <2> QED BY <1>18, <1>19, <2>1, <2>4
<1>21. ASSUME NEW a \in Agents, TakeLink(a) PROVE ConnInv'
  <2>1. /\ at[a] = "take" /\ link' = Nothing
        /\ Step(a, IF link = Nothing THEN "idle" ELSE "close")
        /\ UNCHANGED <<bus, layer, running, phase, kind>>
    BY <1>21, WorkSteps DEF TakeLink, linkVars
  <2>2. Among({"take", "close", "clear"})
    BY <2>1 DEF Among
  <2>3. link # Nothing => Among({"close", "clear"})' /\ Among({"take", "close", "clear"})'
    BY <2>1 DEF Among
  <2>4. Among({"close", "clear"}) => Among({"close", "clear"})' /\ Among({"take", "close", "clear"})'
    BY <2>1 DEF Among
  <2>5. Standing => Standing'
    BY <2>1, <2>2, <2>3, <2>4 DEF Standing
  <2> QED BY <1>18, <1>19, <2>1, <2>5
<1>22. ASSUME NEW a \in Agents, CloseLink(a) PROVE ConnInv'
  <2>1. /\ at[a] = "close" /\ Step(a, "clear") /\ Closes(has[a])
        /\ UNCHANGED <<link, bus, layer, running, kind>>
    BY <1>22, WorkSteps DEF CloseLink, connVars
  <2>2. /\ Among({"close", "clear"}) /\ Among({"take", "close", "clear"})
        /\ Among({"close", "clear"})' /\ Among({"take", "close", "clear"})'
    BY <2>1 DEF Among
  <2>3. Standing => Standing'
    BY <2>1, <2>2 DEF Standing
  <2> QED BY <1>18, <1>19, <2>1, <2>3
<1>23. ASSUME NEW a \in Agents, ClearAll(a) PROVE ConnInv'
  <2>1. /\ at[a] = "clear" /\ Step(a, "idle") /\ bus' = Nothing /\ layer' = Nothing
        /\ UNCHANGED <<link, running, phase, kind>>
    BY <1>23, WorkSteps DEF ClearAll, linkVars
  <2>2. Among({"close", "clear"}) /\ Among({"take", "close", "clear"})
    BY <2>1 DEF Among
  <2>3. Standing => Standing'
    BY <2>1, <2>2 DEF Standing
  <2> QED BY <1>18, <1>19, <2>1, <2>3
<1>24. ASSUME NEW a \in Agents,
              \/ Disconnect(a) \/ ObdConnect(a) \/ ObdDisconnect(a) \/ LeaveSession(a)
              \/ ForgetSession(a) \/ OpenSession(a) \/ AdoptSession(a) \/ Identify(a) \/ ObdReset(a)
       PROVE  ConnInv'
  <2>1. UNCHANGED <<link, bus, layer, running, kind, phase>>
    BY <1>24 DEF Disconnect, ObdConnect, ObdDisconnect, LeaveSession, ForgetSession, OpenSession,
                 AdoptSession, Identify, ObdReset, connVars, linkVars
  <2>2. \A b \in Agents : b # a => has'[b] = has[b]
    <3>1. Hold(a, Nothing) \/ Hold(a, link) \/ has' = has
      BY <1>24, CallSteps, WorkSteps
      DEF Disconnect, ObdDisconnect, LeaveSession, ForgetSession, AdoptSession, ObdReset
    <3> QED BY <3>1
  <2>3. at[a] \in {"idle", "obd", "forget", "session", "adopt", "identify", "reset"}
    BY <1>24 DEF Disconnect, ObdConnect, ObdDisconnect, LeaveSession, ForgetSession, OpenSession,
                 AdoptSession, Identify, ObdReset, MayCall
  <2>4. \E where \in {"idle", "obd", "forget", "down", "session", "adopt", "identify", "reset"} :
          Step(a, where)
    BY <1>24, CallSteps, WorkSteps
  <2>5. ({"idle", "obd", "forget", "down", "session", "adopt", "identify", "reset"}
           \cap (Connecting \cup {"take", "close", "clear"})) = {}
    BY DEF Connecting
  <2>6. PICK where \in {"idle", "obd", "forget", "down", "session", "adopt", "identify", "reset"} :
          Step(a, where)
    BY <2>4
  <2>7. /\ at[a] \notin Connecting \cup {"take", "close", "clear"}
        /\ where \notin Connecting \cup {"take", "close", "clear"}
    BY <2>3, <2>5
  <2> QED BY <1>9, <2>1, <2>2, <2>6, <2>7
<1>25. ASSUME NEW a \in Agents
       PROVE  ~ (A2aConnect(a) \/ A2aSimulatorFails(a) \/ A2aDisconnect(a))
  BY DEF A2aConnect, A2aSimulatorFails, A2aDisconnect
<1>26. ASSUME UNCHANGED <<link, bus, layer, running, kind, phase, at, has>> PROVE ConnInv'
  <2>1. \A places \in {{"take", "close", "clear"}, {"close", "clear"}} :
          Among(places)' <=> Among(places)
    BY <1>26 DEF Among
  <2>2. \A a \in Agents : Connected(a)' <=> Connected(a)
    BY <1>26 DEF Connected
  <2>3. /\ Among({"take", "close", "clear"})' <=> Among({"take", "close", "clear"})
        /\ Among({"close", "clear"})' <=> Among({"close", "clear"})
    BY <2>1
  <2>4. Standing' <=> Standing
    BY <1>26, <2>3 DEF Standing
  <2> QED BY <1>3, <1>7, <1>26, <2>2, <2>4
<1>27. ASSUME NEW l \in Links, Capture(l) PROVE ConnInv'
  BY <1>26, <1>27 DEF Capture, CheckRunning, EnterRecv, LeaveRecv, Receive, connVars, linkVars
<1>28. CASE UNCHANGED vars
  BY <1>26, <1>28 DEF vars, connVars, linkVars
<1> QED
  BY <1>10, <1>13, <1>14, <1>15, <1>16, <1>17, <1>20, <1>21, <1>22, <1>23, <1>24, <1>25, <1>27,
     <1>28
  DEF Next, Call, Work

\* A link has a number that is not 0.
LEMMA LinkNumbers == Nothing \notin Links /\ \A l \in 0..MaxLinks : l # Nothing => l \in Links
  BY BoundsAssumption DEF Links, Nothing

\* While a connection runs nobody connects or takes it down, and its bus is open.
LEMMA WhileRunning ==
  ASSUME ServerTypes, A2aInv, ConnInv, running,
         server = "mcp" => ~ Overlapped("connects") /\ ~ Overlapped("connect and disconnect")
  PROVE  /\ bus \in Links /\ phase[bus] = "open"
         /\ \A a \in Agents : at[a] \notin {"open", "store", "bus", "layer", "run", "clear"}
<1>1. server \in {"mcp", "a2a"} /\ bus \in 0..MaxLinks
  BY DEF ServerTypes
<1>2. CASE server = "mcp"
  <2>1. \A a \in Agents : at[a] \notin Connecting
    BY <1>2 DEF ConnInv, Connected, InConnect
  <2>2. Standing
    BY <1>2, <2>1 DEF ConnInv, InConnect
  <2>3. bus # Nothing /\ bus = link /\ phase[bus] = "open" /\ ~ Among({"take", "close", "clear"})
    BY <2>2 DEF Standing
  <2>4. bus \in Links
    BY <1>1, <2>3, LinkNumbers
  <2> QED BY <2>1, <2>3, <2>4 DEF Among, Connecting
<1>3. CASE server = "a2a"
  <2>1. bus # Nothing /\ \A a \in Agents : at[a] = "idle"
    BY <1>3 DEF A2aInv
  <2>2. phase[bus] = "open"
    BY <1>3, <2>1 DEF A2aInv
  <2>3. bus \in Links
    BY <1>1, <2>1, LinkNumbers
  <2> QED BY <2>1, <2>2, <2>3
<1> QED BY <1>1, <1>2, <1>3

\* The capture thread of a connection is there as long as it runs.
LEMMA LoopStep ==
  ServerTypes /\ HeldInv /\ A2aInv /\ ConnInv /\ LoopInv /\ [Next]_vars => LoopInv'
<1> DEFINE Told == server = "mcp" =>
                     ~ Overlapped("connects") /\ ~ Overlapped("connect and disconnect")
<1> SUFFICES ASSUME ServerTypes, HeldInv, A2aInv, ConnInv, LoopInv, [Next]_vars, Told', running'
             PROVE  loop'[bus'].at \notin {"none", "ended"}
                    /\ (loop'[bus'].at = "wait" => loop'[bus'].on = bus')
  BY DEF LoopInv
<1>1. Told
  BY NotesStay DEF Overlapped
<1>2. CASE running
  <2>1. /\ bus \in Links /\ phase[bus] = "open"
        /\ \A a \in Agents : at[a] \notin {"open", "store", "bus", "layer", "run", "clear"}
    BY <1>1, <1>2, WhileRunning
  <2>2. loop[bus].at \notin {"none", "ended"} /\ (loop[bus].at = "wait" => loop[bus].on = bus)
    BY <1>1, <1>2 DEF LoopInv
  <2>3. ASSUME NEW a \in Agents, Call(a) PROVE UNCHANGED <<bus, loop>>
    <3>1. bus # Nothing
      BY <2>1, LinkNumbers
    <3> QED
      BY <2>1, <2>3, <3>1 DEF Call, Connect, Disconnect, ObdConnect, ObdDisconnect, A2aConnect,
         A2aSimulatorFails, A2aDisconnect, connVars
  <2>4. ASSUME NEW a \in Agents, Work(a) PROVE UNCHANGED <<bus, loop>>
    BY <2>1, <2>4 DEF Work, OpenLink, StoreLink, StoreBus, StoreLayer, StartCapture, LeaveSession,
       ForgetSession, StopRunning, TakeLink, CloseLink, ClearAll, OpenSession, AdoptSession,
       Identify, ObdReset, connVars
  <2>5. ASSUME NEW l \in Links, Capture(l)
        PROVE  loop'[bus'].at \notin {"none", "ended"}
               /\ (loop'[bus'].at = "wait" => loop'[bus'].on = bus')
    <3>1. bus' = bus /\ bus # Nothing
      BY <2>1, <2>5, LinkNumbers
      DEF Capture, CheckRunning, EnterRecv, LeaveRecv, Receive, connVars
    <3>2. CASE l # bus
      <4>1. loop'[bus] = loop[bus]
        BY <2>1, <2>5, <3>2
        DEF Capture, CheckRunning, EnterRecv, LeaveRecv, Receive, LoopGoes, ServerTypes
      <4> QED BY <2>2, <3>1, <4>1
    <3>3. CASE l = bus
      <4>1. ASSUME NEW where, NEW b, LoopGoes(l, where, b)
            PROVE  loop'[l].at = where /\ loop'[l].on = b
        BY <4>1 DEF LoopGoes, ServerTypes
      <4>2. CASE CheckRunning(l)
        BY <1>2, <3>1, <3>3, <4>1, <4>2 DEF CheckRunning
      <4>3. CASE EnterRecv(l)
        BY <2>1, <3>1, <3>3, <4>1, <4>3 DEF EnterRecv
      <4>4. CASE LeaveRecv(l)
        <5>1. loop[bus].on = bus /\ phase[loop[l].on] # "closed"
          BY <2>1, <2>2, <3>3, <4>4 DEF LeaveRecv
        <5>2. LoopGoes(l, "check", Nothing) \/ LoopGoes(l, "failed", Nothing)
          BY <4>4, <5>1 DEF LeaveRecv
        <5> QED BY <3>1, <3>3, <4>1, <5>2
      <4>5. CASE Receive(l)
        BY <3>1, <3>3, <4>1, <4>5 DEF Receive
      <4> QED BY <2>5, <4>2, <4>3, <4>4, <4>5 DEF Capture
    <3> QED BY <3>2, <3>3
  <2>6. CASE UNCHANGED vars
    BY <2>2, <2>6 DEF vars, connVars
  <2> QED BY <2>2, <2>3, <2>4, <2>5, <2>6 DEF Next
<1>3. CASE ~ running
  <2>1. \A a \in Agents : ~ Call(a)
    BY <1>3 DEF Call, Connect, Disconnect, ObdConnect, ObdDisconnect, A2aConnect,
       A2aSimulatorFails, A2aDisconnect, connVars
  <2>2. \A l \in Links : ~ Capture(l)
    BY <1>3 DEF Capture, CheckRunning, EnterRecv, LeaveRecv, Receive, connVars
  <2>3. ~ UNCHANGED vars
    BY <1>3 DEF vars, connVars
  <2>4. PICK a \in Agents : Work(a)
    BY <2>1, <2>2, <2>3 DEF Next
  <2>5. StartCapture(a)
    BY <1>3, <2>4 DEF Work, OpenLink, StoreLink, StoreBus, StoreLayer, LeaveSession,
       ForgetSession, StopRunning, TakeLink, CloseLink, ClearAll, OpenSession, AdoptSession,
       Identify, ObdReset, connVars
  <2>6. loop'[has[a]].at = "check" /\ bus' = bus /\ at[a] = "run"
    BY <2>5, WorkSteps DEF StartCapture
  <2>7. has[a] = bus
    <3>1. CASE server = "mcp"
      <4>1. Connected(a)
        BY <1>1, <2>6, <3>1 DEF ConnInv, InConnect, Connecting
      <4> QED BY <2>6, <4>1 DEF Connected
    <3>2. CASE server = "a2a"
      BY <2>6, <3>2 DEF A2aInv
    <3> QED BY <3>1, <3>2 DEF ServerTypes
  <2> QED BY <2>6, <2>7
<1> QED BY <1>2, <1>3

\* A session, its queue and its link go together.
LEMMA SessionStep ==
  ServerTypes /\ HeldInv /\ A2aInv /\ CallsInv /\ LinksInv /\ SessionInv /\ [Next]_vars
    => SessionInv'
<1> SUFFICES ASSUME ServerTypes, HeldInv, A2aInv, CallsInv, LinksInv, SessionInv, [Next]_vars,
                    "diagnostics" \notin overlaps'
             PROVE  SessionInv'
  BY DEF SessionInv, Overlapped
<1> USE DEF Nothing, Step, Hold
<1>1. server' = server /\ overlaps \subseteq overlaps' /\ "diagnostics" \notin overlaps
  BY NotesStay
<1>2. CallsInv' /\ A2aInv'
  BY CallsStep, A2aStep
<1>3. /\ sources = {registered} \ {Nothing}
      /\ \A a \in Agents : at[a] \in {"session", "adopt"} => session = Nothing
      /\ \A a \in Agents : at[a] = "adopt" /\ kind[has[a]] = "can" => registered # Nothing
      /\ \A a \in Agents : at[a] = "identify" => session = has[a]
      /\ \A a \in Agents : at[a] \in {"down", "take", "close", "clear"} => session = Nothing
      /\ session = Nothing /\ ~ Among({"adopt"}) => registered = Nothing
      /\ session # Nothing /\ kind[session] = "can" => registered # Nothing
      /\ "connects" \notin overlaps =>
           /\ session # Nothing => session = link /\ phase[link] = "open"
           /\ \A a \in Agents : at[a] \in {"session", "adopt", "identify"}
                                  => has[a] = link /\ phase[link] = "open"
  BY <1>1 DEF SessionInv, Overlapped
<1>4. /\ \A a, b \in Agents : at[a] \in Leaving \cup Diagnosing
                              /\ at[b] \in Leaving \cup Diagnosing => a = b
      /\ \A a, b \in Agents : at'[a] \in Leaving \cup Diagnosing
                              /\ at'[b] \in Leaving \cup Diagnosing => a = b
  BY <1>1, <1>2 DEF CallsInv, Overlapped
<1>5. /\ \A a \in Agents : at[a] \in {"session", "adopt", "identify"} => has[a] # Nothing
      /\ \A a \in Agents : has[a] # Nothing => phase[has[a]] # "none"
      /\ link # Nothing => phase[link] # "none"
      /\ session # Nothing => phase[session] # "none"
  BY DEF HeldInv, Holding
<1>6. CASE server = "a2a"
  <2>1. /\ session' = Nothing /\ registered' = Nothing /\ sources' = {}
        /\ \A a \in Agents : at'[a] \in {"idle", "run", "close", "clear"}
    BY <1>1, <1>2, <1>6 DEF A2aInv
  <2> QED BY <2>1 DEF SessionInv
\* Calls that leave the session as it is.
<1>7. ASSUME NEW a \in Agents, NEW where, Step(a, where),
             \A b \in Agents : b # a => has'[b] = has[b],
             UNCHANGED <<session, registered, sources, link, phase, kind>>,
             at[a] \notin {"session", "adopt", "identify"},
             where \notin {"session", "adopt", "identify"},
             where \in {"down", "take", "close", "clear"} => session = Nothing
      PROVE  SessionInv'
  <2>1. Among({"adopt"})' <=> Among({"adopt"})
    BY <1>7 DEF Among
  <2>2. \A b \in Agents : at'[b] \in {"session", "adopt", "identify"} =>
          at'[b] = at[b] /\ has'[b] = has[b]
    BY <1>7
  <2>3. \A b \in Agents : at'[b] \in {"down", "take", "close", "clear"} => session = Nothing
    BY <1>3, <1>7
  <2> HIDE DEF Step, Among
  <2>4. "connects" \notin overlaps' =>
           /\ session # Nothing => session = link /\ phase[link] = "open"
           /\ \A b \in Agents : at'[b] \in {"session", "adopt", "identify"}
                                  => has'[b] = link /\ phase[link] = "open"
    BY <1>1, <1>3, <2>2
  <2> QED BY <1>3, <1>7, <2>1, <2>2, <2>3, <2>4 DEF SessionInv, Overlapped
\* Nothing is left of the session.
<1>8. ASSUME session' = Nothing, registered' = Nothing, sources' = {},
             \A a \in Agents : at'[a] \notin {"session", "adopt", "identify"}
      PROVE  SessionInv'
  BY <1>8 DEF SessionInv
<1>9. ASSUME NEW a \in Agents, ResetState, NEW where, Step(a, where), where \in {"idle", "down"},
             at[a] \in Leaving \cup Diagnosing
      PROVE  SessionInv'
  <2>1. session' = Nothing /\ registered' = Nothing /\ sources' = {}
    BY <1>3, <1>9 DEF ResetState
  <2>2. \A b \in Agents : at'[b] \notin {"session", "adopt", "identify"}
    BY <1>4, <1>9 DEF Diagnosing
  <2> QED BY <1>8, <2>1, <2>2
<1>10. ASSUME NEW a \in Agents,
              \/ Connect(a) \/ Disconnect(a) \/ ObdDisconnect(a) \/ LeaveSession(a)
              \/ StoreBus(a) \/ StoreLayer(a) \/ StartCapture(a) \/ StopRunning(a) \/ ClearAll(a)
       PROVE  SessionInv'
  <2>1. UNCHANGED <<session, registered, sources, link, phase, kind>>
    BY <1>10 DEF Connect, Disconnect, ObdDisconnect, LeaveSession, StoreBus, StoreLayer,
       StartCapture, StopRunning, ClearAll, connVars, linkVars, obdVars
  <2>2. \A b \in Agents : b # a => has'[b] = has[b]
    <3>1. Hold(a, Nothing) \/ has' = has
      BY <1>10, WorkSteps DEF Connect, Disconnect, ObdDisconnect, LeaveSession, StoreBus,
         StoreLayer, StopRunning, ClearAll
    <3> QED BY <3>1
  <2>3. at[a] \in {"idle", "obd", "bus", "layer", "run", "down", "clear"}
    BY <1>10 DEF Connect, Disconnect, ObdDisconnect, LeaveSession, StoreBus, StoreLayer,
       StartCapture, StopRunning, ClearAll, MayCall
  <2>4. \/ \E where \in {"open", "obd", "reset", "forget", "layer", "run", "idle"} : Step(a, where)
        \/ session = Nothing /\ Step(a, "down")
        \/ at[a] = "down" /\ Step(a, "take")
    <3> HIDE DEF Step, Hold
    <3>1. CASE LeaveSession(a)
      <4>1. Step(a, IF session = Nothing THEN "down" ELSE "forget")
        BY <3>1, WorkSteps
      <4>2. (session = Nothing /\ Step(a, "down")) \/ Step(a, "forget")
        BY <4>1
      <4> QED BY <4>2
    <3>2. CASE StopRunning(a)
      BY <3>2, WorkSteps DEF StopRunning
    <3>3. CASE Connect(a) \/ Disconnect(a) \/ ObdDisconnect(a)
      <4>1. Step(a, "open") \/ Step(a, "obd") \/ Step(a, "reset")
        BY <3>3, CallSteps
      <4> QED BY <4>1
    <3>4. CASE StoreBus(a) \/ StoreLayer(a) \/ StartCapture(a) \/ ClearAll(a)
      <4>1. Step(a, "layer") \/ Step(a, "run") \/ Step(a, "idle")
        BY <3>4, WorkSteps
      <4> QED BY <4>1
    <3> QED BY <1>10, <3>1, <3>2, <3>3, <3>4
  <2>5. CASE \E where \in {"open", "obd", "reset", "forget", "layer", "run", "idle"} : Step(a, where)
    <3>1. PICK where \in {"open", "obd", "reset", "forget", "layer", "run", "idle"} : Step(a, where)
      BY <2>5
    <3> HIDE DEF Step
    <3> QED BY <1>7, <2>1, <2>2, <2>3, <3>1
  <2>6. CASE session = Nothing /\ Step(a, "down")
    <3> HIDE DEF Step
    <3> QED BY <1>7, <2>1, <2>2, <2>3, <2>6
  <2>7. CASE at[a] = "down" /\ Step(a, "take")
    <3>1. session = Nothing
      BY <1>3, <2>7
    <3> HIDE DEF Step
    <3> QED BY <1>7, <2>1, <2>2, <2>3, <2>7, <3>1
  <2> QED BY <2>4, <2>5, <2>6, <2>7
<1>11. ASSUME NEW a \in Agents, ForgetSession(a) \/ ObdReset(a) PROVE SessionInv'
  <2>1. ResetState /\ at[a] \in {"forget", "reset"} /\ (Step(a, "down") \/ Step(a, "idle"))
    BY <1>11, WorkSteps DEF ForgetSession, ObdReset
  <2>2. at[a] \in Leaving \cup Diagnosing
    BY <2>1 DEF Leaving, Diagnosing
  <2> HIDE DEF Step
  <2> QED BY <1>9, <2>1, <2>2
<1>12. ASSUME NEW a \in Agents, OpenLink(a) PROVE SessionInv'
  <2>1. at[a] = "open" /\ UNCHANGED <<session, registered, sources, link>>
    BY <1>12 DEF OpenLink, connVars, obdVars
  <2>2. CASE Step(a, "idle") /\ UNCHANGED <<has, phase, kind>>
    <3>1. \A b \in Agents : b # a => has'[b] = has[b]
      BY <2>2
    <3> HIDE DEF Step
    <3> QED BY <1>7, <2>1, <2>2, <3>1
  <2>3. ASSUME NEW l \in Links, Step(a, "store"), Hold(a, l), Opens(l),
               \A m \in Links : m # l => kind'[m] = kind[m]
        PROVE  SessionInv'
    <3>1. /\ \A b \in Agents : has[b] \in 0..MaxLinks
          /\ link \in 0..MaxLinks /\ session \in 0..MaxLinks
      BY DEF ServerTypes
    <3>2. \A m \in 0..MaxLinks : m # Nothing /\ phase[m] # "none" =>
            kind'[m] = kind[m] /\ phase'[m] = phase[m]
      BY <2>3 DEF Opens, Links
    <3>3. \A b \in Agents : at'[b] \in {"session", "adopt", "identify"} =>
            /\ at'[b] = at[b] /\ has'[b] = has[b] /\ has[b] # Nothing
            /\ kind'[has[b]] = kind[has[b]] /\ phase'[has[b]] = phase[has[b]]
      BY <1>5, <2>3, <3>1, <3>2
    <3>4. \A b \in Agents : at'[b] \in {"down", "take", "close", "clear"} => session = Nothing
      BY <1>3, <2>3
    <3>5. Among({"adopt"})' <=> Among({"adopt"})
      BY <2>1, <2>3 DEF Among
    <3>6. session # Nothing => kind'[session] = kind[session] /\ phase'[session] = phase[session]
      BY <1>5, <3>1, <3>2
    <3> HIDE DEF Step, Hold, Among
    <3>7. "connects" \notin overlaps' =>
             /\ session # Nothing => session = link /\ phase'[link] = "open"
             /\ \A b \in Agents : at'[b] \in {"session", "adopt", "identify"}
                                    => has'[b] = link /\ phase'[link] = "open"
      BY <1>1, <1>3, <3>3, <3>6
    <3> QED BY <1>3, <2>1, <3>3, <3>4, <3>5, <3>6, <3>7 DEF SessionInv, Overlapped
  <2> QED BY <1>12, <2>2, <2>3, WorkSteps
<1>13. ASSUME NEW a \in Agents, StoreLink(a) PROVE SessionInv'
  <2>1. /\ at[a] = "store" /\ link' = has[a]
        /\ UNCHANGED <<session, registered, sources, phase, kind>>
        /\ \E where \in {"bus", "idle"} : Step(a, where)
        /\ has' = has \/ Hold(a, Nothing)
    BY <1>13, WorkSteps DEF StoreLink, linkVars, obdVars
  <2>2. \A b \in Agents : at'[b] \in {"session", "adopt", "identify"} =>
          at'[b] = at[b] /\ has'[b] = has[b]
    BY <2>1
  <2>3. \A b \in Agents : at'[b] \in {"down", "take", "close", "clear"} => session = Nothing
    BY <1>3, <2>1
  <2>4. Among({"adopt"})' <=> Among({"adopt"})
    BY <2>1 DEF Among
  <2>5. "connects" \notin overlaps' =>
          session = Nothing /\ \A b \in Agents : at'[b] \notin {"session", "adopt", "identify"}
    <3>1. SUFFICES ASSUME "connects" \notin overlaps'
                   PROVE  session = Nothing
                          /\ \A b \in Agents : at'[b] \notin {"session", "adopt", "identify"}
      OBVIOUS
    <3>2. CASE server = "mcp"
      <4>1. link = Nothing
        BY <1>1, <2>1, <3>1, <3>2 DEF LinksInv, Overlapped
      <4>2. session = Nothing /\ \A b \in Agents : at[b] \notin {"session", "adopt", "identify"}
        BY <1>1, <1>3, <1>5, <3>1, <4>1
      <4> QED BY <2>2, <4>2
    <3>3. CASE server = "a2a"
      BY <2>1, <3>3 DEF A2aInv
    <3> QED BY <3>2, <3>3 DEF ServerTypes
  <2> HIDE DEF Among
  <2> QED BY <1>3, <2>1, <2>2, <2>3, <2>4, <2>5 DEF SessionInv, Overlapped
<1>14. ASSUME NEW a \in Agents, TakeLink(a) \/ CloseLink(a) PROVE SessionInv'
  <2>1. /\ at[a] \in {"take", "close"} /\ UNCHANGED <<session, registered, sources>>
        /\ \E where \in {"idle", "close", "clear"} : Step(a, where)
    BY <1>14, WorkSteps DEF TakeLink, CloseLink, obdVars
  <2>2. at[a] \in Leaving /\ {"session", "adopt", "identify"} \subseteq Diagnosing
    BY <2>1 DEF Leaving, Diagnosing
  <2>3. \A b \in Agents : b # a => at[b] \notin {"session", "adopt", "identify"}
    BY <1>4, <2>2
  <2>4. session = Nothing /\ registered = Nothing /\ sources = {}
    BY <1>3, <2>1, <2>3 DEF Among
  <2>5. \A b \in Agents : at'[b] \notin {"session", "adopt", "identify"}
    BY <2>1, <2>3
  <2> QED BY <1>8, <2>1, <2>4, <2>5
<1>15. ASSUME NEW a \in Agents, ObdConnect(a) PROVE SessionInv'
  <2>1. /\ at[a] = "idle" /\ Step(a, "session") /\ Hold(a, link)
        /\ session = Nothing /\ link # Nothing /\ phase[link] = "open"
        /\ UNCHANGED <<session, registered, sources, link, phase, kind>>
    BY <1>15, CallSteps DEF ObdConnect, MayCall, connVars, linkVars, obdVars
  <2>2. \A b \in Agents : b # a => at'[b] \notin Leaving \cup Diagnosing
    <3>1. "session" \in Diagnosing
      BY DEF Diagnosing
    <3> QED BY <1>4, <2>1, <3>1
  <2>3. \A b \in Agents : b # a =>
          at'[b] \notin {"session", "adopt", "identify", "down", "take", "close", "clear"}
    BY <2>2 DEF Leaving, Diagnosing
  <2>4. ~ Among({"adopt"})
    BY <2>1, <2>3 DEF Among
  <2>5. registered = Nothing
    BY <1>3, <2>1, <2>4
  <2>6. at'[a] = "session" /\ has'[a] = link
    BY <2>1
  <2> HIDE DEF Step, Hold
  <2> QED BY <1>3, <2>1, <2>3, <2>5, <2>6 DEF SessionInv
<1>16. ASSUME NEW a \in Agents, OpenSession(a) PROVE SessionInv'
  <2>1. /\ at[a] = "session" /\ UNCHANGED <<link, phase, kind>>
        /\ \/ ResetState /\ Step(a, "idle")
           \/ /\ phase[has[a]] = "open" /\ UNCHANGED <<session, has>> /\ Step(a, "adopt")
              /\ IF kind[has[a]] = "elm" THEN UNCHANGED <<registered, sources, queues>>
                 ELSE /\ sources' = sources \cup {queues + 1}
                      /\ registered' = queues + 1 /\ queues' = queues + 1
    BY <1>16, WorkSteps DEF OpenSession, connVars, linkVars
  <2>2. at[a] \in Diagnosing
    BY <2>1 DEF Diagnosing
  <2>3. CASE ResetState /\ Step(a, "idle")
    BY <1>9, <2>2, <2>3
  <2>4. CASE /\ phase[has[a]] = "open" /\ UNCHANGED <<session, has>> /\ Step(a, "adopt")
             /\ IF kind[has[a]] = "elm" THEN UNCHANGED <<registered, sources, queues>>
                ELSE /\ sources' = sources \cup {queues + 1}
                     /\ registered' = queues + 1 /\ queues' = queues + 1
    <3>1. \A b \in Agents : b # a => at'[b] = at[b] /\ at[b] \notin Leaving \cup Diagnosing
      BY <1>4, <2>2, <2>4
    <3>2. \A b \in Agents : b # a =>
            at'[b] \notin {"session", "adopt", "identify", "down", "take", "close", "clear"}
      BY <3>1 DEF Leaving, Diagnosing
    <3>3. session = Nothing /\ at'[a] = "adopt" /\ ~ Among({"adopt"})
      BY <1>3, <2>1, <2>4, <3>1, <3>2 DEF Among
    <3>4. registered = Nothing /\ sources = {}
      BY <1>3, <3>3
    <3>5. sources' = {registered'} \ {Nothing} /\ (kind[has[a]] # "elm" => registered' # Nothing)
      <4>1. CASE kind[has[a]] = "elm"
        BY <2>4, <3>4, <4>1
      <4>2. CASE kind[has[a]] # "elm"
        <5>1. queues + 1 # 0
          BY DEF ServerTypes
        <5> QED BY <2>4, <3>4, <4>2, <5>1
      <4> QED BY <4>1, <4>2
    <3>6. Among({"adopt"})'
      BY <3>3 DEF Among
    <3>7. "connects" \notin overlaps' => has[a] = link /\ phase[link] = "open"
      BY <1>1, <1>3, <2>1
    <3> HIDE DEF Step
    <3> QED BY <2>1, <2>4, <3>2, <3>3, <3>5, <3>6, <3>7 DEF SessionInv, Overlapped
  <2> QED BY <2>1, <2>3, <2>4
<1>17. ASSUME NEW a \in Agents, AdoptSession(a) PROVE SessionInv'
  <2>1. /\ at[a] = "adopt" /\ session' = has[a] /\ Step(a, "identify")
        /\ UNCHANGED <<registered, sources, has, link, phase, kind>>
    BY <1>17, WorkSteps DEF AdoptSession, connVars, linkVars
  <2>2. at[a] \in Diagnosing
    BY <2>1 DEF Diagnosing
  <2>3. \A b \in Agents : b # a => at'[b] = at[b] /\ at[b] \notin Leaving \cup Diagnosing
    BY <1>4, <2>1, <2>2
  <2>4. \A b \in Agents : b # a =>
          at'[b] \notin {"session", "adopt", "identify", "down", "take", "close", "clear"}
    BY <2>3 DEF Leaving, Diagnosing
  <2>5. has[a] # Nothing /\ at'[a] = "identify"
    BY <1>5, <2>1
  <2>6. "connects" \notin overlaps' => has[a] = link /\ phase[link] = "open"
    BY <1>1, <1>3, <2>1
  <2> HIDE DEF Step
  <2> QED BY <1>3, <2>1, <2>4, <2>5, <2>6 DEF SessionInv, Overlapped
<1>18. ASSUME NEW a \in Agents, Identify(a) PROVE SessionInv'
  <2>1. /\ at[a] = "identify" /\ Step(a, "idle") /\ UNCHANGED <<link, phase, kind>>
        /\ UNCHANGED <<session, registered, sources>> \/ ResetState
    BY <1>18, WorkSteps DEF Identify, connVars, linkVars, obdVars
  <2>2. at[a] \in Diagnosing
    BY <2>1 DEF Diagnosing
  <2>3. CASE ResetState
    BY <1>9, <2>1, <2>2, <2>3
  <2>4. CASE UNCHANGED <<session, registered, sources>>
    <3>1. \A b \in Agents : b # a => at'[b] = at[b] /\ at[b] \notin Leaving \cup Diagnosing
      BY <1>4, <2>1, <2>2
    <3>2. \A b \in Agents :
            at'[b] \notin {"session", "adopt", "identify", "down", "take", "close", "clear"}
      BY <2>1, <3>1 DEF Leaving, Diagnosing
    <3>3. session # Nothing
      BY <1>3, <1>5, <2>1
    <3>4. "connects" \notin overlaps' => session = link /\ phase[link] = "open"
      BY <1>1, <1>3, <3>3
    <3> HIDE DEF Step
    <3> QED BY <1>3, <2>1, <2>4, <3>2, <3>3, <3>4 DEF SessionInv, Overlapped
  <2> QED BY <2>1, <2>3, <2>4
<1>19. ASSUME UNCHANGED <<session, registered, sources, link, phase, kind, at, has>>
       PROVE  SessionInv'
  <2>1. Among({"adopt"})' <=> Among({"adopt"})
    BY <1>19 DEF Among
  <2> HIDE DEF Among
  <2> QED BY <1>1, <1>3, <1>19, <2>1 DEF SessionInv, Overlapped
<1>20. ASSUME NEW l \in Links, Capture(l) PROVE SessionInv'
  BY <1>19, <1>20
  DEF Capture, CheckRunning, EnterRecv, LeaveRecv, Receive, connVars, linkVars, obdVars
<1>21. CASE UNCHANGED vars
  BY <1>19, <1>21 DEF vars, connVars, linkVars, obdVars
<1>22. ASSUME server = "mcp", NEW a \in Agents
       PROVE  ~ (A2aConnect(a) \/ A2aSimulatorFails(a) \/ A2aDisconnect(a))
  BY <1>22 DEF A2aConnect, A2aSimulatorFails, A2aDisconnect
<1>23. server \in {"mcp", "a2a"}
  BY DEF ServerTypes
<1> QED
  BY <1>6, <1>10, <1>11, <1>12, <1>13, <1>14, <1>15, <1>16, <1>17, <1>18, <1>20, <1>21, <1>22,
     <1>23
  DEF Next, Call, Work

\* What holds of the servers is kept by whatever is called, in whatever order.
LEMMA ServerStep == ServerInv /\ [Next]_vars => ServerInv'
  BY ServerTypesStep, HeldStep, A2aStep, CallsStep, LinksStep, ConnStep, LoopStep, SessionStep
  DEF ServerInv

\* An open link is kept, or in somebody's hands.
LEMMA LinksFollow == ServerInv => LinksAccounted
<1> SUFFICES ASSUME ServerInv, ~ Overlapped("connects"), NEW l \in Links, phase[l] = "open"
             PROVE  l \in {link, bus} \/ \E a \in Agents : has[a] = l
  BY DEF LinksAccounted
<1>1. CASE server = "mcp"
  BY <1>1 DEF ServerInv, LinksInv
<1>2. CASE server = "a2a"
  BY <1>2 DEF ServerInv, A2aInv
<1> QED BY <1>1, <1>2 DEF ServerInv, ServerTypes

\* When all calls are over, what stands is one connection or none.
LEMMA ConnectionFollows == ServerInv => ConnectionHoldsTogether
<1> SUFFICES ASSUME ServerInv, Quiet, ~ Overlapped("connects"),
                    ~ Overlapped("connect and disconnect")
             PROVE  /\ layer = bus
                    /\ link # Nothing => phase[link] = "open" /\ (kind[link] = "can" <=> bus = link)
                    /\ bus # Nothing => phase[bus] = "open"
                                     /\ (running => loop[bus].at \notin {"none", "ended"})
                    /\ bus # Nothing /\ server = "mcp" => running /\ link = bus
                    /\ running => bus # Nothing
  BY DEF ConnectionHoldsTogether
<1>1. running => loop[bus].at \notin {"none", "ended"}
  BY DEF ServerInv, LoopInv
<1>2. CASE server = "mcp"
  <2>1. ~ Among({"take", "close", "clear"}) /\ ~ Among({"close", "clear"})
    BY DEF Quiet, Among
  <2>2. Standing
    BY <1>2 DEF ServerInv, ConnInv, InConnect, Quiet, Connecting
  <2> QED BY <1>1, <2>1, <2>2 DEF Standing
<1>3. CASE server = "a2a"
  <2>1. /\ link = Nothing /\ layer = bus
        /\ bus # Nothing => phase[bus] = "open"
        /\ running => bus # Nothing
    BY <1>3 DEF ServerInv, A2aInv, Quiet
  <2> QED BY <1>1, <1>3, <2>1
<1> QED BY <1>2, <1>3 DEF ServerInv, ServerTypes

\* A session has its queue and its link.
LEMMA SourcesFollow == ServerInv => SourcesAccounted
  BY DEF ServerInv, SessionInv, SourcesAccounted

\* Whatever the agents call, and however their calls interleave: what connect,
\* disconnect and the diagnostic tools of mcp_server.py and a2a_server.py leave
\* behind is accounted for, links, connection and the queues of sessions.
THEOREM NothingIsLeftBehind == Spec => []ConnectionAccounted
<1>1. ServerInv => ConnectionAccounted
  BY LinksFollow, ConnectionFollows, SourcesFollow DEF ConnectionAccounted
<1> QED BY InitServer, ServerStep, <1>1, PTL DEF Spec
=============================================================================
