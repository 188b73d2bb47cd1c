-------------------------- MODULE StudioConnection --------------------------
(***************************************************************************)
(* The studio's one link: opened off the Tk thread, adopted on it, read by *)
(* a capture loop, released on disconnect.  The user connects from the Tk  *)
(* thread, agents (MCP, A2A) from their own; both hand the opened link to  *)
(* Tk with after(0, ...), here the queue of callbacks.  Link.open acquires *)
(* its parts one by one and undoes what it did with Link.close, whose      *)
(* steps are the same whoever calls it.  The diagnostic session, bridge    *)
(* and timers that _disconnect also stops are not part of this module.     *)
(***************************************************************************)
EXTENDS Naturals, Sequences, SequencesExt

CONSTANTS MaxLinks,      \* bound: Link objects made
          Kinds,         \* kinds of adapter tried
          Agents,        \* whether agents connect and disconnect as well
          MaxCallbacks   \* bound: callbacks pending when an agent adds one

ASSUME KindsAssumption == Kinds \subseteq {"elm", "can", "virtual", "simulated"}

VARIABLES link,       \* self.link, 0 when None
          opening,    \* self.link_opening
          button,     \* whether btn_connect can be pressed
          running,    \* self.running
          bus,        \* the link self.bus belongs to, 0 when None
          tk,         \* the link _disconnect is closing, 0 when none
          callbacks,  \* what after(0, ...) has queued
          kind, via,  \* of each Link: its adapter, who opens it
          phase,      \* of each Link
          todo,       \* what Link.open or Link.close has yet to do
          held,       \* what each Link holds: of the operating system, and
                      \* "lock" while its simulator answers under its state's lock,
                      \* "ending" for a simulator told to stop and not waited for
          elmFlag,    \* DiagnosticInterface._open_flag of its ELM327 session
          loop,       \* the capture loop started when the link was adopted
          reading,    \* the bus that loop's recv is on
          core,       \* whether the Rust core is installed: simulators are its own
          frozen      \* a thread waits for a lock and keeps the GIL while it does

studioVars == <<link, opening, button, running, bus, tk, callbacks>>
linkVars == <<kind, via, phase, todo, held, elmFlag>>
loopVars == <<loop, reading>>
processVars == <<core, frozen>>
vars == <<studioVars, linkVars, loopVars, processVars>>

Links == 1..MaxLinks
NoLink == 0

OpenSteps(k) == CASE k = "elm" -> <<"transport", "configure">>
                  [] k = "can" -> <<"bus">>
                  [] k = "virtual" -> <<"bus", "simulator">>
                  [] k = "simulated" -> <<"bus", "simBus", "simulator">>

\* Mutant: the simulator's bus is not shut down.
CloseForgetsSimBus == <<"elm", "simulator", "bus">>

CloseSteps == <<"elm", "simulator", "simBus", "bus">>

Init == /\ link = NoLink /\ opening = FALSE /\ button = TRUE
        /\ running = FALSE /\ bus = NoLink /\ tk = NoLink /\ callbacks = <<>>
        /\ kind \in [Links -> Kinds]
        /\ via = [l \in Links |-> "nobody"]
        /\ phase = [l \in Links |-> "unused"]
        /\ todo = [l \in Links |-> <<>>]
        /\ held = [l \in Links |-> {}]
        /\ elmFlag = [l \in Links |-> FALSE]
        /\ loop = [l \in Links |-> "none"]
        /\ reading = [l \in Links |-> NoLink]
        /\ core \in BOOLEAN /\ frozen = FALSE

\* The GIL can be had, and is given back: without it no thread gets anywhere.
Alive == ~ frozen /\ UNCHANGED processVars

Fresh(l) == phase[l] = "unused" /\ \A m \in 1..(l - 1) : phase[m] # "unused"

Free == link = NoLink /\ ~ opening

Begin(l, who) == /\ Alive
                 /\ opening' = TRUE
                 /\ via' = [via EXCEPT ![l] = who]
                 /\ phase' = [phase EXCEPT ![l] = "opening"]
                 /\ todo' = [todo EXCEPT ![l] = OpenSteps(kind[l])]
                 /\ UNCHANGED <<link, running, bus, tk, callbacks, kind, held,
                                elmFlag, loopVars>>

\* _connect_link, one callback of the Tk thread.
UserConnects(l) == /\ tk = NoLink /\ button /\ Free /\ Fresh(l)
                   /\ button' = FALSE /\ Begin(l, "user")

\* connect_from_mcp looks, makes its Link, and only then raises the flag.
AgentLooks(l) == /\ Alive /\ Agents /\ Free /\ Fresh(l)
                 /\ phase' = [phase EXCEPT ![l] = "checked"]
                 /\ UNCHANGED <<studioVars, kind, via, todo, held, elmFlag, loopVars>>

AgentConnects(l) == phase[l] = "checked" /\ Begin(l, "agent") /\ UNCHANGED button

\* Link() refuses an adapter it does not know.
AgentRefused(l) == /\ Alive /\ phase[l] = "checked"
                   /\ opening' = FALSE
                   /\ phase' = [phase EXCEPT ![l] = "closed"]
                   /\ UNCHANGED <<link, button, running, bus, tk, callbacks, kind,
                                  via, todo, held, elmFlag, loopVars>>

\* The simulator on a virtual bus opens its own, and gives up without a word
\* when it cannot.
Acquired(l) == CASE Head(todo[l]) = "configure" -> {{}}
                 [] Head(todo[l]) = "simulator" ->
                      IF kind[l] = "virtual" THEN {{}, {"ownBus", "thread"}}
                                             ELSE {{"thread"}}
                 [] OTHER -> {{Head(todo[l])}}

OpenStep(l) ==
  /\ Alive /\ phase[l] = "opening"
  /\ \E parts \in Acquired(l) : held' = [held EXCEPT ![l] = @ \cup parts]
  /\ elmFlag' = [elmFlag EXCEPT ![l] = Head(todo[l]) = "configure"]
  /\ todo' = [todo EXCEPT ![l] = Tail(@)]
  /\ IF Len(todo[l]) = 1
     THEN /\ phase' = [phase EXCEPT ![l] = "open"]
          /\ callbacks' = Append(callbacks, <<"opened", l>>)
     ELSE UNCHANGED <<phase, callbacks>>
  /\ UNCHANGED <<link, opening, button, running, bus, tk, kind, via, loopVars>>

OpenStepFails(l) == /\ Alive /\ phase[l] = "opening" /\ Head(todo[l]) # "simulator"
                    /\ phase' = [phase EXCEPT ![l] = "closing"]
                    /\ todo' = [todo EXCEPT ![l] = CloseSteps]
                    /\ UNCHANGED <<studioVars, kind, via, held, elmFlag,
                                   loopVars>>

\* The simulator of the core answers a request on its bus (a ping, OBD-II, SDO) under
\* its state's write lock, and takes the GIL to send the answer.
SimulatorAnswers(l) == /\ Alive /\ core /\ "thread" \in held[l] /\ "lock" \notin held[l]
                       /\ held' = [held EXCEPT ![l] = @ \cup {"lock"}]
                       /\ UNCHANGED <<studioVars, kind, via, phase, todo, elmFlag,
                                      loopVars>>

AnswerSent(l) == /\ Alive /\ "lock" \in held[l]
                 /\ held' = [held EXCEPT ![l] = @ \ {"lock"}]
                 /\ UNCHANGED <<studioVars, kind, via, phase, todo, elmFlag, loopVars>>

\* Python's own simulator ends when its round is over; its bus may be shut down
\* by then, and what that raises is passed over.
SimulatorEnds(l) == /\ Alive /\ "ending" \in held[l]
                    /\ held' = [held EXCEPT ![l] = @ \ {"ending"}]
                    /\ UNCHANGED <<studioVars, kind, via, phase, todo, elmFlag, loopVars>>

SimulatorStep(l) == SimulatorAnswers(l) \/ AnswerSent(l) \/ SimulatorEnds(l)

\* DiagnosticInterface.close releases nothing unless its flag is up.
Released(l, step) ==
  CASE step = "elm" -> IF elmFlag[l] THEN {"transport"} ELSE {}
    [] step = "simulator" -> {"ownBus", "thread"}
    [] OTHER -> {step}

\* stop() joins the core's thread; of Python's own it only lowers the flag.
Outlives(l, step) ==
  IF step = "simulator" /\ "thread" \in held[l] /\ ~ core THEN {"ending"} ELSE {}

\* stop() of the core asks for the write lock before it lets go of the GIL.
StopBlocks(l) == Head(todo[l]) = "simulator" /\ "lock" \in held[l]

CloseStep(l) == /\ Alive /\ phase[l] = "closing" /\ todo[l] # <<>> /\ ~ StopBlocks(l)
                /\ held' = [held EXCEPT ![l] = (@ \ Released(l, Head(todo[l])))
                                               \cup Outlives(l, Head(todo[l]))]
                /\ elmFlag' = [elmFlag EXCEPT ![l] = FALSE]
                /\ todo' = [todo EXCEPT ![l] = Tail(@)]
                /\ UNCHANGED <<studioVars, kind, via, phase, loopVars>>

\* The simulator needs the GIL to finish and give the lock back, and never gets it.
CloseFreezes(l) == /\ ~ frozen /\ phase[l] = "closing" /\ todo[l] # <<>> /\ StopBlocks(l)
                   /\ frozen' = TRUE
                   /\ UNCHANGED <<studioVars, linkVars, loopVars, core>>

\* LinkError reaches the opener: an agent drops the flag itself, the user's
\* thread leaves it to Tk.
OpenFailed(l) == /\ Alive /\ phase[l] = "closing" /\ todo[l] = <<>> /\ tk # l
                 /\ phase' = [phase EXCEPT ![l] = "closed"]
                 /\ IF via[l] = "agent"
                    THEN opening' = FALSE /\ UNCHANGED callbacks
                    ELSE /\ callbacks' = Append(callbacks, <<"failed", l>>)
                         /\ UNCHANGED opening
                 /\ UNCHANGED <<link, button, running, bus, tk, kind, via, todo,
                                held, elmFlag, loopVars>>

\* _link_opened: whatever link there was is replaced.
Adopt(l) == /\ opening' = FALSE /\ button' = TRUE
            /\ link' = l
            /\ IF kind[l] = "elm" THEN UNCHANGED <<bus, running, loop>>
               ELSE /\ bus' = l /\ running' = TRUE
                    /\ loop' = [loop EXCEPT ![l] = "check"]
            /\ UNCHANGED <<tk, linkVars, reading>>

\* _disconnect, up to Link.close: the capture loop is told, not waited for.
Disconnect == /\ Alive
              /\ running' = FALSE
              /\ link' = NoLink
              /\ tk' = link
              /\ IF link = NoLink
                 THEN bus' = NoLink /\ UNCHANGED <<phase, todo>>
                 ELSE /\ phase' = [phase EXCEPT ![link] = "closing"]
                      /\ todo' = [todo EXCEPT ![link] = CloseSteps]
                      /\ UNCHANGED bus
              /\ UNCHANGED <<opening, button, kind, via, held, elmFlag, loopVars>>

DisconnectDone == /\ Alive /\ tk # NoLink /\ phase[tk] = "closing" /\ todo[tk] = <<>>
                  /\ phase' = [phase EXCEPT ![tk] = "closed"]
                  /\ tk' = NoLink /\ bus' = NoLink
                  /\ UNCHANGED <<link, opening, button, running, callbacks, kind,
                                 via, todo, held, elmFlag, loopVars>>

UserDisconnects == /\ tk = NoLink /\ button /\ link # NoLink
                   /\ Disconnect /\ UNCHANGED callbacks

AgentDisconnects == /\ Alive /\ Agents /\ link # NoLink /\ Len(callbacks) < MaxCallbacks
                    /\ callbacks' = Append(callbacks, <<"disconnect", NoLink>>)
                    /\ UNCHANGED <<link, opening, button, running, bus, tk,
                                   linkVars, loopVars>>

RunCallback == /\ Alive /\ tk = NoLink /\ callbacks # <<>>
               /\ callbacks' = Tail(callbacks)
               /\ \/ /\ Head(callbacks)[1] = "opened"
                     /\ Adopt(Head(callbacks)[2])
                  \/ /\ Head(callbacks)[1] = "failed"
                     /\ opening' = FALSE /\ button' = TRUE
                     /\ UNCHANGED <<link, running, bus, tk, linkVars, loopVars>>
                  \/ /\ Head(callbacks)[1] = "disconnect"
                     /\ Disconnect

\* Mutant: `while True`.
LoopForever(l) == /\ Alive /\ loop[l] = "check"
                  /\ loop' = [loop EXCEPT ![l] = "take"]
                  /\ UNCHANGED <<studioVars, linkVars, reading>>

\* _rx_loop: `while self.running`, then whatever self.bus is by then.
LoopChecks(l) == /\ Alive /\ loop[l] = "check"
                 /\ loop' = [loop EXCEPT ![l] = IF running THEN "take" ELSE "done"]
                 /\ UNCHANGED <<studioVars, linkVars, reading>>

LoopTakesBus(l) == /\ Alive /\ loop[l] = "take"
                   /\ IF bus = NoLink
                      THEN loop' = [loop EXCEPT ![l] = "check"] /\ UNCHANGED reading
                      ELSE /\ loop' = [loop EXCEPT ![l] = "recv"]
                           /\ reading' = [reading EXCEPT ![l] = bus]
                   /\ UNCHANGED <<studioVars, linkVars>>

\* recv returns a frame, times out, or fails because the bus was shut down.
RecvReturns(l) == /\ Alive /\ loop[l] = "recv"
                  /\ loop' = [loop EXCEPT ![l] = "check"]
                  /\ reading' = [reading EXCEPT ![l] = NoLink]
                  /\ UNCHANGED <<studioVars, linkVars>>

LoopStep(l) == LoopChecks(l) \/ LoopTakesBus(l) \/ RecvReturns(l)

LinkStep(l) == \/ AgentConnects(l) \/ AgentRefused(l) \/ OpenStep(l)
               \/ OpenStepFails(l) \/ CloseStep(l) \/ CloseFreezes(l) \/ OpenFailed(l)

Next == \/ UserDisconnects \/ AgentDisconnects \/ RunCallback \/ DisconnectDone
        \/ \E l \in Links : \/ UserConnects(l) \/ AgentLooks(l)
                            \/ LinkStep(l) \/ LoopStep(l) \/ SimulatorStep(l)

\* Threads run as long as the GIL can be had, the Tk thread returns to its queue, recv has a timeout;
\* nobody has to connect or disconnect.
Spec == /\ Init /\ [][Next]_vars
        /\ WF_vars(RunCallback) /\ WF_vars(DisconnectDone)
        /\ \A l \in Links : WF_vars(LinkStep(l)) /\ WF_vars(LoopStep(l))
-----------------------------------------------------------------------------
TypeOK == /\ {link, bus, tk} \subseteq Links \cup {NoLink}
          /\ {opening, button, running, core, frozen} \subseteq BOOLEAN
          /\ \A l \in Links :
               /\ phase[l] \in {"unused", "checked", "opening", "closing",
                                "open", "closed"}
               /\ held[l] \subseteq {"transport", "bus", "simBus", "ownBus",
                                     "thread", "lock", "ending"}
               /\ loop[l] \in {"none", "check", "take", "recv", "done"}
               /\ reading[l] # NoLink <=> loop[l] = "recv"

\* "Nothing is left half open" (link.py, Link.open): an attempt that failed, and
\* a link that was closed, hold nothing.  Not an invariant: an ELM327 whose
\* configuration fails keeps its transport.
NothingHalfOpen == \A l \in Links : phase[l] = "closed" => held[l] = {}

\* What is true of it: wherever an opening failed and whoever closed the
\* link, the most it keeps is the transport of an ELM327, or a thread of Python's own
\* simulator that has been told to stop.
CanLinksLetGo == \A l \in Links :
  phase[l] = "closed" =>
    held[l] \subseteq (IF kind[l] = "elm" THEN {"transport"}
                      ELSE IF core THEN {} ELSE {"ending"})

\* An open link is the studio's, or on its way to it, for as long as only the
\* user connects: a link nobody can close keeps its adapter until the
\* program ends.
NoOrphan == (\A l \in Links : via[l] # "agent") =>
  \A l \in Links :
    phase[l] = "open" => l = link \/ Contains(callbacks, <<"opened", l>>)

\* A simulator's thread that has not been told to stop has its bus (Link.close stops
\* the simulator first), and only such a thread holds the lock of its state.
SimulatorHasItsBus == \A l \in Links :
  /\ "thread" \in held[l] => held[l] \cap {"simBus", "ownBus"} # {}
  /\ "lock" \in held[l] => core /\ "thread" \in held[l]

\* Not an invariant: no simulator's thread outlives its bus.  Python's own is told to
\* stop and not joined (VirtualCanopenSimulator.stop), and may yet send.
SimulatorEndsFirst == \A l \in Links :
  held[l] \cap {"thread", "ending"} # {} => held[l] \cap {"simBus", "ownBus"} # {}

\* Not an invariant: the program goes on.  A link closed while its simulator answers
\* stops every thread of it (PyVirtualCanopenSimulator.stop).
NeverFrozen == ~ frozen

\* What a link acquired (Link.open) is released in order and wholly
\* (Link.close), the transport of an ELM327 and a simulator that is ending apart, and
\* no open link is lost.
LinksAccounted == CanLinksLetGo /\ SimulatorHasItsBus /\ NoOrphan

\* link_opening, the flag that holds off a second connection, never stays up, unless
\* the program has frozen.
OpeningSettles == opening ~> ~ opening \/ frozen

\* After a disconnect every capture loop (_rx_loop) ends, unless the studio connects
\* again in the meantime or has frozen.
CaptureEnds ==
  ~ running ~> running \/ frozen \/ \A l \in Links : loop[l] \in {"none", "done"}

\* What the studio begins it ends: opening a link (_connect_link) and
\* capturing from one (_rx_loop).
WhatBeginsEnds == OpeningSettles /\ CaptureEnds
=============================================================================
