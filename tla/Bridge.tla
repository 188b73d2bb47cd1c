------------------------------- MODULE Bridge -------------------------------
(***************************************************************************)
(* CanBridge with injection allowed: the capture loop hands each frame of  *)
(* the source bus to forward(), which mirrors it onto the network; a       *)
(* reader thread writes the network's frames onto the source bus.  Each    *)
(* side hears what the bridge itself sent come back, and discards it by a  *)
(* stamp per signature (identifier and payload), one stamp however often   *)
(* the frame was sent.  Not every medium gives a reflection: an adapter    *)
(* may echo what it sends or not, a UDP bus does not hear itself.  A stamp *)
(* is here a membership: it may expire at any moment no frame of its       *)
(* signature is under way, for a reflection takes less than the echo       *)
(* window, and a stamp without one that expires while another such frame   *)
(* is under way might as well expire before it came.  A frame is its       *)
(* signature, which is all of it the suppression sees.                     *)
(***************************************************************************)
EXTENDS Naturals, Sequences, SequencesExt

CONSTANTS Signatures,
          MaxSent,      \* bound: frames of a signature each side sends
          MaxFailures   \* bound: sends that fail while both buses are up

VARIABLES running, netOpen,   \* self.running; the network bus is not shut down
          stopPc,             \* stop(): "no", "join", "shutdown", "clear", "done"
          sourceRx, netRx,    \* received and not yet read, by each bus
          injected, forwarded,\* self._injected, self._forwarded: fresh stamps
          cap, capFrame,      \* the capture loop inside forward()
          inj, injFrame,      \* the inject thread
          lingering,          \* whether the network bus sends on after shutdown,
                              \* as a UdpBus on its native socket does
          count,              \* history: per event and signature
          repeated,           \* history: signatures sent while still under way
          failures            \* history: sends that failed with both buses up

busVars == <<sourceRx, netRx>>
capVars == <<cap, capFrame>>
injVars == <<inj, injFrame>>
stopVars == <<running, netOpen, stopPc>>
stampVars == <<injected, forwarded>>
aside == <<lingering, repeated>>
vars == <<stopVars, busVars, stampVars, capVars, injVars, count, failures, aside>>

Events == {"device", "remote", "forwarded", "injected", "suppressed", "suppressed_inject",
           "reflected", "echoed",       \* sends that were heard again
           "unreflected", "unechoed"}   \* sends that failed, or that nothing reflected
NoFrame == "none"

Init == /\ running = TRUE /\ netOpen = TRUE /\ stopPc = "no"
        /\ sourceRx = <<>> /\ netRx = <<>>
        /\ injected = {} /\ forwarded = {}
        /\ cap = "idle" /\ capFrame = NoFrame
        /\ inj = "check" /\ injFrame = NoFrame
        /\ count = [e \in Events |-> [s \in Signatures |-> 0]]
        /\ failures = 0 /\ repeated = {} /\ lingering \in BOOLEAN

\* A frame of this signature is queued, or in either thread's hands.
UnderWay(s) == \/ Contains(sourceRx, s) \/ Contains(netRx, s)
               \/ cap # "idle" /\ capFrame = s
               \/ inj \in {"got", "consume", "remember", "send"} /\ injFrame = s

Counted(e, s) == count' = [count EXCEPT ![e][s] = @ + 1]
CountedBoth(e, d, s) == count' = [count EXCEPT ![e][s] = @ + 1, ![d][s] = @ + 1]

Repeats(s) == /\ repeated' = IF UnderWay(s) THEN repeated \cup {s} ELSE repeated
              /\ UNCHANGED lingering

Device(s) == /\ count["device"][s] < MaxSent
             /\ sourceRx' = Append(sourceRx, s)
             /\ Counted("device", s) /\ Repeats(s)
             /\ UNCHANGED <<stopVars, netRx, stampVars, capVars, injVars, failures>>

Remote(s) == /\ count["remote"][s] < MaxSent /\ netOpen
             /\ netRx' = Append(netRx, s)
             /\ Counted("remote", s) /\ Repeats(s)
             /\ UNCHANGED <<stopVars, sourceRx, stampVars, capVars, injVars, failures>>

Expire(s) == /\ ~ UnderWay(s)
             /\ \/ /\ s \in injected /\ injected' = injected \ {s}
                   /\ UNCHANGED forwarded
                \/ /\ s \in forwarded /\ forwarded' = forwarded \ {s}
                   /\ UNCHANGED injected
             /\ UNCHANGED <<stopVars, busVars, capVars, injVars, count, failures, aside>>

-----------------------------------------------------------------------------
(* forward(), in the capture loop                                          *)

Forward == /\ cap = "idle" /\ sourceRx # <<>>
           /\ sourceRx' = Tail(sourceRx)
           /\ IF running
              THEN cap' = "consume" /\ capFrame' = Head(sourceRx)
              ELSE UNCHANGED capVars
           /\ UNCHANGED <<stopVars, netRx, stampVars, injVars, count, failures, aside>>

\* Mutant: an echo leaves its stamp behind.
ForwardKeepsStamp == /\ cap = "consume"
                     /\ IF capFrame \in injected
                        THEN cap' = "idle" /\ Counted("suppressed", capFrame)
                        ELSE cap' = "remember" /\ UNCHANGED count
                     /\ UNCHANGED <<stopVars, busVars, stampVars, capFrame,
                                    injVars, failures, aside>>

ForwardConsume == /\ cap = "consume"
                  /\ injected' = injected \ {capFrame}
                  /\ IF capFrame \in injected
                     THEN cap' = "idle" /\ Counted("suppressed", capFrame)
                     ELSE cap' = "remember" /\ UNCHANGED count
                  /\ UNCHANGED <<stopVars, busVars, forwarded, capFrame,
                                 injVars, failures, aside>>

ForwardRemember == /\ cap = "remember"
                   /\ forwarded' = forwarded \cup {capFrame}
                   /\ cap' = "send"
                   /\ UNCHANGED <<stopVars, busVars, injected, capFrame,
                                  injVars, count, failures, aside>>

\* The multicast socket hears its own datagram, or does not.
ForwardSend ==
  /\ cap = "send" /\ (netOpen \/ lingering)
  /\ cap' = "idle"
  /\ \/ netRx' = Append(netRx, capFrame) /\ CountedBoth("forwarded", "reflected", capFrame)
     \/ UNCHANGED netRx /\ CountedBoth("forwarded", "unreflected", capFrame)
  /\ UNCHANGED <<stopVars, sourceRx, stampVars, capFrame, injVars, failures, aside>>

ForwardFails == /\ cap = "send"
                /\ ~ netOpen \/ failures < MaxFailures
                /\ cap' = "idle"
                /\ failures' = IF netOpen THEN failures + 1 ELSE failures
                /\ Counted("unreflected", capFrame)
                /\ UNCHANGED <<stopVars, busVars, stampVars, capFrame, injVars, aside>>

-----------------------------------------------------------------------------
(* _inject_loop                                                            *)

InjectCheck == /\ inj = "check"
               /\ inj' = IF running THEN "recv" ELSE "ended"
               /\ UNCHANGED <<stopVars, busVars, stampVars, capVars, injFrame,
                              count, failures, aside>>

\* Mutant: recv waits without a timeout.
InjectRecvWaits == /\ inj = "recv" /\ netRx # <<>>
                   /\ inj' = "got" /\ injFrame' = Head(netRx) /\ netRx' = Tail(netRx)
                   /\ UNCHANGED <<stopVars, sourceRx, stampVars, capVars, count, failures, aside>>

InjectRecv == /\ inj = "recv"
              /\ IF netOpen /\ netRx # <<>>
                 THEN /\ inj' = "got" /\ injFrame' = Head(netRx)
                      /\ netRx' = Tail(netRx)
                 ELSE inj' = "check" /\ UNCHANGED <<injFrame, netRx>>
              /\ UNCHANGED <<stopVars, sourceRx, stampVars, capVars, count, failures, aside>>

InjectRunning == /\ inj = "got"
                 /\ inj' = IF running THEN "consume" ELSE "check"
                 /\ UNCHANGED <<stopVars, busVars, stampVars, capVars, injFrame,
                                count, failures, aside>>

\* Mutant: a frame is injected without being remembered first.
InjectUnremembered ==
  /\ inj = "consume"
  /\ forwarded' = forwarded \ {injFrame}
  /\ IF injFrame \in forwarded
     THEN inj' = "check" /\ Counted("suppressed_inject", injFrame)
     ELSE inj' = "send" /\ UNCHANGED count
  /\ UNCHANGED <<stopVars, busVars, injected, capVars, injFrame, failures, aside>>

InjectConsume == /\ inj = "consume"
                 /\ forwarded' = forwarded \ {injFrame}
                 /\ IF injFrame \in forwarded
                    THEN inj' = "check" /\ Counted("suppressed_inject", injFrame)
                    ELSE inj' = "remember" /\ UNCHANGED count
                 /\ UNCHANGED <<stopVars, busVars, injected, capVars, injFrame,
                                failures, aside>>

InjectRemember == /\ inj = "remember"
                  /\ injected' = injected \cup {injFrame}
                  /\ inj' = "send"
                  /\ UNCHANGED <<stopVars, busVars, forwarded, capVars,
                                 injFrame, count, failures, aside>>

\* The adapter may echo the frame, which may be read before send returns.
InjectSend ==
  /\ inj = "send"
  /\ inj' = "check"
  /\ \/ sourceRx' = Append(sourceRx, injFrame) /\ CountedBoth("injected", "echoed", injFrame)
     \/ UNCHANGED sourceRx /\ CountedBoth("injected", "unechoed", injFrame)
  /\ UNCHANGED <<stopVars, netRx, stampVars, capVars, injFrame, failures, aside>>

InjectFails == /\ inj = "send" /\ failures < MaxFailures
               /\ inj' = "check"
               /\ failures' = failures + 1
               /\ Counted("unechoed", injFrame)
               /\ UNCHANGED <<stopVars, busVars, stampVars, capVars, injFrame, aside>>

-----------------------------------------------------------------------------
(* stop(), on the Tk thread                                                *)

Stop == /\ stopPc = "no"
        /\ stopPc' = "join" /\ running' = FALSE
        /\ UNCHANGED <<netOpen, busVars, stampVars, capVars, injVars, count, failures, aside>>

\* join(timeout=1.0): only a send that blocks outlasts it.
Joined == /\ stopPc = "join"
          /\ inj \in {"ended", "send"}
          /\ stopPc' = "shutdown"
          /\ UNCHANGED <<running, netOpen, busVars, stampVars, capVars, injVars,
                         count, failures, aside>>

Shutdown == /\ stopPc = "shutdown"
            /\ stopPc' = "clear" /\ netOpen' = FALSE
            /\ UNCHANGED <<running, busVars, stampVars, capVars, injVars, count,
                           failures, aside>>

ClearStamps == /\ stopPc = "clear"
               /\ stopPc' = "done" /\ injected' = {} /\ forwarded' = {}
               /\ UNCHANGED <<running, netOpen, busVars, capVars, injVars,
                              count, failures, aside>>

Capturing == \/ Forward \/ ForwardConsume \/ ForwardRemember \/ ForwardSend
             \/ ForwardFails

Injecting == \/ InjectCheck \/ InjectRecv \/ InjectRunning \/ InjectConsume
             \/ InjectRemember \/ InjectSend \/ InjectFails

Stopping == Joined \/ Shutdown \/ ClearStamps

Next == \/ Capturing \/ Injecting \/ Stop \/ Stopping
        \/ \E s \in Signatures : Device(s) \/ Remote(s) \/ Expire(s)

\* Both threads and stop() run; nobody has to send or to stop.
Spec == /\ Init /\ [][Next]_vars
        /\ WF_vars(Capturing) /\ WF_vars(Injecting) /\ WF_vars(Stopping)
-----------------------------------------------------------------------------
TypeOK == /\ running \in BOOLEAN /\ netOpen \in BOOLEAN
          /\ stopPc \in {"no", "join", "shutdown", "clear", "done"}
          /\ injected \subseteq Signatures /\ forwarded \subseteq Signatures
          /\ cap \in {"idle", "consume", "remember", "send"}
          /\ inj \in {"check", "recv", "got", "consume", "remember", "send", "ended"}
          /\ cap # "idle" => capFrame \in Signatures
          /\ inj \in {"got", "consume", "remember", "send"} => injFrame \in Signatures

\* "Loop protection runs both ways": the network never hears a frame more
\* often than the device sent it, nor the device more often than the remote
\* side did, whatever fails and whenever the bridge is stopped.  Two things
\* undo it: a frame repeated while it is still under way, for which there is
\* one stamp, and a bus that still sends when stop() has cleared the stamps.
NothingInvented ==
  \A s \in Signatures \ repeated :
    ~ lingering \/ stopPc # "done" =>
      /\ count["forwarded"][s] <= count["device"][s]
      /\ count["injected"][s] <= count["remote"][s]

\* Each direction "remembers what it just sent and discards the reflection":
\* what it discards is matched by a reflection, or by a send that had none,
\* because it failed or because the medium gives none.  Such a send leaves a
\* stamp for the echo window, and costs the other side at most one frame of
\* its own; with a reflection for every send, it loses none.
OnlyReflectionsDiscarded ==
  \A s \in Signatures \ repeated :
    /\ count["suppressed"][s] <= count["echoed"][s] + count["unechoed"][s]
    /\ count["suppressed_inject"][s] <= count["reflected"][s] + count["unreflected"][s]

\* Once stop() goes on to release the network bus, the inject thread has
\* ended, or finishes the one send it was in and takes no further frame.
InjectThreadLetGo == stopPc \in {"shutdown", "clear", "done"} =>
                       inj \in {"ended", "send", "check"}

\* stop() returns, and the inject thread ends, whatever they were doing.
StopReturns == stopPc = "join" ~> stopPc = "done" /\ inj = "ended"

\* stop() keeps its word: the thread it stopped touches the network bus no
\* more, and both of them end.
StopIsClean == []InjectThreadLetGo /\ StopReturns
=============================================================================
