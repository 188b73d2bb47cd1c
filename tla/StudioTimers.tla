----------------------------- MODULE StudioTimers -----------------------------
(* What ticks in the studio (gui.py): the periodic SYNC, heartbeat, frame and  *)
(* ping, each a callback that arms the next one, and the two loops that follow *)
(* a connection until they see it gone.  All run on the Tk thread.  But a      *)
(* message box runs the event loop until it is dismissed: while a tick stands  *)
(* in its box, other ticks fire and what agents queued is done, and only the   *)
(* user can do nothing else.  A link whose bridge fails is adopted half, says  *)
(* so in a box, and starts its loops when that is dismissed.                   *)
EXTENDS Naturals, SequencesExt

CONSTANTS MaxLoops, MaxAsked   \* bounds: loops of a kind, those that wait for a box
                               \* included; disconnects agents have queued

VARIABLES link,      \* "none", or the kind of the adopted link: "can" or "elm"
          bus,       \* self.bus and self.running: a CAN link was adopted and not
                     \* disconnected since, whatever link came after it
          timer,     \* of each timer, the id of its next tick, NoTick when off
          pending,   \* of each timer, the ids Tk has yet to call
          boxes,     \* the message boxes on the screen, by what stands in them
          loops,     \* callbacks of the watch and the refresh that Tk has yet to call
          asked      \* disconnects queued by agents

timers == <<link, bus, timer, pending, boxes, loops, asked>>

Timers == {"sync", "heartbeat", "frame", "ping"}
Loops == {"watch", "refresh"}
NoTick == 0
User == "user"
Opening == "opening"

TimersInit == /\ link = "none" /\ bus = FALSE
              /\ timer = [k \in Timers |-> NoTick] /\ pending = [k \in Timers |-> {}]
              /\ boxes = <<>>
              /\ loops = [g \in Loops |-> 0] /\ asked = 0

-----------------------------------------------------------------------------
(* One tick of timer k; p is what is pending without it. *)

Unused(k, p) == CHOOSE i \in 1..3 : i \notin p[k] \cup {timer[k]}

Arms(k, p) == /\ timer' = [timer EXCEPT ![k] = Unused(k, p)]
              /\ pending' = [p EXCEPT ![k] = @ \cup {Unused(k, p)}]

Boxed(k, p) == boxes' = Append(boxes, k) /\ pending' = p /\ UNCHANGED timer

\* Without a bus, and when sending fails, SYNC and the frame say so in a box and
\* arm the next tick when it is dismissed; the heartbeat says nothing, and the
\* ping gives up.
Tick(k, p) ==
  \/ (k = "heartbeat" \/ bus)
     /\ Arms(k, p) /\ UNCHANGED boxes
  \/ k \in {"sync", "frame"} /\ Boxed(k, p)
  \/ k = "ping" /\ ~ bus
     /\ timer' = [timer EXCEPT ![k] = NoTick]
     /\ pending' = [p EXCEPT ![k] = @ \ {timer[k]}]
     /\ UNCHANGED boxes

Fires(k) == /\ \E id \in pending[k] : Tick(k, [pending EXCEPT ![k] = @ \ {id}])
            /\ UNCHANGED <<link, bus, loops, asked>>

\* The end of _link_opened: the refresh looks whether the capture still runs,
\* the watch starts whatever became of the link meanwhile.
Starts == loops' = [g \in Loops |-> IF g = "watch" \/ bus THEN loops[g] + 1 ELSE loops[g]]

Dismiss == /\ boxes # <<>>
           /\ boxes' = Front(boxes)
           /\ \/ Last(boxes) = User /\ UNCHANGED <<timer, pending, loops>>
              \/ Last(boxes) = Opening /\ Starts /\ UNCHANGED <<timer, pending>>
              \/ Last(boxes) \in Timers /\ Arms(Last(boxes), pending) /\ UNCHANGED loops
           /\ UNCHANGED <<link, bus, asked>>

\* Mutant: what a running timer has pending is left there.
Forgotten(ks) == /\ timer' = [k \in Timers |-> IF k \in ks THEN NoTick ELSE timer[k]]
                 /\ UNCHANGED pending

\* after_cancel of an id that has fired already does nothing.
Cancelled(ks) ==
  /\ timer' = [k \in Timers |-> IF k \in ks THEN NoTick ELSE timer[k]]
  /\ pending' = [k \in Timers |-> IF k \in ks THEN pending[k] \ {timer[k]} ELSE pending[k]]

\* The user's click on the button of timer k.  A ping needs a bus, a frame a period.
Toggle(k) ==
  /\ boxes = <<>>
  /\ \/ timer[k] # NoTick /\ Cancelled({k}) /\ UNCHANGED boxes
     \/ timer[k] = NoTick /\ (k = "ping" => bus) /\ Tick(k, pending)
     \/ timer[k] = NoTick /\ (k = "frame" \/ (k = "ping" /\ ~ bus))
        /\ boxes' = <<User>> /\ UNCHANGED <<timer, pending>>
  /\ UNCHANGED <<link, bus, loops, asked>>

\* NMT, SYNC or a frame sent once, without success.
SendOnceFails == /\ boxes = <<>> /\ boxes' = <<User>>
                 /\ UNCHANGED <<link, bus, timer, pending, loops, asked>>

-----------------------------------------------------------------------------
(* The connection. *)

Standing(k) == {i \in DOMAIN boxes : boxes[i] = k}

\* A CAN link starts the refresh of the window and, after a second, the watch:
\* at once, or once the box about its bridge is dismissed.  Two links may open
\* side by side, and the second replaces the first.
LinkOpened(kind) ==
  /\ \A g \in Loops : loops[g] + Cardinality(Standing(Opening)) < MaxLoops
  /\ link' = kind /\ bus' = (bus \/ kind = "can")
  /\ \/ kind = "can" /\ loops' = [g \in Loops |-> loops[g] + 1] /\ UNCHANGED boxes
     \/ kind = "can" /\ boxes' = Append(boxes, Opening) /\ UNCHANGED loops
     \/ kind = "elm" /\ UNCHANGED <<boxes, loops>>
  /\ UNCHANGED <<timer, pending, asked>>

\* The watch goes on as long as there is a CAN link, the refresh as long as
\* the capture runs, whichever connection they began with.
LoopFires(g) == /\ loops[g] > 0
                /\ IF g = "watch" THEN link # "can" ELSE ~ bus
                /\ loops' = [loops EXCEPT ![g] = @ - 1]
                /\ UNCHANGED <<link, bus, timer, pending, boxes, asked>>

AgentDisconnects == /\ link # "none" /\ asked < MaxAsked /\ asked' = asked + 1
                    /\ UNCHANGED <<link, bus, timer, pending, boxes, loops>>

Disconnect == /\ \/ link # "none" /\ boxes = <<>> /\ UNCHANGED asked
                 \/ asked > 0 /\ asked' = asked - 1
              /\ Cancelled({k \in Timers : timer[k] # NoTick})
              /\ link' = "none" /\ bus' = FALSE
              /\ UNCHANGED <<boxes, loops>>

TimersNext == \/ \E k \in Timers : Toggle(k) \/ Fires(k)
              \/ \E g \in Loops : LoopFires(g)
              \/ \E kind \in {"can", "elm"} : LinkOpened(kind)
              \/ Dismiss \/ SendOnceFails \/ AgentDisconnects \/ Disconnect

TimersSpec == TimersInit /\ [][TimersNext]_timers
-----------------------------------------------------------------------------
\* Whatever fires inside a message box, a timer ticks in one chain, and what Tk
\* has yet to call is what its button and _disconnect would cancel: nothing is
\* sent periodically that cannot be stopped.  And a CAN link has its watch, a
\* capture that runs its refresh, those of an earlier connection that went on
\* included; or a link still says in a box that its bridge failed, and starts
\* them when that is dismissed.
TimersInHand ==
  /\ \A k \in Timers : Cardinality(pending[k]) + Cardinality(Standing(k)) <= 1
  /\ \A k \in Timers : pending[k] \subseteq {timer[k]}
  /\ Standing(Opening) = {} => /\ link = "can" => loops["watch"] > 0
                               /\ bus => loops["refresh"] > 0

\* _disconnect stops every timer: without a link nothing ticks.  Not an
\* invariant: a tick that stands in its box while an agent disconnects arms the
\* next one when the box is dismissed, and all but the ping start without a link.
QuietWithoutLink == link = "none" => \A k \in Timers : pending[k] = {}

\* One watch and one refresh at a time.  Not an invariant: connecting again before
\* those of the last connection have looked leaves both going.
OneLoopEach == \A g \in Loops : loops[g] <= 1
=============================================================================
