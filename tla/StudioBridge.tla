----------------------------- MODULE StudioBridge -----------------------------
(***************************************************************************)
(* Who starts and stops the bridge of the studio (gui.py): agents on the   *)
(* MCP server's threads, and the Tk thread when it adopts a link and when  *)
(* it disconnects.  `bus` and `bridge` are tested, read and stored one     *)
(* after the other, without a lock.  A bridge is numbered when its start   *)
(* is asked for.  How a bridge itself runs and stops is Bridge's subject:  *)
(* here it is armed or not, and its network bus open or not.               *)
(***************************************************************************)
EXTENDS Naturals

CONSTANTS Agents,
          MaxAdopted,   \* bound: links adopted
          MaxBridges    \* bound: bridges asked for

ASSUME AdoptionsAssumption == MaxAdopted \in Nat /\ MaxBridges \in Nat

VARIABLES bus,       \* self.bus: the link it belongs to, or Nothing
          adopted,   \* links adopted so far
          bridge,    \* self.bridge, or Nothing
          asked,     \* bridges asked for so far
          source,    \* of each bridge, its source_bus
          armed,     \* bridges that are running
          open,      \* bridges whose network bus is open
          at, own,   \* of each thread: where it is, and the bridge it starts
          contended, \* history: bridges started while another thread was inside
          replaced   \* history: bridges open when a link took the place of another

bridging == <<bus, adopted, bridge, asked, source, armed, open, at, own, contended, replaced>>

Tk == "tk"
Callers == Agents \cup {Tk}
Nothing == 0

BridgingInit == /\ bus = Nothing /\ adopted = 0
                /\ bridge = Nothing /\ asked = 0
                /\ source = [b \in 1..MaxBridges |-> Nothing]
                /\ armed = {} /\ open = {} /\ contended = {} /\ replaced = {}
                /\ at = [t \in Callers |-> "outside"]
                /\ own = [t \in Callers |-> Nothing]

Starts == {"asked", "connected", "free", "opened", "made", "stored"}

\* Bridges a start is under way for.
BeingStarted == {own[t] : t \in {u \in Callers : at[u] \in Starts}}

\* Thread t comes in, to start bridge b if b is one.
Enter(t, where, b) ==
  /\ at[t] = "outside" /\ at' = [at EXCEPT ![t] = where]
  /\ own' = [own EXCEPT ![t] = b]
  /\ contended' = IF \E u \in Callers : at[u] # "outside"
                  THEN contended \cup BeingStarted \cup {b} ELSE contended

Go(t, where) == at' = [at EXCEPT ![t] = where] /\ UNCHANGED <<own, contended>>
Leave(t) == Go(t, "outside")

\* _link_opened adopts the link, whatever is adopted already: of two links that
\* agents open at a time, the later one takes the place of the first, and a
\* bridge goes on with the bus it has.  With the box ticked it starts a bridge.
Adopt == /\ adopted < MaxAdopted /\ at[Tk] = "outside"
         /\ bus' = adopted + 1 /\ adopted' = adopted + 1
         /\ replaced' = IF bus = Nothing THEN replaced ELSE replaced \cup open
         /\ \/ UNCHANGED <<at, own, contended, asked>>
            \/ /\ asked < MaxBridges /\ asked' = asked + 1
               /\ Enter(Tk, "asked", asked + 1)
         /\ UNCHANGED <<bridge, source, armed, open>>

-----------------------------------------------------------------------------
(* start_bridge                                                            *)

AskToStart(t) == /\ t # Tk /\ asked < MaxBridges
                 /\ asked' = asked + 1 /\ Enter(t, "asked", asked + 1)
                 /\ UNCHANGED <<bus, adopted, replaced, bridge, source, armed, open>>

LookAtBus(t) == /\ at[t] = "asked"
                /\ IF bus = Nothing THEN Leave(t) ELSE Go(t, "connected")
                /\ UNCHANGED <<bus, adopted, replaced, bridge, asked, source, armed, open>>

\* Mutant: a second bridge takes the place of the first.
LookAtNothing(t) == /\ at[t] = "connected"
                    /\ Go(t, "free")
                    /\ UNCHANGED <<bus, adopted, replaced, bridge, asked, source, armed, open>>

LookAtBridge(t) == /\ at[t] = "connected"
                   /\ IF bridge = Nothing THEN Go(t, "free") ELSE Leave(t)
                   /\ UNCHANGED <<bus, adopted, replaced, bridge, asked, source, armed, open>>

\* It may be the captured group itself, or fail to open.
OpenNetwork(t) == /\ at[t] = "free"
                  /\ \/ open' = open \cup {own[t]} /\ Go(t, "opened")
                     \/ UNCHANGED open /\ Leave(t)
                  /\ UNCHANGED <<bus, adopted, replaced, bridge, asked, source, armed>>

Make(t) == /\ at[t] = "opened" /\ Go(t, "made")
           /\ source' = [source EXCEPT ![own[t]] = bus]
           /\ UNCHANGED <<bus, adopted, replaced, bridge, asked, armed, open>>

Store(t) == /\ at[t] = "made" /\ Go(t, "stored")
            /\ bridge' = own[t]
            /\ UNCHANGED <<bus, adopted, replaced, asked, source, armed, open>>

\* Whatever `bridge` is by now; an AttributeError when it is nothing.
Arm(t) == /\ at[t] = "stored" /\ Leave(t)
          /\ armed' = armed \cup ({bridge} \ {Nothing})
          /\ UNCHANGED <<bus, adopted, replaced, bridge, asked, source, open>>

-----------------------------------------------------------------------------
(* stop_bridge and _disconnect                                             *)

AskToStop(t) == /\ t # Tk /\ bridge # Nothing /\ Enter(t, "stopping", Nothing)
                /\ UNCHANGED <<bus, adopted, replaced, bridge, asked, source, armed, open>>

\* A disconnect that an agent has queued may find no link any more.
Disconnect ==
  /\ Enter(Tk, IF bridge = Nothing THEN "closing" ELSE "stopping", Nothing)
  /\ UNCHANGED <<bus, adopted, replaced, bridge, asked, source, armed, open>>

\* bridge.stop() does nothing to a bridge that does not run; when another
\* thread has set it to None, the AttributeError ends a disconnect half-way.
StopIt(t) ==
  /\ at[t] = "stopping"
  /\ IF bridge = Nothing THEN Leave(t) ELSE Go(t, "stopped")
  /\ armed' = armed \ {bridge}
  /\ open' = IF bridge \in armed THEN open \ {bridge} ELSE open
  /\ UNCHANGED <<bus, adopted, replaced, bridge, asked, source>>

Forget(t) == /\ at[t] = "stopped"
             /\ IF t = Tk THEN Go(t, "closing") ELSE Leave(t)
             /\ bridge' = Nothing
             /\ UNCHANGED <<bus, adopted, replaced, asked, source, armed, open>>

CloseLink == /\ at[Tk] = "closing" /\ Leave(Tk)
             /\ bus' = Nothing
             /\ UNCHANGED <<adopted, replaced, bridge, asked, source, armed, open>>

BridgingNext ==
  \/ Adopt \/ Disconnect \/ CloseLink
  \/ \E t \in Callers : \/ AskToStart(t) \/ LookAtBus(t) \/ LookAtBridge(t)
                        \/ OpenNetwork(t) \/ Make(t) \/ Store(t) \/ Arm(t)
                        \/ AskToStop(t) \/ StopIt(t) \/ Forget(t)

BridgingSpec == BridgingInit /\ [][BridgingNext]_bridging
-----------------------------------------------------------------------------
BridgingTypeOK == /\ bus \in 0..adopted /\ bridge \in 0..asked
                  /\ armed \subseteq 1..asked /\ open \subseteq 1..asked

\* A network bus that is open belongs to the bridge the studio can stop, or to
\* one on its way there, and a running bridge mirrors the link it was started
\* on and, unless another took that link's place while it ran, no later one:
\* whatever agents and the window stop, and whenever, for every bridge that
\* nobody came across while it was being started.
BridgeKeepsToItsLink ==
  \A b \in open \ contended :
    /\ b = bridge \/ b \in BeingStarted
    /\ b \in armed => source[b] = bus \/ b \in replaced

\* The same of every bridge.  Not an invariant: a bridge whose start meets a
\* disconnect mirrors the next link, one of two starts that meet is lost, and
\* one whose link is replaced goes on mirroring the link nobody closes.
EveryBridgeIsTheStudios ==
  \A b \in open : (b = bridge \/ b \in BeingStarted) /\ (b \in armed => source[b] = bus)
=============================================================================
