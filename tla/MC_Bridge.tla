----------------------------- MODULE MC_Bridge -----------------------------
(* One bridge: one signature, sent up to three times by either side.  A      *)
(* frame of another one touches neither its stamps nor its reflections, and  *)
(* only keeps the threads busy, which they may be anyway.  And who starts    *)
(* and stops bridges: two agents and the window, two links, two bridges.     *)
(* They share no state: a behaviour exercises one of the two.                *)
EXTENDS Bridge, StudioBridge

CONSTANTS s1, a1, a2

VARIABLE part

allVars == <<part, vars, bridging>>

BridgesInit == part \in {"bridge", "studio"} /\ Init /\ BridgingInit
BridgesNext ==
  \/ part = "bridge" /\ Next /\ UNCHANGED <<part, bridging>>
  \/ part = "studio" /\ BridgingNext /\ UNCHANGED <<part, vars>>

\* The fairness of Bridge; nobody has to start or stop one.
BridgesSpec == /\ BridgesInit /\ [][BridgesNext]_allVars
               /\ WF_allVars(part = "bridge" /\ Capturing /\ UNCHANGED <<part, bridging>>)
               /\ WF_allVars(part = "bridge" /\ Injecting /\ UNCHANGED <<part, bridging>>)
               /\ WF_allVars(part = "bridge" /\ Stopping /\ UNCHANGED <<part, bridging>>)
=============================================================================
