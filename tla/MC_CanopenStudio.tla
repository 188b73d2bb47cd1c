-------------------------- MODULE MC_CanopenStudio --------------------------
(* CanopenStudio with two sub-indices of one writable object, a trace of two *)
(* frames, and foreign frames that look like heartbeats of node 1: a 29-bit  *)
(* one, a node guarding without a byte, and a master's NMT command; the      *)
(* timers of StudioTimers; and the heartbeat consumer of NmtMaster, with two *)
(* nodes, intervals that are rounded and not, and clocks that jump.  They    *)
(* share no state: a behaviour exercises one of the three.                   *)
EXTENDS CanopenStudio, NmtMaster, StudioTimers

CONSTANTS n1, n2

VARIABLE part

allVars == <<part, vars, master, timers>>

StudioInit == part \in {"frames", "timers", "heartbeats"} /\ Init /\ TimersInit /\ MasterInit
StudioNext ==
  \/ part = "frames" /\ Next /\ UNCHANGED <<part, master, timers>>
  \/ part = "timers" /\ TimersNext /\ UNCHANGED <<part, vars, master>>
  \/ part = "heartbeats" /\ MasterNext /\ UNCHANGED <<part, vars, timers>>
StudioSpec == StudioInit /\ [][StudioNext]_allVars

MC_Nodes == {n1, n2}
MC_Objects == {<<\h1000, 0>>, <<\h1000, 1>>}
MC_Writes == {<<7, 0>>}
MC_Commands == {\h01, \h82}
MC_Foreign ==
  {[cid |-> \h701, ext |-> TRUE, data |-> <<\h04>>],
   [cid |-> \h701, ext |-> FALSE, data |-> <<>>],
   NmtFrame(\h02, 1)}
MC_Speeds == {600}
=============================================================================
