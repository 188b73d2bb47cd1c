------------------------------ MODULE NmtMaster ------------------------------
(***************************************************************************)
(* The heartbeat consumer of canopen_core (nmt.rs): what it knows of each  *)
(* node, what it returns, and the count of active nodes the Rust window    *)
(* makes of it.  Frames carry the stamp of whoever received them, and a    *)
(* check is made with the caller's clock: neither need agree with the      *)
(* other, nor go forward.  The consumer looks at the number of a frame     *)
(* only, so that what counts here as a heartbeat may be a 29-bit frame.    *)
(***************************************************************************)
EXTENDS Integers

CONSTANTS Nodes,
          Bytes,       \* first bytes of the heartbeats tried
          Stamps,      \* times of frames and checks, in microseconds
          Intervals,   \* heartbeat intervals a caller configures
          NoInterval   \* no interval

ASSUME TimesAssumption == Stamps \subseteq Nat /\ Intervals \subseteq Nat
ASSUME NoIntervalAssumption == NoInterval \notin Nat

VARIABLES state, lastSeen, interval,   \* of each node; what it is before it is in the table
          timedOut,  \* the nodes marked as silent
          reports,   \* history: times a node was reported silent since it was heard
          grounds,   \* history: at its last report, how long it had been silent, and
                     \* its interval
          told,      \* history: its state as the returned changes tell it
          gone       \* history: the nodes returned as silent and not as changed since

returned == <<reports, grounds, told, gone>>
master == <<state, lastSeen, interval, timedOut, returned>>

MasterInit ==
  /\ state = [n \in Nodes |-> "Unknown"]
  /\ lastSeen = [n \in Nodes |-> 0]
  /\ interval = [n \in Nodes |-> NoInterval]
  /\ timedOut = {}
  /\ reports = [n \in Nodes |-> 0]
  /\ grounds = [n \in Nodes |-> [silent |-> 0, interval |-> 0]]
  /\ told = state /\ gone = {}

SetHeartbeatInterval(n, i) ==
  /\ interval' = [interval EXCEPT ![n] = i]
  /\ UNCHANGED <<state, lastSeen, timedOut, returned>>

StateOf(byte) == CASE byte = 0   -> "Bootup"
                   [] byte = 4   -> "Stopped"
                   [] byte = 5   -> "Operational"
                   [] byte = 127 -> "PreOperational"
                   [] OTHER      -> "Unknown"

\* Mutant: a heartbeat does not end the timeout.
HeardKeepsTimeout(n, byte, stamp) ==
  /\ state' = [state EXCEPT ![n] = StateOf(byte)]
  /\ lastSeen' = [lastSeen EXCEPT ![n] = stamp]
  /\ UNCHANGED timedOut

Heard(n, byte, stamp) ==
  /\ state' = [state EXCEPT ![n] = StateOf(byte)]
  /\ lastSeen' = [lastSeen EXCEPT ![n] = stamp]
  /\ timedOut' = timedOut \ {n}

\* A frame without a byte is passed over.  A change of state is returned; a
\* heartbeat that changes nothing, and so the end of a silence, is not.
ProcessFrame(n, byte, stamp) ==
  /\ Heard(n, byte, stamp)
  /\ reports' = [reports EXCEPT ![n] = 0]
  /\ IF StateOf(byte) # state[n]
     THEN told' = [told EXCEPT ![n] = StateOf(byte)] /\ gone' = gone \ {n}
     ELSE UNCHANGED <<told, gone>>
  /\ UNCHANGED <<interval, grounds>>

\* Half an interval of grace.
Late(n, now) ==
  /\ interval[n] # NoInterval
  /\ now > lastSeen[n]
  /\ now - lastSeen[n] > interval[n] + interval[n] \div 2
  /\ n \notin timedOut

CheckTimeouts(now) ==
  /\ timedOut' = timedOut \cup {n \in Nodes : Late(n, now)}
  /\ gone' = gone \cup {n \in Nodes : Late(n, now)}
  /\ reports' = [n \in Nodes |-> reports[n] + IF Late(n, now) THEN 1 ELSE 0]
  /\ grounds' = [n \in Nodes |->
                   IF Late(n, now)
                   THEN [silent |-> now - lastSeen[n], interval |-> interval[n]]
                   ELSE grounds[n]]
  /\ UNCHANGED <<state, lastSeen, interval, told>>

MasterNext ==
  \/ \E n \in Nodes :
       \/ \E i \in Intervals : SetHeartbeatInterval(n, i)
       \/ \E byte \in Bytes, stamp \in Stamps : ProcessFrame(n, byte, stamp)
  \/ \E now \in Stamps : CheckTimeouts(now)

MasterSpec == MasterInit /\ [][MasterNext]_master
-----------------------------------------------------------------------------
\* The nodes the Rust window counts as active.
ActiveNodes == {n \in Nodes \ timedOut : state[n] = "Operational"}

\* What process_frame and check_timeouts return is true: a silence is reported
\* once until the node is heard, only when one and a half intervals had gone by,
\* and the table marks the nodes so reported, whatever the clocks do and however
\* often intervals are set anew.  A caller that keeps nothing but what they return
\* has the state of each node, and takes none for active that the table does not.
\* It may know less: that a silent node is heard again, in the state it had, is
\* not returned.
ReportsAreTrue ==
  /\ told = state
  /\ \A n \in Nodes : /\ reports[n] = IF n \in timedOut THEN 1 ELSE 0
                      /\ reports[n] = 1 => 2 * grounds[n].silent > 3 * grounds[n].interval
  /\ {n \in Nodes \ gone : told[n] = "Operational"} \subseteq ActiveNodes

\* Not an invariant: see there.
ReportsTellAll ==
  ActiveNodes \subseteq {n \in Nodes \ gone : told[n] = "Operational"}
=============================================================================
