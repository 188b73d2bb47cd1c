------------------------------ MODULE TraceLog ------------------------------
(***************************************************************************)
(* What a trace buffer promises its callers, whatever its layout: every    *)
(* operation takes effect at one instant between its call and its return,  *)
(* and a snapshot is the newest frames pushed since the last clear, oldest *)
(* first, never more than Capacity of them.  total_pushed() also counts    *)
(* from the last clear: the code sets it to zero there, although its doc   *)
(* comment speaks of the buffer's lifetime.                                *)
(***************************************************************************)
EXTENDS Naturals, Sequences, FiniteSets

CONSTANTS Threads,     \* callers sharing one buffer
          Capacity,    \* frames the buffer keeps
          Frames,      \* CAN frames, told apart and nothing more
          Limits,      \* snapshot(limit); None acts as any limit >= Capacity
          MaxPushed    \* bound: frames pushed between two clears

ASSUME CapacityAssumption == Capacity \in Nat \ {0}
ASSUME LimitsAssumption == Limits \subseteq Nat

VARIABLES pushed,      \* every frame pushed since the last clear
          call,        \* thread -> the call it is inside
          result       \* thread -> what its last call returned

logVars == <<pushed, call, result>>

Smaller(m, n) == IF m <= n THEN m ELSE n

\* The last n elements of s, or all of them when there are fewer.
Newest(s, n) == SubSeq(s, Len(s) - Smaller(n, Len(s)) + 1, Len(s))

Idle == [op |-> "idle", arg |-> 0]
Pushes == [op : {"push"}, arg : Frames]
Snapshots == [op : {"snapshot"}, arg : Limits]
Plain == [op : {"clear", "len", "total_pushed"}, arg : {0}]
Calls == Pushes \cup Snapshots \cup Plain
None == <<>>

LogInit == /\ pushed = <<>>
           /\ call = [t \in Threads |-> Idle]
           /\ result = [t \in Threads |-> None]

\* Pushes under way count against the bound, so that none is cut short by it.
Room == Len(pushed) + Cardinality({t \in Threads : call[t].op = "push"}) < MaxPushed

Invoke(t) == /\ call[t] = Idle
             /\ \E c \in Calls : /\ c.op = "push" => Room
                                 /\ call' = [call EXCEPT ![t] = c]
             /\ result' = [result EXCEPT ![t] = None]
             /\ UNCHANGED pushed

Answer(c) == CASE c.op = "snapshot" -> Newest(Newest(pushed, Capacity), c.arg)
               [] c.op = "len" -> <<Smaller(Len(pushed), Capacity)>>
               [] c.op = "total_pushed" -> <<Len(pushed)>>
               [] OTHER -> None

Effect(c) == CASE c.op = "push" -> Append(pushed, c.arg)
               [] c.op = "clear" -> <<>>
               [] OTHER -> pushed

Return(t) == /\ call[t] # Idle
             /\ pushed' = Effect(call[t])
             /\ result' = [result EXCEPT ![t] = Answer(call[t])]
             /\ call' = [call EXCEPT ![t] = Idle]

LogNext == \E t \in Threads : Invoke(t) \/ Return(t)

LogSpec == LogInit /\ [][LogNext]_logVars
=============================================================================
