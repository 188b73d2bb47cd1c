------------------------------ MODULE TraceRing ------------------------------
(***************************************************************************)
(* crates/canopen-core/src/ring_buffer.rs: the fixed-capacity trace buffer *)
(* shared by capture threads and readers.  Its three fields sit behind     *)
(* three RwLocks, always taken in the order buffer, head, total_pushed;    *)
(* a call is a sequence of lock acquisitions and then its body.  A         *)
(* snapshot copies `head` out, drops that guard, and indexes the buffer    *)
(* with the copy.  TraceLog is what all of this has to amount to.          *)
(***************************************************************************)
EXTENDS TraceLog

VARIABLES buf,         \* Vec<CanFrame>, at most Capacity long
          head,        \* slot the next overwrite hits: the oldest frame
          total,       \* total_pushed: since the last clear
          stage,       \* thread -> locks its call has taken so far
          seenHead     \* thread -> the copy of head its snapshot holds

ringVars == <<buf, head, total, stage, seenHead>>
vars == <<logVars, ringVars>>

\* Mutant: clear takes its locks in the opposite order.
ClearLocksBackwards(op) ==
  CASE op = "push" -> <<"buffer", "head", "total">>
    [] op = "clear" -> <<"total", "head", "buffer">>
    [] op = "snapshot" -> <<"buffer", "head">>
    [] op = "len" -> <<"buffer">>
    [] op = "total_pushed" -> <<"total">>
    [] OTHER -> <<>>

\* The locks each operation takes, in order.
LockOrder(op) ==
  CASE op \in {"push", "clear"} -> <<"buffer", "head", "total">>
    [] op = "snapshot" -> <<"buffer", "head">>
    [] op = "len" -> <<"buffer">>
    [] op = "total_pushed" -> <<"total">>
    [] OTHER -> <<>>

Writes(op) == op \in {"push", "clear"}

\* `*self.head.read().unwrap()` drops its guard with the statement.
Kept(op) == IF op = "snapshot" THEN {"buffer"} ELSE {"buffer", "head", "total"}

Holds(t, lock) == /\ lock \in Kept(call[t].op)
                  /\ \E i \in 1..stage[t] : LockOrder(call[t].op)[i] = lock

MayTake(t, lock) ==
  \A u \in Threads \ {t} :
     Holds(u, lock) => ~Writes(call[u].op) /\ ~Writes(call[t].op)

Init == /\ LogInit
        /\ buf = <<>>
        /\ head = 0
        /\ total = 0
        /\ stage = [t \in Threads |-> 0]
        /\ seenHead = [t \in Threads |-> 0]

Begin(t) == Invoke(t) /\ UNCHANGED ringVars

Acquire(t) ==
  /\ call[t] # Idle
  /\ stage[t] < Len(LockOrder(call[t].op))
  /\ MayTake(t, LockOrder(call[t].op)[stage[t] + 1])
  /\ stage' = [stage EXCEPT ![t] = @ + 1]
  /\ seenHead' = IF LockOrder(call[t].op)[stage[t] + 1] = "head"
                 THEN [seenHead EXCEPT ![t] = head] ELSE seenHead
  /\ UNCHANGED <<logVars, buf, head, total>>

\* Dropping the guards ends the call.
Finish(t, answer) ==
  /\ call[t] # Idle
  /\ stage[t] = Len(LockOrder(call[t].op))
  /\ stage' = [stage EXCEPT ![t] = 0]
  /\ call' = [call EXCEPT ![t] = Idle]
  /\ result' = [result EXCEPT ![t] = answer]
  /\ UNCHANGED seenHead

Push(t) ==
  /\ call[t].op = "push"
  /\ IF Len(buf) < Capacity
     THEN buf' = Append(buf, call[t].arg) /\ head' = head
     ELSE /\ buf' = [buf EXCEPT ![head + 1] = call[t].arg]
          /\ head' = (head + 1) % Capacity
  /\ total' = total + 1
  /\ pushed' = Append(pushed, call[t].arg)
  /\ Finish(t, None)

\* Mutant: clear leaves head where it is.
ClearKeepsHead(t) == /\ call[t].op = "clear"
                     /\ buf' = <<>> /\ head' = head /\ total' = 0 /\ pushed' = <<>>
                     /\ Finish(t, None)

Clear(t) == /\ call[t].op = "clear"
            /\ buf' = <<>> /\ head' = 0 /\ total' = 0 /\ pushed' = <<>>
            /\ Finish(t, None)

\* Mutant: the slots in the order they lie in memory.
Unrotated(h) == buf

Ordered(h) == IF Len(buf) < Capacity THEN buf
              ELSE SubSeq(buf, h + 1, Len(buf)) \o SubSeq(buf, 1, h)

Snapshot(t) == /\ call[t].op = "snapshot"
               /\ Finish(t, Newest(Ordered(seenHead[t]), call[t].arg))
               /\ UNCHANGED <<buf, head, total, pushed>>

ReadLen(t) == /\ call[t].op = "len"
              /\ Finish(t, <<Len(buf)>>)
              /\ UNCHANGED <<buf, head, total, pushed>>

TotalPushed(t) == /\ call[t].op = "total_pushed"
                  /\ Finish(t, <<total>>)
                  /\ UNCHANGED <<buf, head, total, pushed>>

Body(t) == Push(t) \/ Clear(t) \/ Snapshot(t) \/ ReadLen(t) \/ TotalPushed(t)

Next == \E t \in Threads : Begin(t) \/ Acquire(t) \/ Body(t)

Spec == Init /\ [][Next]_vars
-----------------------------------------------------------------------------
(* The buffer is well formed: `head` always names a slot, and it has moved *)
(* off the first one only once the buffer is full.                         *)
TypeOK ==
  /\ pushed \in Seq(Frames)
  /\ call \in [Threads -> Calls \cup {Idle}]
  /\ buf \in Seq(Frames) /\ Len(buf) <= Capacity
  /\ head \in 0..(Capacity - 1)
  /\ total \in Nat
  /\ stage \in [Threads -> 0..3]
  /\ seenHead \in [Threads -> 0..(Capacity - 1)]

\* However often it has wrapped, the buffer read from head is the newest
\* Capacity frames since the last clear, in order, and total_pushed counts the
\* pushes since then (push, clear).  That is what the code does: its comment
\* (ring_buffer.rs:47) has total_pushed() count "over its lifetime", which ends
\* being true with the first clear.
RingHoldsNewest == Ordered(head) = Newest(pushed, Capacity) /\ total = Len(pushed)

\* The copy of head a snapshot took is still the head while it indexes the
\* buffer with it: the read guard on the buffer keeps every writer out
\* although the guard on head is gone.
SnapshotHeadIsCurrent ==
  \A t \in Threads : call[t].op = "snapshot" /\ stage[t] = 2 => seenHead[t] = head

\* Threads inside calls never wait for each other in a ring: one of them
\* can always take its next lock or run its body.
SomeCallProceeds ==
  LET inCall == {t \in Threads : call[t] # Idle}
  IN inCall # {} =>
       \E t \in inCall : \/ stage[t] = Len(LockOrder(call[t].op))
                         \/ MayTake(t, LockOrder(call[t].op)[stage[t] + 1])

\* Every call behaves as one atomic step of the abstract log, which forgets at
\* each clear what was pushed before, the count included.
ImplementsLog == LogSpec
=============================================================================
