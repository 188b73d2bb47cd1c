--------------------------- MODULE CanopenStudioProofs ---------------------------
(* What the window, its timers and the heartbeat consumer promise for any     *)
(* nodes, foreign frames, trace limit, boxes on the screen, clocks and        *)
(* intervals. First the heartbeat consumer.                                   *)
EXTENDS CanopenStudio, NmtMaster, StudioTimers, FiniteSetTheorems, SequenceTheorems, WellFoundedInduction, TLAPS

MasterTypeOK == /\ lastSeen \in [Nodes -> Nat]
                /\ interval \in [Nodes -> Nat \cup {NoInterval}]
                /\ reports \in [Nodes -> Nat]
                /\ grounds \in [Nodes -> [silent : Int, interval : Nat]]
                /\ state = [n \in Nodes |-> state[n]]

\* A node is marked when its silence has been reported, and had been silent then.
Faithful(n) == /\ reports[n] = IF n \in timedOut THEN 1 ELSE 0
               /\ reports[n] = 1 => 2 * grounds[n].silent > 3 * grounds[n].interval
               /\ n \in timedOut => n \in gone

MasterInv == MasterTypeOK /\ told = state /\ \A n \in Nodes : Faithful(n)

\* More than an interval and half of it, rounded down, is more than one and a half.
LEMMA GraceIsHalf ==
  ASSUME NEW silent \in Int, NEW grace \in Nat, silent > grace + grace \div 2
  PROVE  2 * silent > 3 * grace
OBVIOUS

\* A new table says nothing of any node, and nothing has been returned.
LEMMA InitFaithful == MasterInit => MasterInv
BY DEF MasterInit, MasterInv, MasterTypeOK, Faithful

\* Setting an interval leaves the marks and the reports alone.
LEMMA IntervalFaithful ==
  ASSUME MasterInv, NEW n \in Nodes, NEW i \in Intervals, SetHeartbeatInterval(n, i)
  PROVE  MasterInv'
BY TimesAssumption DEF MasterInv, MasterTypeOK, Faithful, SetHeartbeatInterval, returned

\* A heartbeat ends the silence and returns the state if it is another one.
LEMMA FrameFaithful ==
  ASSUME MasterInv, NEW n \in Nodes, NEW byte \in Bytes, NEW stamp \in Stamps,
         ProcessFrame(n, byte, stamp)
  PROVE  MasterInv'
<1>1. MasterTypeOK'
  BY TimesAssumption DEF MasterInv, MasterTypeOK, ProcessFrame, Heard
<1>2. told' = state'
  <2>1. CASE StateOf(byte) = state[n]
    <3>1. [state EXCEPT ![n] = StateOf(byte)] = state
      BY <2>1 DEF MasterInv, MasterTypeOK
    <3> QED BY <2>1, <3>1 DEF MasterInv, ProcessFrame, Heard
  <2>2. CASE StateOf(byte) # state[n]
    BY <2>2 DEF MasterInv, ProcessFrame, Heard
  <2> QED BY <2>1, <2>2
<1>3. ASSUME NEW m \in Nodes PROVE Faithful(m)'
  BY DEF MasterInv, MasterTypeOK, Faithful, ProcessFrame, Heard
<1> QED BY <1>1, <1>2, <1>3 DEF MasterInv

\* A check reports and marks the late nodes, which had not been marked.
LEMMA CheckFaithful ==
  ASSUME MasterInv, NEW now \in Stamps, CheckTimeouts(now)
  PROVE  MasterInv'
<1>1. now \in Nat
  BY TimesAssumption
<1>2. ASSUME NEW n \in Nodes, Late(n, now)
      PROVE  /\ interval[n] \in Nat /\ now - lastSeen[n] \in Int
             /\ 2 * (now - lastSeen[n]) > 3 * interval[n]
  BY <1>1, <1>2, GraceIsHalf DEF MasterInv, MasterTypeOK, Late
<1>3. MasterTypeOK'
  BY <1>2 DEF MasterInv, MasterTypeOK, CheckTimeouts
<1>4. ASSUME NEW m \in Nodes PROVE Faithful(m)'
  <2>1. CASE Late(m, now)
    <3>1. reports[m] = 0
      BY <2>1 DEF MasterInv, Faithful, Late
    <3> QED BY <2>1, <3>1, <1>2 DEF Faithful, CheckTimeouts
  <2>2. CASE ~ Late(m, now)
    BY <2>2 DEF MasterInv, MasterTypeOK, Faithful, CheckTimeouts
  <2> QED BY <2>1, <2>2
<1> QED BY <1>3, <1>4 DEF MasterInv, CheckTimeouts

\* The invariant is the property, said of the table.
LEMMA FaithfulIsTrue == MasterInv => ReportsAreTrue
BY DEF MasterInv, Faithful, ReportsAreTrue, ActiveNodes

\* What process_frame and check_timeouts return is true, and a caller that keeps
\* only that never takes a node for active that the table does not (nmt.rs).
THEOREM ReportsStayTrue == MasterSpec => []ReportsAreTrue
<1>1. MasterInv /\ [MasterNext]_master => MasterInv'
  <2> SUFFICES ASSUME MasterInv, [MasterNext]_master PROVE MasterInv'
    OBVIOUS
  <2>1. ASSUME NEW n \in Nodes, NEW i \in Intervals, SetHeartbeatInterval(n, i)
        PROVE  MasterInv'
    BY <2>1, IntervalFaithful
  <2>2. ASSUME NEW n \in Nodes, NEW byte \in Bytes, NEW stamp \in Stamps,
               ProcessFrame(n, byte, stamp)
        PROVE  MasterInv'
    BY <2>2, FrameFaithful
  <2>3. ASSUME NEW now \in Stamps, CheckTimeouts(now) PROVE MasterInv'
    BY <2>3, CheckFaithful
  <2>4. CASE UNCHANGED master
    BY <2>4 DEF master, returned, MasterInv, MasterTypeOK, Faithful
  <2> QED BY <2>1, <2>2, <2>3, <2>4 DEF MasterNext
<1> QED BY <1>1, InitFaithful, FaithfulIsTrue, PTL DEF MasterSpec
-----------------------------------------------------------------------------
(* The timers of the window, however many boxes stand on the screen. *)
TimersTypes ==
  /\ link \in {"none", "can", "elm"} /\ bus \in BOOLEAN
  /\ timer \in [Timers -> 0..3] /\ pending \in [Timers -> SUBSET (1..3)]
  /\ boxes \in Seq(Timers \cup {User, Opening})
  /\ loops \in [Loops -> Nat]

\* A timer has one tick to come, or stands in one box, or is off.
Chained(k) ==
  /\ pending[k] \subseteq {timer[k]}
  /\ \A i, j \in 1..Len(boxes) : boxes[i] = k /\ boxes[j] = k => i = j
  /\ pending[k] # {} => \A i \in 1..Len(boxes) : boxes[i] # k

Adopted == \A i \in 1..Len(boxes) : boxes[i] # Opening

LoopsInv == Adopted => /\ link = "can" => loops["watch"] > 0
                       /\ bus => loops["refresh"] > 0

TimersInv == TimersTypes /\ (\A k \in Timers : Chained(k)) /\ LoopsInv

\* Everything is off.
LEMMA InitTimers == TimersInit => TimersInv
<1> SUFFICES ASSUME TimersInit PROVE TimersInv
  OBVIOUS
<1>1. TimersTypes
  <2>1. 0 \in 0..3 /\ NoTick \in 0..3 /\ {} \in SUBSET (1..3) /\ 0 \in Nat
    BY DEF NoTick
  <2>2. timer \in [Timers -> 0..3] /\ pending \in [Timers -> SUBSET (1..3)]
    BY <2>1 DEF TimersInit
  <2>3. boxes \in Seq(Timers \cup {User, Opening})
    BY DEF TimersInit
  <2>4. loops \in [Loops -> Nat]
    BY <2>1 DEF TimersInit
  <2> QED BY <2>2, <2>3, <2>4 DEF TimersInit, TimersTypes
<1>2. ASSUME NEW k \in Timers PROVE Chained(k)
  BY DEF TimersInit, Chained
<1>3. LoopsInv
  BY DEF TimersInit, LoopsInv
<1> QED BY <1>1, <1>2, <1>3 DEF TimersInv

\* Of three ids, one is neither pending nor the last.
LEMMA UnusedId ==
  ASSUME NEW k \in Timers, timer \in [Timers -> 0..3], NEW p, p[k] = {}
  PROVE  Unused(k, p) \in 1..3
<1>1. \E i \in 1..3 : i \notin p[k] \cup {timer[k]}
  <2>1. 1 \in 1..3 /\ 2 \in 1..3
    OBVIOUS
  <2> QED BY <2>1
<1> QED BY <1>1 DEF Unused

\* What may become of the timers, seen one by one.
TimerMoves(k, p) ==
  /\ timer' \in [Timers -> 0..3] /\ pending' \in [Timers -> SUBSET (1..3)]
  /\ \A j \in Timers \ {k} : timer'[j] = timer[j] /\ pending'[j] = pending[j]

\* A timer that is neither pending nor in a box is armed with one id.
LEMMA ArmedOnce ==
  ASSUME TimersTypes, NEW k \in Timers, NEW p \in [Timers -> SUBSET (1..3)],
         p[k] = {}, \A j \in Timers \ {k} : p[j] = pending[j], Arms(k, p)
  PROVE  TimerMoves(k, p) /\ pending'[k] = {timer'[k]}
<1> DEFINE id == Unused(k, p)
<1>1. id \in 1..3
  BY UnusedId DEF TimersTypes
<1> HIDE DEF id
<1>2. /\ timer' = [timer EXCEPT ![k] = id]
      /\ pending' = [p EXCEPT ![k] = p[k] \cup {id}]
  BY DEF Arms, id
<1>3. timer' \in [Timers -> 0..3] /\ timer'[k] = id
      /\ \A j \in Timers \ {k} : timer'[j] = timer[j]
  BY <1>1, <1>2 DEF TimersTypes
<1>4. pending' \in [Timers -> SUBSET (1..3)] /\ pending'[k] = {id}
      /\ \A j \in Timers \ {k} : pending'[j] = pending[j]
  BY <1>1, <1>2
<1> QED BY <1>3, <1>4 DEF TimerMoves

\* One tick: the timer goes on, stands in a box, or gives up.
LEMMA TickChains ==
  ASSUME TimersTypes, \A j \in Timers : Chained(j), NEW k \in Timers,
         NEW p \in [Timers -> SUBSET (1..3)], p[k] = {},
         \A j \in Timers \ {k} : p[j] = pending[j],
         \A i \in 1..Len(boxes) : boxes[i] # k, Tick(k, p),
         UNCHANGED <<link, bus, loops>>
  PROVE  TimersTypes' /\ (\A j \in Timers : Chained(j)') /\ (Adopted' => Adopted)
<1>1. ASSUME TimerMoves(k, p), UNCHANGED boxes, pending'[k] \subseteq {timer'[k]}
      PROVE  TimersTypes' /\ (\A j \in Timers : Chained(j)') /\ (Adopted' => Adopted)
  <2>1. TimersTypes' /\ (Adopted' => Adopted)
    BY <1>1 DEF TimersTypes, TimerMoves, Adopted
  <2>2. Chained(k)'
    BY <1>1 DEF Chained
  <2>3. ASSUME NEW j \in Timers, j # k PROVE Chained(j)'
    BY <1>1, <2>3 DEF Chained, TimerMoves
  <2> QED BY <2>1, <2>2, <2>3
<1>2. CASE Arms(k, p) /\ UNCHANGED boxes
  <2>1. TimerMoves(k, p) /\ pending'[k] = {timer'[k]}
    BY <1>2, ArmedOnce
  <2> QED BY <1>1, <1>2, <2>1
<1>3. CASE Boxed(k, p)
  <2>1. /\ boxes' \in Seq(Timers \cup {User, Opening}) /\ Len(boxes') = Len(boxes) + 1
        /\ boxes'[Len(boxes) + 1] = k /\ \A i \in 1..Len(boxes) : boxes'[i] = boxes[i]
    BY <1>3 DEF TimersTypes, Boxed
  <2>2. TimersTypes'
    BY <1>3, <2>1 DEF TimersTypes, Boxed
  <2>3. Chained(k)'
    BY <1>3, <2>1 DEF TimersTypes, Chained, Boxed
  <2>4. ASSUME NEW j \in Timers, j # k PROVE Chained(j)'
    <3>1. pending'[j] = pending[j] /\ timer'[j] = timer[j]
      BY <1>3, <2>4 DEF Boxed
    <3>2. \A i \in 1..Len(boxes') : boxes'[i] = j => i \in 1..Len(boxes) /\ boxes[i] = j
      BY <2>1, <2>4 DEF TimersTypes
    <3> QED BY <3>1, <3>2 DEF Chained
  <2>5. Adopted' => Adopted
    BY <2>1 DEF TimersTypes, Adopted
  <2> QED BY <2>2, <2>3, <2>4, <2>5
<1>4. CASE /\ timer' = [timer EXCEPT ![k] = NoTick]
           /\ pending' = [p EXCEPT ![k] = @ \ {timer[k]}]
           /\ UNCHANGED boxes
  <2>1. TimerMoves(k, p) /\ pending'[k] = {}
    BY <1>4 DEF TimersTypes, TimerMoves, NoTick
  <2> QED BY <1>1, <1>4, <2>1
<1> QED BY <1>2, <1>3, <1>4 DEF Tick

\* A pending tick fires, inside a box or not.
LEMMA FiresChains ==
  ASSUME TimersInv, NEW k \in Timers, Fires(k)
  PROVE  TimersInv'
<1>1. PICK id \in pending[k] : Tick(k, [pending EXCEPT ![k] = @ \ {id}])
  BY DEF Fires
<1> DEFINE p == [pending EXCEPT ![k] = @ \ {id}]
<1>2. /\ p \in [Timers -> SUBSET (1..3)] /\ p[k] = {}
      /\ \A j \in Timers \ {k} : p[j] = pending[j]
  BY DEF TimersInv, TimersTypes, Chained
<1>3. \A i \in 1..Len(boxes) : boxes[i] # k
  BY DEF TimersInv, Chained
<1>4. UNCHANGED <<link, bus, loops>>
  BY DEF Fires
<1>5. Tick(k, p)
  BY <1>1
<1> HIDE DEF p
<1>6. TimersTypes' /\ (\A j \in Timers : Chained(j)') /\ (Adopted' => Adopted)
  BY <1>2, <1>3, <1>4, <1>5, TickChains DEF TimersInv
<1> QED BY <1>4, <1>6 DEF TimersInv, LoopsInv

\* The timers of ks are off, and have nothing pending.
LEMMA CancelledChains ==
  ASSUME TimersTypes, \A j \in Timers : Chained(j), NEW ks \in SUBSET Timers, Cancelled(ks),
         UNCHANGED boxes, link' \in {"none", "can", "elm"}, bus' \in BOOLEAN, UNCHANGED loops
  PROVE  TimersTypes' /\ \A j \in Timers : Chained(j)'
<1>1. TimersTypes'
  BY DEF TimersTypes, Cancelled, NoTick
<1>2. ASSUME NEW j \in Timers PROVE Chained(j)'
  <2>1. CASE j \in ks
    <3>1. pending'[j] = {}
      BY <2>1 DEF Cancelled, Chained
    <3> QED BY <3>1 DEF Chained
  <2>2. CASE j \notin ks
    BY <2>2 DEF Chained, Cancelled
  <2> QED BY <2>1, <2>2
<1> QED BY <1>1, <1>2

\* The user's click, with no box on the screen.
LEMMA ToggleChains ==
  ASSUME TimersInv, NEW k \in Timers, Toggle(k)
  PROVE  TimersInv'
<1>1. boxes = <<>> /\ Len(boxes) = 0 /\ Adopted /\ UNCHANGED <<link, bus, loops>>
  BY DEF Toggle, Adopted
<1>2. CASE timer[k] # NoTick /\ Cancelled({k}) /\ UNCHANGED boxes
  <2>1. link' \in {"none", "can", "elm"} /\ bus' \in BOOLEAN /\ {k} \in SUBSET Timers
    BY <1>1 DEF TimersInv, TimersTypes
  <2>2. TimersTypes' /\ \A j \in Timers : Chained(j)'
    BY <1>1, <1>2, <2>1, CancelledChains DEF TimersInv
  <2> QED BY <1>1, <2>2 DEF TimersInv, LoopsInv
<1>3. CASE timer[k] = NoTick /\ Tick(k, pending)
  <2>1. pending \in [Timers -> SUBSET (1..3)] /\ pending[k] = {}
    BY <1>3 DEF TimersInv, TimersTypes, Chained, NoTick
  <2>2. TimersTypes' /\ \A j \in Timers : Chained(j)'
    BY <1>1, <1>3, <2>1, TickChains DEF TimersInv
  <2> QED BY <1>1, <2>2 DEF TimersInv, LoopsInv
<1>4. CASE boxes' = <<User>> /\ UNCHANGED <<timer, pending>>
  BY <1>1, <1>4 DEF TimersInv, TimersTypes, Chained, LoopsInv, Timers, User, Opening
<1> QED BY <1>2, <1>3, <1>4 DEF Toggle

\* The last box is dismissed; a tick that stood in it arms the next.
LEMMA DismissChains ==
  ASSUME TimersInv, Dismiss
  PROVE  TimersInv'
<1>1. /\ boxes \in Seq(Timers \cup {User, Opening}) /\ Len(boxes) \in Nat \ {0}
      /\ boxes' = [i \in 1..(Len(boxes) - 1) |-> boxes[i]] /\ UNCHANGED <<link, bus>>
  BY DEF TimersInv, TimersTypes, Dismiss, Front
<1>2. /\ boxes' \in Seq(Timers \cup {User, Opening}) /\ Len(boxes') = Len(boxes) - 1
      /\ \A i \in 1..Len(boxes') : i \in 1..Len(boxes) /\ boxes'[i] = boxes[i]
  BY <1>1
<1>3. /\ Last(boxes) = boxes[Len(boxes)] /\ Len(boxes) \in 1..Len(boxes)
      /\ Len(boxes) \notin 1..Len(boxes')
      /\ \A i \in 1..Len(boxes) : i = Len(boxes) \/ i \in 1..Len(boxes')
  BY <1>1, <1>2 DEF Last
<1>6. Last(boxes) # Opening => (Adopted' => Adopted)
  BY <1>2, <1>3 DEF Adopted
<1>4. CASE Last(boxes) = User /\ UNCHANGED <<timer, pending, loops>>
  <2>1. TimersTypes' /\ \A k \in Timers : Chained(k)'
    BY <1>1, <1>2, <1>4 DEF TimersInv, TimersTypes, Chained
  <2>2. LoopsInv'
    BY <1>1, <1>4, <1>6 DEF TimersInv, LoopsInv, User, Opening
  <2> QED BY <2>1, <2>2 DEF TimersInv
<1>7. CASE Last(boxes) = Opening /\ Starts /\ UNCHANGED <<timer, pending>>
  <2>1. /\ loops' \in [Loops -> Nat] /\ loops'["watch"] > 0
        /\ bus => loops'["refresh"] > 0
    BY <1>7 DEF TimersInv, TimersTypes, Starts, Loops
  <2>2. TimersTypes' /\ \A k \in Timers : Chained(k)'
    BY <1>1, <1>2, <1>7, <2>1 DEF TimersInv, TimersTypes, Chained
  <2> QED BY <1>1, <2>1, <2>2 DEF TimersInv, LoopsInv
<1>5. CASE Last(boxes) \in Timers /\ Arms(Last(boxes), pending) /\ UNCHANGED loops
  <2>1. PICK k \in Timers : k = Last(boxes)
    BY <1>5
  <2>2. pending \in [Timers -> SUBSET (1..3)] /\ pending[k] = {}
    BY <1>3, <2>1 DEF TimersInv, TimersTypes, Chained
  <2>3. TimerMoves(k, pending) /\ pending'[k] = {timer'[k]}
    BY <1>5, <2>1, <2>2, ArmedOnce DEF TimersInv
  <2>4. TimersTypes'
    BY <1>1, <1>2, <1>5, <2>3 DEF TimersInv, TimersTypes, TimerMoves
  <2>5. Chained(k)'
    <3>2. \A i, j \in 1..Len(boxes) : boxes[i] = k /\ boxes[j] = k => i = j
      BY ZenonT(60) DEF TimersInv, Chained
    <3>3. boxes[Len(boxes)] = k
      BY <1>3, <2>1
    <3>4. ASSUME NEW i \in 1..Len(boxes'), boxes'[i] = k PROVE FALSE
      <4>1. i \in 1..Len(boxes) /\ boxes[i] = k
        BY <1>2, <3>4
      <4>2. i = Len(boxes)
        BY <1>3, <3>2, <3>3, <4>1, ZenonT(60)
      <4> QED BY <1>3, <3>4, <4>2, ZenonT(60)
    <3>1. \A i \in 1..Len(boxes') : boxes'[i] # k
      BY <3>4, ZenonT(60)
    <3> QED BY <2>3, <3>1 DEF Chained
  <2>6. ASSUME NEW j \in Timers, j # k PROVE Chained(j)'
    BY <1>2, <2>3, <2>6 DEF TimersInv, Chained, TimerMoves
  <2>7. LoopsInv'
    BY <1>1, <1>5, <1>6 DEF TimersInv, LoopsInv, Timers, Opening
  <2> QED BY <2>4, <2>5, <2>6, <2>7 DEF TimersInv
<1> QED BY <1>4, <1>5, <1>7 DEF Dismiss

\* Connections begin and end, loops look, agents ask: no timer is armed by that.
LEMMA LinkChains ==
  ASSUME TimersInv,
         \/ \E g \in Loops : LoopFires(g)
         \/ \E kind \in {"can", "elm"} : LinkOpened(kind)
         \/ SendOnceFails \/ AgentDisconnects \/ Disconnect
  PROVE  TimersInv'
<1>1. ASSUME NEW g \in Loops, LoopFires(g) PROVE TimersInv'
  <2>1. /\ loops' \in [Loops -> Nat] /\ UNCHANGED <<link, bus, timer, pending, boxes>>
        /\ link = "can" => loops'["watch"] = loops["watch"]
        /\ bus => loops'["refresh"] = loops["refresh"]
    BY <1>1 DEF TimersInv, TimersTypes, LoopFires, Loops
  <2> QED BY <2>1 DEF TimersInv, TimersTypes, Chained, LoopsInv, Adopted
<1>2. ASSUME NEW kind \in {"can", "elm"}, LinkOpened(kind) PROVE TimersInv'
  <2>1. /\ link' = kind /\ bus' = (bus \/ kind = "can") /\ UNCHANGED <<timer, pending>>
    BY <1>2 DEF LinkOpened
  <2>2. CASE kind = "can" /\ loops' = [g \in Loops |-> loops[g] + 1] /\ UNCHANGED boxes
    <3>1. loops' \in [Loops -> Nat] /\ loops'["watch"] > 0 /\ loops'["refresh"] > 0
      BY <2>2 DEF TimersInv, TimersTypes, Loops
    <3> QED BY <2>1, <2>2, <3>1 DEF TimersInv, TimersTypes, Chained, LoopsInv
  <2>3. CASE boxes' = Append(boxes, Opening) /\ UNCHANGED loops
    <3>1. /\ boxes' \in Seq(Timers \cup {User, Opening}) /\ Len(boxes') = Len(boxes) + 1
          /\ boxes'[Len(boxes) + 1] = Opening
          /\ \A i \in 1..Len(boxes) : boxes'[i] = boxes[i]
      BY <2>3 DEF TimersInv, TimersTypes
    <3>2. ~ Adopted'
      BY <3>1 DEF TimersInv, TimersTypes, Adopted
    <3>3. TimersTypes'
      BY <2>1, <2>3, <3>1 DEF TimersInv, TimersTypes
    <3>4. ASSUME NEW j \in Timers PROVE Chained(j)'
      <4>1. \A i \in 1..Len(boxes') : boxes'[i] = j => i \in 1..Len(boxes) /\ boxes[i] = j
        BY <3>1 DEF TimersInv, TimersTypes, Timers, Opening
      <4> QED BY <2>1, <4>1 DEF TimersInv, Chained
    <3> QED BY <3>2, <3>3, <3>4 DEF TimersInv, LoopsInv
  <2>4. CASE kind = "elm" /\ UNCHANGED <<boxes, loops>>
    BY <2>1, <2>4 DEF TimersInv, TimersTypes, Chained, LoopsInv, Adopted
  <2> QED BY <1>2, <2>2, <2>3, <2>4 DEF LinkOpened
<1>3. CASE SendOnceFails
  <2>1. /\ boxes = <<>> /\ boxes' = <<User>> /\ Adopted
        /\ UNCHANGED <<link, bus, timer, pending, loops>>
    BY <1>3 DEF SendOnceFails, Adopted
  <2> QED BY <2>1 DEF TimersInv, TimersTypes, Chained, LoopsInv, Timers, User, Opening
<1>4. CASE AgentDisconnects
  BY <1>4 DEF TimersInv, TimersTypes, Chained, LoopsInv, Adopted, AgentDisconnects
<1>5. CASE Disconnect
  <2>1. /\ Cancelled({k \in Timers : timer[k] # NoTick}) /\ UNCHANGED <<boxes, loops>>
        /\ link' = "none" /\ bus' = FALSE
        /\ {k \in Timers : timer[k] # NoTick} \in SUBSET Timers
    BY <1>5 DEF Disconnect
  <2>2. TimersTypes' /\ \A j \in Timers : Chained(j)'
    BY <2>1, CancelledChains DEF TimersInv
  <2> QED BY <2>1, <2>2 DEF TimersInv, LoopsInv
<1> QED BY <1>1, <1>2, <1>3, <1>4, <1>5

\* Each timer ticks in one chain, whatever fires inside a message box.
LEMMA ChainsHand == TimersInv => TimersInHand
<1> SUFFICES ASSUME TimersInv PROVE TimersInHand
  OBVIOUS
<1>1. ASSUME NEW k \in Timers
      PROVE  Cardinality(pending[k]) + Cardinality(Standing(k)) <= 1
  <2>1. DOMAIN boxes = 1..Len(boxes) /\ Chained(k)
    BY DEF TimersInv, TimersTypes
  <2>2. ASSUME NEW S, S = {} \/ \E x : S = {x}
        PROVE  Cardinality(S) \in {0, 1} /\ (S = {} => Cardinality(S) = 0)
    BY <2>2, FS_EmptySet, FS_Singleton
  <2>3. /\ pending[k] = {} \/ \E x : pending[k] = {x}
        /\ Standing(k) = {} \/ \E x : Standing(k) = {x}
        /\ pending[k] = {} \/ Standing(k) = {}
    BY <2>1 DEF Chained, Standing
  <2>4. /\ Cardinality(pending[k]) \in {0, 1} /\ Cardinality(Standing(k)) \in {0, 1}
        /\ Cardinality(pending[k]) = 0 \/ Cardinality(Standing(k)) = 0
    BY <2>2, <2>3
  <2> QED BY <2>4
<1>2. \A k \in Timers : pending[k] \subseteq {timer[k]}
  BY DEF TimersInv, Chained
<1>3. Standing(Opening) = {} => Adopted
  BY DEF TimersInv, TimersTypes, Standing, Adopted
<1> QED BY <1>1, <1>2, <1>3 DEF TimersInHand, TimersInv, LoopsInv

\* A timer is armed, or stands in a message box, or is off, and its button and
\* _disconnect cancel the tick there is; a connection has its loops, or a box
\* that starts them when it is dismissed (gui.py).
\* See TimersInHand.
THEOREM TimersStayInHand == TimersSpec => []TimersInHand
<1>1. TimersInv /\ [TimersNext]_timers => TimersInv'
  <2> SUFFICES ASSUME TimersInv, [TimersNext]_timers PROVE TimersInv'
    OBVIOUS
  <2>1. CASE UNCHANGED timers
    BY <2>1 DEF timers, TimersInv, TimersTypes, Chained, LoopsInv, Adopted
  <2>2. CASE TimersNext
    BY <2>2, ToggleChains, FiresChains, DismissChains, LinkChains DEF TimersNext
  <2> QED BY <2>1, <2>2
<1> QED BY <1>1, InitTimers, ChainsHand, PTL DEF TimersSpec
-----------------------------------------------------------------------------
(* Sequences of whatever. *)
IsSequence(s) == \E S : s \in Seq(S)

\* What Append does to a sequence.
LEMMA SequenceGrows ==
  ASSUME NEW s, IsSequence(s), NEW e
  PROVE  /\ IsSequence(Append(s, e)) /\ Len(s) \in Nat /\ Len(Append(s, e)) = Len(s) + 1
         /\ \A i \in 1..Len(s) : Append(s, e)[i] = s[i]
         /\ Append(s, e)[Len(s) + 1] = e
<1>1. PICK S : s \in Seq(S)
  BY DEF IsSequence
<1>2. s \in Seq(S \cup {e}) /\ e \in S \cup {e}
  BY <1>1
<1>3. Append(s, e) \in Seq(S \cup {e})
  BY <1>2
<1> QED BY <1>2, <1>3 DEF IsSequence

\* An element of a joined sequence is one of the parts'.
LEMMA SequencesJoin ==
  ASSUME NEW s, IsSequence(s), NEW t, IsSequence(t)
  PROVE  /\ IsSequence(s \o t)
         /\ \A i \in 1..Len(s \o t) : \/ \E j \in 1..Len(s) : (s \o t)[i] = s[j]
                                      \/ \E j \in 1..Len(t) : (s \o t)[i] = t[j]
<1>1. PICK S : s \in Seq(S)
  BY DEF IsSequence
<1>2. PICK T : t \in Seq(T)
  BY DEF IsSequence
<1>3. s \in Seq(S \cup T) /\ t \in Seq(S \cup T)
  BY <1>1, <1>2
<1>4. s \o t \in Seq(S \cup T) /\ Len(s \o t) = Len(s) + Len(t)
      /\ Len(s) \in Nat /\ Len(t) \in Nat
  BY <1>3
<1>5. ASSUME NEW i \in 1..Len(s \o t)
      PROVE  \/ \E j \in 1..Len(s) : (s \o t)[i] = s[j]
             \/ \E j \in 1..Len(t) : (s \o t)[i] = t[j]
  <2>1. CASE i <= Len(s)
    BY <1>3, <1>4, <2>1
  <2>2. CASE i > Len(s)
    <3>1. (s \o t)[i] = t[i - Len(s)] /\ i - Len(s) \in 1..Len(t)
      BY <1>3, <1>4, <2>2
    <3> QED BY <3>1
  <2> QED BY <1>4, <2>1, <2>2
<1> QED BY <1>4, <1>5 DEF IsSequence

\* What is left of a sequence without its head.
LEMMA SequenceLeft ==
  ASSUME NEW s, IsSequence(s), s # <<>>
  PROVE  /\ IsSequence(Tail(s)) /\ Head(s) = s[1] /\ 1 \in 1..Len(s)
         /\ \A i \in 1..Len(Tail(s)) : i + 1 \in 1..Len(s) /\ Tail(s)[i] = s[i + 1]
<1>1. PICK S : s \in Seq(S)
  BY DEF IsSequence
<1>2. Tail(s) \in Seq(S) /\ Len(s) \in Nat \ {0} /\ Len(Tail(s)) = Len(s) - 1
  BY <1>1
<1> QED BY <1>1, <1>2 DEF IsSequence

\* What Newest returns is the end of its argument.
LEMMA NewestIsTheEnd ==
  ASSUME NEW s, IsSequence(s), NEW n \in Nat \ {0}
  PROVE  /\ IsSequence(Newest(s, n)) /\ Len(s) \in Nat
         /\ Len(Newest(s, n)) = IF Len(s) > n THEN n ELSE Len(s)
         /\ DOMAIN Newest(s, n) = 1..Len(Newest(s, n))
         /\ \A i \in 1..Len(Newest(s, n)) : Newest(s, n)[i] = s[Len(s) - Len(Newest(s, n)) + i]
<1>1. PICK S : s \in Seq(S)
  BY DEF IsSequence
<1> DEFINE first == IF Len(s) > n THEN Len(s) - n + 1 ELSE 1
<1>2. Len(s) \in Nat /\ first \in Nat /\ first >= 1 /\ first <= Len(s) + 1
  BY <1>1
<1>3. Newest(s, n) = SubSeq(s, first, Len(s))
  BY DEF Newest
<1> HIDE DEF first
<1>4. /\ SubSeq(s, first, Len(s)) \in Seq(S)
      /\ Len(SubSeq(s, first, Len(s))) = Len(s) - first + 1
      /\ \A i \in 1..(Len(s) - first + 1) : SubSeq(s, first, Len(s))[i] = s[i + first - 1]
  BY <1>1, <1>2
<1>5. Newest(s, n) \in Seq(S) /\ Len(Newest(s, n)) = Len(s) - first + 1
      /\ \A i \in 1..(Len(s) - first + 1) : Newest(s, n)[i] = s[i + first - 1]
  BY <1>3, <1>4
<1>6. Len(s) - first + 1 = IF Len(s) > n THEN n ELSE Len(s)
  BY <1>2 DEF first
<1>7. \A i \in 1..Len(Newest(s, n)) : i + first - 1 = Len(s) - Len(Newest(s, n)) + i
  BY <1>2, <1>5
<1> QED BY <1>2, <1>5, <1>6, <1>7 DEF IsSequence
-----------------------------------------------------------------------------
(* The trace: the capture thread appends, the window puts a shorter list in *)
(* its place.                                                               *)
StatsTypes == stats \in [rx : Nat, tx : Nat]

\* A list whose entries are in the order of the bus, and older than the frame the
\* capture thread is about to append.
Dated(s) ==
  /\ IsSequence(s)
  /\ \A i \in 1..Len(s) : /\ s[i].n \in Nat /\ s[i].n <= stats.rx
                          /\ rx.pc = "append" => s[i].n < stats.rx
  /\ \A i, j \in 1..Len(s) : i < j => s[i].n < s[j].n

\* The end of what was recorded, and as much of it as a trim leaves.
WholeEnd(s, r) ==
  /\ Len(s) <= Len(r) /\ (Len(s) >= Keep \/ Len(s) = Len(r))
  /\ \A i \in 1..Len(s) : s[i] = r[Len(r) - Len(s) + i]

NewestKept ==
  \A k \in 1..Len(recorded) : k > Len(recorded) - Keep =>
    \E j \in 1..Len(captured) : captured[j] = recorded[k]

\* What a refresh has sliced is a whole end even while frames are appended to the
\* list it is about to replace.
TraceInv ==
  /\ StatsTypes /\ IsSequence(recorded) /\ Dated(captured)
  /\ Free => WholeEnd(captured, recorded)
  /\ ~ Free => Dated(refresh.trace) /\ WholeEnd(refresh.trace, recorded) /\ NewestKept

\* Nothing is captured yet.
LEMMA InitTrace == Init => TraceInv
<1> SUFFICES ASSUME Init PROVE TraceInv
  OBVIOUS
<1>1. captured = <<>> /\ recorded = <<>> /\ stats = [rx |-> 0, tx |-> 0] /\ Free
  BY DEF Init, Free
<1>2. <<>> \in Seq({}) /\ Len(<<>>) = 0
  OBVIOUS
<1> QED BY <1>1, <1>2 DEF TraceInv, StatsTypes, Dated, WholeEnd, IsSequence

\* What leaves the lists, the count and the capture thread where they are.
LEMMA TraceLeftAlone ==
  ASSUME TraceInv, UNCHANGED <<captured, recorded, refresh, rx>>, stats'.rx = stats.rx, StatsTypes'
  PROVE  TraceInv'
<1>1. \A s : Dated(s) => /\ IsSequence(s)
                         /\ \A i \in 1..Len(s) : /\ s[i].n \in Nat /\ s[i].n <= stats'.rx
                                                 /\ rx'.pc = "append" => s[i].n < stats'.rx
                         /\ \A i, j \in 1..Len(s) : i < j => s[i].n < s[j].n
  BY DEF Dated
<1>2. Dated(captured)' /\ (~ Free => Dated(refresh.trace)')
  BY <1>1 DEF Dated, TraceInv
<1>3. (Free' <=> Free) /\ (WholeEnd(captured, recorded)' <=> WholeEnd(captured, recorded))
      /\ (WholeEnd(refresh.trace, recorded)' <=> WholeEnd(refresh.trace, recorded))
      /\ (NewestKept' <=> NewestKept)
  BY DEF Free, WholeEnd, NewestKept
<1> QED BY <1>2, <1>3 DEF TraceInv

\* A frame that arrives is newer than all that is in a list.
LEMMA CaptureKeepsTrace == ASSUME TraceInv, Capture PROVE TraceInv'
<1>1. /\ stats' = [stats EXCEPT !.rx = stats.rx + 1] /\ rx.pc = "recv"
      /\ UNCHANGED <<captured, recorded, refresh>>
  BY DEF Capture
<1>2. StatsTypes' /\ stats'.rx = stats.rx + 1 /\ stats.rx \in Nat
  BY <1>1 DEF TraceInv, StatsTypes
<1>3. \A s : Dated(s) => /\ IsSequence(s)
                         /\ \A i \in 1..Len(s) : s[i].n \in Nat /\ s[i].n < stats'.rx
                         /\ \A i, j \in 1..Len(s) : i < j => s[i].n < s[j].n
  BY <1>2 DEF Dated
<1>4. Dated(captured)' /\ (~ Free => Dated(refresh.trace)')
  BY <1>1, <1>2, <1>3 DEF Dated, TraceInv
<1>5. (Free' <=> Free) /\ (WholeEnd(captured, recorded)' <=> WholeEnd(captured, recorded))
      /\ (WholeEnd(refresh.trace, recorded)' <=> WholeEnd(refresh.trace, recorded))
      /\ (NewestKept' <=> NewestKept)
  BY <1>1 DEF Free, WholeEnd, NewestKept
<1> QED BY <1>1, <1>2, <1>4, <1>5 DEF TraceInv

\* An end that grows with what was recorded stays an end of it.
LEMMA EndsGrow ==
  ASSUME NEW r, IsSequence(r), NEW s, IsSequence(s), WholeEnd(s, r), NEW e
  PROVE  WholeEnd(Append(s, e), Append(r, e))
<1>1. /\ Len(s) \in Nat /\ Len(Append(s, e)) = Len(s) + 1
      /\ \A i \in 1..Len(s) : Append(s, e)[i] = s[i]
      /\ Append(s, e)[Len(s) + 1] = e
  BY SequenceGrows
<1>2. /\ Len(r) \in Nat /\ Len(Append(r, e)) = Len(r) + 1
      /\ \A i \in 1..Len(r) : Append(r, e)[i] = r[i]
      /\ Append(r, e)[Len(r) + 1] = e
  BY SequenceGrows
<1>3. ASSUME NEW i \in 1..(Len(s) + 1)
      PROVE  Append(s, e)[i] = Append(r, e)[Len(r) - Len(s) + i]
  <2>1. CASE i \in 1..Len(s)
    <3>1. Len(r) - Len(s) + i \in 1..Len(r)
      BY <1>1, <1>2, <2>1 DEF WholeEnd
    <3> QED BY <1>1, <1>2, <2>1, <3>1 DEF WholeEnd
  <2>2. CASE i = Len(s) + 1
    <3>1. Len(r) - Len(s) + i = Len(r) + 1
      BY <1>1, <1>2, <2>2
    <3> QED BY <1>1, <1>2, <2>2, <3>1
  <2>3. i \in 1..Len(s) \/ i = Len(s) + 1
    BY <1>1
  <2> QED BY <2>1, <2>2, <2>3
<1>4. Len(Append(r, e)) - Len(Append(s, e)) = Len(r) - Len(s)
  BY <1>1, <1>2
<1>5. Len(Append(s, e)) <= Len(Append(r, e))
      /\ (Len(Append(s, e)) >= Keep \/ Len(Append(s, e)) = Len(Append(r, e)))
  BY KeepAssumption, <1>1, <1>2 DEF WholeEnd
<1> QED BY <1>1, <1>3, <1>4, <1>5 DEF WholeEnd

\* The frame goes to the list that is the trace, or to one that no longer is.
LEMMA RecordKeepsTrace == ASSUME TraceInv, Record PROVE TraceInv'
<1> DEFINE entry == [n |-> stats.rx, frame |-> rx.frame]
<1>1. /\ rx.pc = "append" /\ rx'.pc = "recv" /\ UNCHANGED <<stats, refresh>>
      /\ captured' = IF rx.list = list THEN Append(captured, entry) ELSE captured
      /\ recorded' = IF rx.list = list /\ Free THEN Append(recorded, entry) ELSE recorded
  BY DEF Record, Idle, Free
<1>2. entry.n = stats.rx /\ stats.rx \in Nat /\ StatsTypes'
  BY <1>1 DEF TraceInv, StatsTypes
<1> HIDE DEF entry
<1>3. \A s : Dated(s) => /\ IsSequence(s)
                         /\ \A i \in 1..Len(s) : s[i].n \in Nat /\ s[i].n < stats.rx
                         /\ \A i, j \in 1..Len(s) : i < j => s[i].n < s[j].n
  BY <1>1, <1>2 DEF Dated
<1>4. CASE rx.list # list
  <2>1. UNCHANGED <<captured, recorded, refresh>>
    BY <1>1, <1>4
  <2>2. Dated(captured)' /\ (~ Free => Dated(refresh.trace)')
    BY <1>1, <1>2, <1>3, <2>1 DEF Dated, TraceInv
  <2>3. (Free' <=> Free) /\ (WholeEnd(captured, recorded)' <=> WholeEnd(captured, recorded))
        /\ (WholeEnd(refresh.trace, recorded)' <=> WholeEnd(refresh.trace, recorded))
        /\ (NewestKept' <=> NewestKept)
    BY <2>1 DEF Free, WholeEnd, NewestKept
  <2> QED BY <1>2, <2>1, <2>2, <2>3 DEF TraceInv
<1>5. CASE rx.list = list
  <2>1. captured' = Append(captured, entry) /\ IsSequence(captured)
    BY <1>1, <1>5 DEF TraceInv, Dated
  <2>2. /\ IsSequence(captured') /\ Len(captured) \in Nat /\ Len(captured') = Len(captured) + 1
        /\ \A i \in 1..Len(captured) : captured'[i] = captured[i]
        /\ captured'[Len(captured) + 1] = entry
    BY <2>1, SequenceGrows
  <2>3. \A i \in 1..Len(captured') : i \in 1..Len(captured) \/ i = Len(captured) + 1
    BY <2>2
  <2>4. Dated(captured)'
    <3>1. \A i \in 1..Len(captured') : captured'[i].n \in Nat /\ captured'[i].n <= stats'.rx
      BY <1>1, <1>2, <1>3, <2>2, <2>3 DEF TraceInv
    <3>2. ASSUME NEW i \in 1..Len(captured'), NEW j \in 1..Len(captured'), i < j
          PROVE  captured'[i].n < captured'[j].n
      <4>1. i \in 1..Len(captured)
        BY <2>2, <3>2
      <4>2. CASE j \in 1..Len(captured)
        BY <1>3, <2>2, <3>2, <4>1, <4>2 DEF TraceInv
      <4>3. CASE j = Len(captured) + 1
        BY <1>2, <1>3, <2>2, <4>1, <4>3 DEF TraceInv
      <4> QED BY <2>3, <4>2, <4>3
    <3> QED BY <1>1, <2>2, <3>1, <3>2 DEF Dated
  <2>5. CASE Free
    <3>1. recorded' = Append(recorded, entry) /\ Free'
      BY <1>1, <1>5, <2>5 DEF Free
    <3>2. IsSequence(recorded')
      BY <3>1, SequenceGrows DEF TraceInv
    <3>3. WholeEnd(captured, recorded)'
      <4>1. WholeEnd(captured, recorded) /\ IsSequence(captured) /\ IsSequence(recorded)
        BY <2>5 DEF TraceInv, Dated
      <4>2. WholeEnd(Append(captured, entry), Append(recorded, entry))
        BY <4>1, EndsGrow
      <4> QED BY <2>1, <3>1, <4>2
    <3> QED BY <1>2, <2>4, <3>1, <3>2, <3>3 DEF TraceInv
  <2>6. CASE ~ Free
    <3>1. UNCHANGED <<recorded, refresh>> /\ ~ Free'
      BY <1>1, <2>6 DEF Free
    <3>2. Dated(refresh.trace)'
      BY <1>1, <1>2, <1>3, <2>6, <3>1 DEF Dated, TraceInv
    <3>3. WholeEnd(refresh.trace, recorded)'
      BY <2>6, <3>1 DEF WholeEnd, TraceInv
    <3>4. NewestKept'
      <4>1. \A j \in 1..Len(captured) : j \in 1..Len(captured')
        BY <2>2
      <4> QED BY <2>2, <2>6, <3>1, <4>1 DEF NewestKept, TraceInv
    <3> QED BY <1>2, <2>4, <3>1, <3>2, <3>3, <3>4 DEF TraceInv
  <2> QED BY <2>5, <2>6
<1> QED BY <1>4, <1>5

\* A whole end has all the frames a trim keeps.
LEMMA WholeEndKeeps ==
  ASSUME NEW r, IsSequence(r), NEW s, IsSequence(s), WholeEnd(s, r),
         NEW k \in 1..Len(r), k > Len(r) - Keep
  PROVE  \E j \in 1..Len(s) : s[j] = r[k]
<1>1. Len(r) \in Nat /\ Len(s) \in Nat
  BY DEF IsSequence
<1>2. k - (Len(r) - Len(s)) \in 1..Len(s)
  BY KeepAssumption, <1>1 DEF WholeEnd
<1>3. Len(r) - Len(s) + (k - (Len(r) - Len(s))) = k
  BY <1>1
<1> QED BY <1>2, <1>3 DEF WholeEnd

\* A refresh slices the end of the trace.
LEMMA SliceKeepsTrace == ASSUME TraceInv, RefreshSlices PROVE TraceInv'
<1> DEFINE slice == Newest(captured, Keep)
<1>1. /\ Free /\ refresh' = [pc |-> "sliced", trace |-> slice]
      /\ UNCHANGED <<rx, stats, captured, recorded>>
  BY DEF RefreshSlices, tk
<1>2. refresh'.trace = slice /\ ~ Free'
  <2>1. refresh'.trace = slice /\ refresh'.pc = "sliced"
    BY <1>1
  <2> QED BY <2>1 DEF Free, NoList
<1>3. /\ IsSequence(slice) /\ Len(captured) \in Nat /\ Len(recorded) \in Nat
      /\ Len(slice) = IF Len(captured) > Keep THEN Keep ELSE Len(captured)
      /\ \A i \in 1..Len(slice) : slice[i] = captured[Len(captured) - Len(slice) + i]
  BY NewestIsTheEnd, KeepAssumption DEF TraceInv, Dated, IsSequence
<1> HIDE DEF slice
<1>4. \A i \in 1..Len(slice) : Len(captured) - Len(slice) + i \in 1..Len(captured)
  BY <1>3, KeepAssumption
<1>5. Dated(captured)'
  BY <1>1 DEF TraceInv, Dated
<1>6. Dated(refresh.trace)'
  <2>1. \A i \in 1..Len(slice) : /\ slice[i].n \in Nat /\ slice[i].n <= stats.rx
                                 /\ rx.pc = "append" => slice[i].n < stats.rx
    BY <1>3, <1>4 DEF TraceInv, Dated
  <2>2. ASSUME NEW i \in 1..Len(slice), NEW j \in 1..Len(slice), i < j
        PROVE  slice[i].n < slice[j].n
    <3>1. Len(captured) - Len(slice) + i < Len(captured) - Len(slice) + j
      <4>1. Len(slice) \in Nat
        BY <1>3, KeepAssumption
      <4>2. Len(captured) - Len(slice) \in Int /\ i \in Int /\ j \in Int
        BY <1>3, <4>1
      <4> QED BY <2>2, <4>2
    <3> QED BY <1>3, <1>4, <3>1 DEF TraceInv, Dated
  <2> QED BY <1>1, <1>2, <1>3, <2>1, <2>2 DEF Dated
<1>7. WholeEnd(refresh.trace, recorded)'
  <2>1. WholeEnd(captured, recorded)
    BY <1>1 DEF TraceInv
  <2>2. Len(slice) <= Len(recorded) /\ (Len(slice) >= Keep \/ Len(slice) = Len(recorded))
    BY <1>3, <2>1, KeepAssumption DEF WholeEnd
  <2>3. ASSUME NEW i \in 1..Len(slice)
        PROVE  slice[i] = recorded[Len(recorded) - Len(slice) + i]
    <3>1. Len(recorded) - Len(captured) + (Len(captured) - Len(slice) + i)
            = Len(recorded) - Len(slice) + i
      BY <1>3, KeepAssumption
    <3>2. captured[Len(captured) - Len(slice) + i]
            = recorded[Len(recorded) - Len(captured) + (Len(captured) - Len(slice) + i)]
      BY <1>4, <2>1 DEF WholeEnd
    <3> QED BY <1>3, <3>1, <3>2
  <2> QED BY <1>1, <1>2, <2>2, <2>3 DEF WholeEnd
<1>8. NewestKept'
  <2>1. WholeEnd(captured, recorded) /\ IsSequence(captured) /\ IsSequence(recorded)
    BY <1>1 DEF TraceInv, Dated
  <2> QED BY <1>1, <2>1, WholeEndKeeps DEF NewestKept
<1> QED BY <1>1, <1>2, <1>5, <1>6, <1>7, <1>8 DEF TraceInv, StatsTypes

\* What was sliced takes the place of the trace.
LEMMA StoreKeepsTrace == ASSUME TraceInv, RefreshStores PROVE TraceInv'
<1>1. /\ ~ Free /\ captured' = refresh.trace /\ Free' /\ UNCHANGED <<rx, stats, recorded>>
  BY DEF RefreshStores, tk, Free
<1>2. Dated(captured)' /\ WholeEnd(captured, recorded)'
  BY <1>1 DEF TraceInv, Dated, WholeEnd
<1> QED BY <1>1, <1>2 DEF TraceInv, StatsTypes

\* A clear empties the trace, and what it is held to.
LEMMA ClearKeepsTrace == ASSUME TraceInv, ClearTrace PROVE TraceInv'
<1>1. /\ Free' /\ captured' = <<>> /\ recorded' = <<>> /\ UNCHANGED <<rx, stats>>
  BY DEF ClearTrace, tk, Free
<1>2. <<>> \in Seq({}) /\ Len(<<>>) = 0
  OBVIOUS
<1> QED BY <1>1, <1>2 DEF TraceInv, StatsTypes, Dated, WholeEnd, IsSequence

\* Every other step leaves the trace alone.
LEMMA OthersKeepTrace ==
  ASSUME TraceInv,
         \/ NodesReceive \/ Heartbeats \/ TogglePause
         \/ \E rpm \in Speeds : Telemetry(rpm)
         \/ \E f \in Foreign : Others(f)
         \/ \E c \in Commands, n \in Targets : SendNmt(c, n)
         \/ \E o \in Objects : SdoReads(o) \/ CheckSdoReply(o)
         \/ \E o \in Objects, b \in Writes : SdoWrites(o, b)
  PROVE  TraceInv'
<1>1. ASSUME NEW f, Send(f), UNCHANGED refresh
      PROVE  UNCHANGED <<captured, recorded, refresh, rx>> /\ stats'.rx = stats.rx /\ StatsTypes'
  BY <1>1 DEF Send, tk, TraceInv, StatsTypes
<1>2. UNCHANGED <<captured, recorded, refresh, rx>>
  BY DEF NodesReceive, Heartbeats, TogglePause, Telemetry, Others, SendNmt, SdoReads,
         CheckSdoReply, SdoWrites, Send, tk, studio
<1>3. stats'.rx = stats.rx /\ StatsTypes'
  BY DEF NodesReceive, Heartbeats, TogglePause, Telemetry, Others, SendNmt, SdoReads,
         CheckSdoReply, SdoWrites, Send, tk, studio, TraceInv, StatsTypes
<1> QED BY <1>2, <1>3, TraceLeftAlone

\* Whatever is trimmed, paused or cleared, the trace is in order and has the newest
\* frames, as TraceKeepsNewest says.
LEMMA TraceInvKeeps == TraceInv => TraceKeepsNewest
<1> SUFFICES ASSUME TraceInv PROVE TraceKeepsNewest
  OBVIOUS
<1> DEFINE newest == Newest(recorded, Keep)
<1>1. NewestKept
  BY WholeEndKeeps DEF TraceInv, Dated, NewestKept
<1>2. /\ DOMAIN captured = 1..Len(captured) /\ Len(recorded) \in Nat
      /\ DOMAIN newest = 1..Len(newest)
      /\ Len(newest) = IF Len(recorded) > Keep THEN Keep ELSE Len(recorded)
      /\ \A i \in 1..Len(newest) : newest[i] = recorded[Len(recorded) - Len(newest) + i]
  <2>1. IsSequence(captured) /\ IsSequence(recorded)
    BY DEF TraceInv, Dated
  <2>2. DOMAIN captured = 1..Len(captured)
    BY <2>1 DEF IsSequence
  <2> QED BY <2>1, <2>2, NewestIsTheEnd, KeepAssumption
<1> HIDE DEF newest
<1>3. \A i, j \in DOMAIN captured : i < j => captured[i].n < captured[j].n
  BY <1>2 DEF TraceInv, Dated
<1>4. ASSUME NEW i \in DOMAIN newest PROVE \E j \in DOMAIN captured : captured[j] = newest[i]
  <2>1. /\ Len(recorded) - Len(newest) + i \in 1..Len(recorded)
        /\ Len(recorded) - Len(newest) + i > Len(recorded) - Keep
    BY <1>2, KeepAssumption
  <2> QED BY <1>1, <1>2, <2>1 DEF NewestKept
<1> QED BY <1>3, <1>4 DEF TraceKeepsNewest, newest

\* The trace of the window under the capture thread (gui.py _rx_loop and
\* _update_gui_loop), for any trim, traffic and order of their steps: see
\* TraceKeepsNewest.
THEOREM NewestAreKept == Spec => []TraceKeepsNewest
<1>1. TraceInv /\ [Next]_vars => TraceInv'
  <2> SUFFICES ASSUME TraceInv, [Next]_vars PROVE TraceInv'
    OBVIOUS
  <2>1. CASE UNCHANGED vars
    BY <2>1, TraceLeftAlone DEF vars, TraceInv, StatsTypes
  <2>2. CASE Next
    BY <2>2, CaptureKeepsTrace, RecordKeepsTrace, SliceKeepsTrace, StoreKeepsTrace,
       ClearKeepsTrace, OthersKeepTrace DEF Next
  <2> QED BY <2>1, <2>2
<1> QED BY <1>1, InitTrace, TraceInvKeeps, PTL DEF Spec
-----------------------------------------------------------------------------
(* The table of nodes, with either classifier. *)

\* A sequence of frames, each with its identifier.
Numbered(s) == IsSequence(s) /\ \A i \in 1..Len(s) : s[i].cid \in Nat

\* A frame that is the state of a node.
IsBeat(f) == ~ f.ext /\ f.cid \in \h701..\h77F

TableInv ==
  /\ native \in BOOLEAN /\ Numbered(toStudio)
  /\ \A n \in DOMAIN announced : n \in Nat \ {0} /\ n \in DOMAIN discovered \cap DOMAIN nodeStates
  /\ TableShowsLastBeat

\* The blocks of identifiers end before that of the heartbeats.
LEMMA HeartbeatBlock ==
  /\ \E b \in Blocks : b.base = \h700
  /\ \A b \in Blocks :
       /\ b.base = \h700 <=> b.service = "HEARTBEAT"
       /\ b.base \in \h180..\h600 \/ b.base = \h700
       /\ b.base \in Nat /\ b.base > \h100
<1>1. [base |-> \h700, service |-> "HEARTBEAT", pdo |-> None] \in Blocks
  BY DEF Blocks
<1>2. ASSUME NEW b \in Blocks
      PROVE  /\ b.base = \h700 <=> b.service = "HEARTBEAT"
             /\ b.base \in \h180..\h600 \/ b.base = \h700
             /\ b.base \in Nat /\ b.base > \h100
  <2>1. CASE \E n \in 1..4 : b = [base |-> \h180 + 256 * (n - 1), service |-> "TPDO", pdo |-> n]
    BY <2>1
  <2>2. CASE \E n \in 1..4 : b = [base |-> \h200 + 256 * (n - 1), service |-> "RPDO", pdo |-> n]
    BY <2>2
  <2>3. CASE b \in {[base |-> \h580, service |-> "SDO_TX", pdo |-> None],
                    [base |-> \h600, service |-> "SDO_RX", pdo |-> None],
                    [base |-> \h700, service |-> "HEARTBEAT", pdo |-> None]}
    BY <2>3
  <2> QED BY <2>1, <2>2, <2>3 DEF Blocks
<1> QED BY <1>1, <1>2

\* Every class has a service.
LEMMA ClassHasService == \A f, first : "service" \in DOMAIN Classified(f, first)
<1>1. \A s, n, p : "service" \in DOMAIN Class(s, n, p)
  BY DEF Class
<1>2. ASSUME NEW f, NEW first PROVE "service" \in DOMAIN Predefined(f, first)
  BY <1>1 DEF Predefined
<1> QED BY <1>1, <1>2 DEF Classified

\* Both classifiers find the heartbeats, and no others but that of "node 0".
LEMMA HeartbeatsFound ==
  ASSUME NEW f, f.cid \in Nat, NEW first \in {0, 1}
  PROVE  /\ Classified(f, first).service = "HEARTBEAT"
              <=> ~ f.ext /\ f.cid - \h700 \in first..127
         /\ Classified(f, first).service = "HEARTBEAT" => Classified(f, first).node = f.cid - \h700
<1> DEFINE Of == {b \in Blocks : f.cid - b.base \in first..127}
<1>1. CASE f.ext
  BY <1>1 DEF Classified, Class
<1>2. CASE ~ f.ext /\ f.cid <= \h100
  <2>1. f.cid - \h700 \notin first..127
    BY <1>2
  <2>2. \A b \in Blocks : f.cid - b.base \notin first..127
    <3>1. ASSUME NEW b \in Blocks PROVE f.cid - b.base \notin first..127
      <4>1. b.base \in Nat /\ b.base > \h100
        BY HeartbeatBlock
      <4> QED BY <1>2, <4>1
    <3> QED BY <3>1
  <2>3. Predefined(f, first).service \in
          {"NMT_MASTER", "SYNC", "TIME_STAMP", "EMERGENCY", "RAW_CAN"}
    BY <1>2, <2>2 DEF Predefined, Class
  <2> QED BY <1>2, <2>1, <2>3 DEF Classified
<1>3. CASE ~ f.ext /\ f.cid > \h100 /\ Of = {}
  <2>1. f.cid - \h700 \notin first..127
    BY <1>3, HeartbeatBlock
  <2>2. Predefined(f, first).service = "RAW_CAN"
    BY <1>3 DEF Predefined, Class
  <2> QED BY <1>3, <2>1, <2>2 DEF Classified
<1>4. CASE ~ f.ext /\ f.cid > \h100 /\ Of # {}
  <2> DEFINE b == CHOOSE b \in Of : TRUE
  <2>1. b \in Of
    BY <1>4
  <2>2. Predefined(f, first) = Class(b.service, f.cid - b.base, b.pdo)
    BY <1>4 DEF Predefined
  <2> HIDE DEF b
  <2>3. b \in Blocks /\ f.cid - b.base \in first..127
    BY <2>1
  <2>4. Predefined(f, first).service = b.service /\ Predefined(f, first).node = f.cid - b.base
    BY <2>2 DEF Class
  <2>5. b.base = \h700 <=> f.cid - \h700 \in first..127
    <3>1. b.base \in \h180..\h600 => f.cid <= \h600 + 127
      BY <2>3
    <3> QED BY <2>3, <3>1, HeartbeatBlock
  <2> QED BY <1>4, <2>3, <2>4, <2>5, HeartbeatBlock DEF Classified
<1> QED BY <1>1, <1>2, <1>3, <1>4

\* A state is one of five.
LEMMA StateIsOne == \A byte : NmtState(byte) # "none" /\ NmtState(\hFF) = "UNKNOWN"
BY DEF NmtState

\* What is known of the outcome p of parsing the frame f when the layer's own table was
\* `before'.
ParsedWell(before, f, withCore, p) ==
  /\ IsBeat(f) => p.class.service = "HEARTBEAT" /\ p.class.node = f.cid - \h700
  /\ ~ IsBeat(f) => p.class.service # "HEARTBEAT" \/ p.class.node = 0
  /\ DOMAIN before \subseteq DOMAIN p.nodes
  /\ \A n \in DOMAIN before :
       p.nodes[n] = before[n] \/ (IsBeat(f) /\ n = f.cid - \h700) \/ n = 0
  /\ IsBeat(f) /\ f.data # <<>> =>
       /\ f.cid - \h700 \in DOMAIN p.nodes
       /\ p.nodes[f.cid - \h700] = NmtState(f.data[1])
  /\ IsBeat(f) /\ f.data = <<>> =>
       p.nodes = before \/ (withCore /\ p.nodes[f.cid - \h700] = "UNKNOWN")

\* What either classifier makes of a frame, and of the layer's own table.
LEMMA FrameParsed ==
  ASSUME NEW nodes, NEW f, f.cid \in Nat, NEW withCore \in BOOLEAN
  PROVE  ParsedWell(nodes, f, withCore, Process(nodes, f, withCore, "all"))
<1>0. PICK p : p = Process(nodes, f, withCore, "all")
  OBVIOUS
<1> DEFINE seen == IF withCore THEN Native(f) ELSE Fallback(f)
           beats == seen.class.service = "HEARTBEAT" /\ seen.beat # "none"
<1>1. PICK first \in {0, 1} : seen.class = Classified(f, first)
  BY DEF Native, Fallback
<1>2. /\ f.data # <<>> => seen.beat = NmtState(f.data[1])
      /\ f.data = <<>> => seen.beat = IF withCore THEN NmtState(\hFF) ELSE "none"
  BY DEF Native, Fallback
<1>3. /\ p.class = IF f.cid \in CustomIds THEN [seen.class EXCEPT !.service = "TPDO"]
                                          ELSE seen.class
      /\ p.nodes = IF beats THEN Entered(nodes, seen.class.node, seen.beat) ELSE nodes
  BY <1>0 DEF Process
<1> HIDE DEF seen
<1>4. f.cid \in CustomIds => f.cid \notin \h700..\h77F
  BY DEF CustomIds, SevconIds
<1>5. /\ seen.class.service = "HEARTBEAT" <=> ~ f.ext /\ f.cid - \h700 \in first..127
      /\ seen.class.service = "HEARTBEAT" => seen.class.node = f.cid - \h700
  BY <1>1, HeartbeatsFound
<1>6. IsBeat(f) => seen.class.service = "HEARTBEAT"
  BY <1>5 DEF IsBeat
<1>7. seen.class.service = "HEARTBEAT" => IsBeat(f) \/ seen.class.node = 0
  BY <1>5 DEF IsBeat
<1>8. IsBeat(f) => p.class.service = "HEARTBEAT" /\ p.class.node = f.cid - \h700
  BY <1>3, <1>4, <1>5, <1>6 DEF IsBeat
<1>9. ~ IsBeat(f) => p.class.service # "HEARTBEAT" \/ p.class.node = 0
  <2>1. CASE f.cid \in CustomIds
    <3>1. p.class.service = "TPDO"
      <4>1. "service" \in DOMAIN seen.class
        BY <1>1, ClassHasService
      <4> QED BY <1>3, <2>1, <4>1
    <3> QED BY <3>1
  <2>2. CASE f.cid \notin CustomIds
    BY <1>3, <1>7, <2>2
  <2> QED BY <2>1, <2>2
<1>10. ASSUME beats PROVE ParsedWell(nodes, f, withCore, p)
  <2>1. /\ DOMAIN p.nodes = {seen.class.node} \cup DOMAIN nodes
        /\ p.nodes[seen.class.node] = seen.beat
        /\ \A y \in DOMAIN nodes : y # seen.class.node => p.nodes[y] = nodes[y]
    BY <1>3, <1>10 DEF Entered
  <2> QED BY <1>2, <1>5, <1>7, <1>8, <1>9, <1>10, <2>1, StateIsOne DEF ParsedWell
<1>11. ASSUME ~ beats PROVE ParsedWell(nodes, f, withCore, p)
  <2>1. p.nodes = nodes
    BY <1>3, <1>11
  <2>2. IsBeat(f) => f.data = <<>>
    BY <1>2, <1>6, <1>11, StateIsOne
  <2> QED BY <1>8, <1>9, <2>1, <2>2 DEF ParsedWell
<1>12. ParsedWell(nodes, f, withCore, p)
  BY <1>10, <1>11
<1> QED BY <1>0, <1>12

\* Nothing is on the bus, and no node is known.
LEMMA InitTable == Init => TableInv
<1> SUFFICES ASSUME Init PROVE TableInv
  OBVIOUS
<1>1. /\ native \in BOOLEAN /\ toStudio = <<>>
      /\ discovered = NoSignals /\ announced = NoSignals
  BY DEF Init
<1>2. DOMAIN NoSignals = {}
  BY DEF NoSignals
<1>3. <<>> \in Seq({}) /\ Len(<<>>) = 0
  OBVIOUS
<1> QED BY <1>1, <1>2, <1>3 DEF TableInv, Numbered, IsSequence, TableShowsLastBeat

\* What is sent to the studio is a frame with an identifier.
LEMMA NumberedJoin ==
  ASSUME NEW s, Numbered(s), NEW t, Numbered(t)
  PROVE  Numbered(s \o t)
BY SequencesJoin DEF Numbered

\* One more frame with a number leaves a queue numbered.
LEMMA NumberedAppend ==
  ASSUME NEW s, Numbered(s), NEW f, f.cid \in Nat
  PROVE  Numbered(Append(s, f))
<1>1. /\ IsSequence(Append(s, f)) /\ Len(s) \in Nat /\ Len(Append(s, f)) = Len(s) + 1
      /\ \A i \in 1..Len(s) : Append(s, f)[i] = s[i]
      /\ Append(s, f)[Len(s) + 1] = f
  BY SequenceGrows DEF Numbered
<1>2. \A i \in 1..Len(Append(s, f)) : i \in 1..Len(s) \/ i = Len(s) + 1
  BY <1>1
<1> QED BY <1>1, <1>2 DEF Numbered

\* A queue of frames from a set of numbered frames is numbered.
LEMMA NumberedSet ==
  ASSUME NEW S, \A f \in S : f.cid \in Nat, NEW s \in Seq(S)
  PROVE  Numbered(s)
BY DEF Numbered, IsSequence

\* The frames the simulators send.
LEMMA FrameNumbered == \A cid, data : Frame(cid, data).cid = cid
BY DEF Frame

\* An SDO reply has an identifier.
LEMMA ReplyNumbered == \A cs, o, bytes : Reply(cs, o, bytes).cid \in Nat
BY FrameNumbered DEF Reply, Server

\* So have the simulated nodes' heartbeats,
LEMMA BeatsNumbered == Numbered(Beats)
<1> DEFINE b1 == Frame(\h701, <<sim.nmt[1]>>)
           b2 == Frame(\h702, <<sim.nmt[2]>>)
<1>1. Beats \in {<<>>, <<b1>>, <<b1, b2>>}
  BY DEF Beats
<1>2. \A f \in {b1, b2} : f.cid \in Nat
  BY FrameNumbered
<1> HIDE DEF b1, b2
<1>3. <<>> \in Seq({b1, b2}) /\ <<b1>> \in Seq({b1, b2}) /\ <<b1, b2>> \in Seq({b1, b2})
  OBVIOUS
<1> QED BY <1>1, <1>2, <1>3, NumberedSet

\* the process data they send,
LEMMA PdosNumbered == \A rpm : Numbered(Pdos(rpm))
<1> SUFFICES ASSUME NEW rpm PROVE Numbered(Pdos(rpm))
  OBVIOUS
<1> DEFINE f1 == Frame(\h181, <<\h27, 0>>)
           f2 == Frame(\h281, <<\h27, 0>> \o Little(rpm))
           f3 == Frame(\h473, Little(5000) \o Little(rpm))
           f4 == Frame(\h270, <<3, 4, 0, 0, 0, 80, 0, 0>>)
           f5 == Frame(\h156, <<0, 0, 10, 0, 50, 0, 32, 0>>)
<1>1. Pdos(rpm) = <<f1, f2, f3, f4, f5>>
  BY DEF Pdos
<1>2. \A f \in {f1, f2, f3, f4, f5} : f.cid \in Nat
  BY FrameNumbered
<1> HIDE DEF f1, f2, f3, f4, f5
<1>3. <<f1, f2, f3, f4, f5>> \in Seq({f1, f2, f3, f4, f5})
  OBVIOUS
<1> QED BY <1>1, <1>2, <1>3, NumberedSet

\* and what they send to an upload.
LEMMA AnswersNumbered == \A o : Numbered(AnswersUpload(o))
<1> SUFFICES ASSUME NEW o PROVE Numbered(AnswersUpload(o))
  OBVIOUS
<1>1. PICK f : AnswersUpload(o) = <<f>> /\ f.cid \in Nat
  BY ReplyNumbered DEF AnswersUpload
<1>2. <<f>> \in Seq({f}) /\ \A g \in {f} : g.cid \in Nat
  BY <1>1
<1> QED BY <1>1, <1>2, NumberedSet

\* Whoever sends to the studio, the table stays as it is.
LEMMA TableLeftAlone ==
  ASSUME TableInv, Numbered(toStudio)',
         UNCHANGED <<native, announced, discovered, nodeStates>>
  PROVE  TableInv'
BY DEF TableInv, TableShowsLastBeat

\* The simulated nodes answer what they receive.
LEMMA NodesKeepTable == ASSUME TableInv, NodesReceive PROVE TableInv'
<1>1. UNCHANGED <<native, announced, discovered, nodeStates>>
  BY DEF NodesReceive, studio
<1>2. Numbered(toStudio)
  BY DEF TableInv
<1>3. PICK f : ReceivesNmt(f) \/ ReceivesUpload(f) \/ ReceivesDownload(f) \/ Ignores(f)
  BY DEF NodesReceive
<1>4. CASE ReceivesUpload(f)
  <2>1. \/ toStudio' = toStudio \o <<>>
        \/ \E o : toStudio' = toStudio \o AnswersUpload(o)
    <3>1. toStudio' = toStudio \o
            IF Asked(f) = <<\h606C, 0>> /\ sim.rpm = None THEN <<>> ELSE AnswersUpload(Asked(f))
      BY <1>4 DEF ReceivesUpload
    <3>2. CASE Asked(f) = <<\h606C, 0>> /\ sim.rpm = None
      BY <3>1, <3>2
    <3>3. CASE ~ (Asked(f) = <<\h606C, 0>> /\ sim.rpm = None)
      BY <3>1, <3>3
    <3> QED BY <3>2, <3>3
  <2>2. Numbered(<<>>)
    <3>1. <<>> \in Seq({})
      OBVIOUS
    <3> QED BY <3>1, NumberedSet
  <2>3. Numbered(toStudio')
    BY <1>2, <2>1, <2>2, NumberedJoin, AnswersNumbered
  <2> QED BY <1>1, <2>3, TableLeftAlone
<1>5. CASE ReceivesDownload(f)
  <2>1. \/ toStudio' = toStudio
        \/ \E cs, o, bytes : toStudio' = Append(toStudio, Reply(cs, o, bytes))
    BY <1>5 DEF ReceivesDownload
  <2>2. Numbered(toStudio')
    BY <1>2, <2>1, NumberedAppend, ReplyNumbered
  <2> QED BY <1>1, <2>2, TableLeftAlone
<1>6. CASE ReceivesNmt(f) \/ Ignores(f)
  <2>1. toStudio' = toStudio
    BY <1>6 DEF ReceivesNmt, Ignores
  <2> QED BY <1>1, <1>2, <2>1, TableLeftAlone
<1> QED BY <1>3, <1>4, <1>5, <1>6

\* The other senders.
LEMMA SendersKeepTable ==
  ASSUME TableInv,
         \/ Heartbeats
         \/ \E rpm \in Speeds : Telemetry(rpm)
         \/ \E f \in Foreign : Others(f)
  PROVE  TableInv'
<1>1. Numbered(toStudio)
  BY DEF TableInv
<1>2. CASE Heartbeats
  <2>1. toStudio' = toStudio \o Beats /\ UNCHANGED <<native, announced, discovered, nodeStates>>
    BY <1>2 DEF Heartbeats, studio
  <2> QED BY <1>1, <2>1, NumberedJoin, BeatsNumbered, TableLeftAlone
<1>3. ASSUME NEW rpm \in Speeds, Telemetry(rpm) PROVE TableInv'
  <2>1. toStudio' = toStudio \o Pdos(rpm)
        /\ UNCHANGED <<native, announced, discovered, nodeStates>>
    BY <1>3 DEF Telemetry, studio
  <2> QED BY <1>1, <2>1, NumberedJoin, PdosNumbered, TableLeftAlone
<1>4. ASSUME NEW f \in Foreign, Others(f) PROVE TableInv'
  <2>1. toStudio' = Append(toStudio, f) /\ f.cid \in Nat
        /\ UNCHANGED <<native, announced, discovered, nodeStates>>
    BY <1>4, ForeignAssumption DEF Others, studio
  <2> QED BY <1>1, <2>1, NumberedAppend, TableLeftAlone
<1> QED BY <1>2, <1>3, <1>4

\* A frame is looked at: only a heartbeat changes a state.
LEMMA CaptureKeepsTable == ASSUME TableInv, Capture PROVE TableInv'
<1> DEFINE f == Head(toStudio)
           p == Process(nodeStates, f, native, "all")
           m == f.cid - \h700
<1>1. /\ toStudio # <<>> /\ toStudio' = Tail(toStudio) /\ native' = native
      /\ nodeStates' = p.nodes /\ discovered' = Discover(f, p.class)
      /\ announced' = IF IsBeat(f) /\ f.data # <<>>
                      THEN Entered(announced, m, f.data[1]) ELSE announced
  BY DEF Capture, IsBeat
<1>2. f.cid \in Nat /\ Numbered(toStudio')
  BY <1>1, SequenceLeft DEF TableInv, Numbered
<1>3. native \in BOOLEAN
  BY DEF TableInv
<1> DEFINE d == p.class.node
<1>0. p = Process(nodeStates, f, native, "all")
  OBVIOUS
<1> HIDE DEF p, f
<1>4. /\ IsBeat(f) => p.class.service = "HEARTBEAT" /\ p.class.node = m
      /\ ~ IsBeat(f) => p.class.service # "HEARTBEAT" \/ p.class.node = 0
      /\ DOMAIN nodeStates \subseteq DOMAIN p.nodes
      /\ \A n \in DOMAIN nodeStates :
           p.nodes[n] = nodeStates[n] \/ (IsBeat(f) /\ n = m) \/ n = 0
      /\ IsBeat(f) =>
           /\ f.data # <<>> => m \in DOMAIN p.nodes /\ p.nodes[m] = NmtState(f.data[1])
           /\ f.data = <<>> => p.nodes = nodeStates \/ (native /\ p.nodes[m] = "UNKNOWN")
  <2>1. ParsedWell(nodeStates, f, native, Process(nodeStates, f, native, "all"))
    BY <1>2, <1>3, FrameParsed
  <2>2. ParsedWell(nodeStates, f, native, p)
    BY <1>0, <2>1
  <2> QED BY <2>2 DEF ParsedWell
<1>5. IsBeat(f) => m \in Nat \ {0}
  BY <1>2 DEF IsBeat
<1>6. d <= 0 => discovered' = discovered
  BY <1>1 DEF Discover
<1>7. ~ (d <= 0) =>
        /\ DOMAIN discovered' = DOMAIN discovered \cup {d}
        /\ \A n \in DOMAIN discovered \ {d} : discovered'[n] = discovered[n]
        /\ discovered'[d].state =
             IF p.class.service = "HEARTBEAT" /\ f.data # <<>> THEN NmtState(f.data[1])
             ELSE IF d \in DOMAIN discovered THEN discovered[d].state ELSE "Unknown"
  BY <1>1 DEF Discover, Entered
<1>8. IsBeat(f) => d = m /\ ~ (d <= 0)
  <2>1. IsBeat(f) => d = m
    BY <1>4
  <2> HIDE DEF d, m
  <2>2. m \in Nat \ {0} => ~ (m <= 0)
    OBVIOUS
  <2> QED BY <1>5, <2>1, <2>2
<1> HIDE DEF d
<1>9. CASE IsBeat(f) /\ f.data # <<>>
  <2>1. /\ DOMAIN announced' = DOMAIN announced \cup {m} /\ announced'[m] = f.data[1]
        /\ \A n \in DOMAIN announced \ {m} : announced'[n] = announced[n]
    BY <1>1, <1>9 DEF Entered
  <2>2. \A n \in DOMAIN announced' :
          n \in Nat \ {0} /\ n \in DOMAIN discovered' \cap DOMAIN nodeStates'
    BY <1>1, <1>4, <1>5, <1>7, <1>8, <1>9, <2>1 DEF TableInv
  <2>3. ASSUME NEW n \in DOMAIN discovered'
        PROVE  /\ discovered'[n].state =
                    IF n \in DOMAIN announced' THEN NmtState(announced'[n]) ELSE "Unknown"
               /\ n \in DOMAIN announced' =>
                    \/ nodeStates'[n] = NmtState(announced'[n])
                    \/ native /\ nodeStates'[n] = "UNKNOWN"
    <3>1. CASE n = m
      BY <1>1, <1>4, <1>7, <1>8, <1>9, <2>1, <3>1
    <3>2. CASE n # m
      <4>1. n \in DOMAIN discovered /\ discovered'[n] = discovered[n]
        BY <1>7, <1>8, <1>9, <3>2
      <4>2. (n \in DOMAIN announced' <=> n \in DOMAIN announced)
            /\ (n \in DOMAIN announced => /\ announced'[n] = announced[n]
                                          /\ nodeStates'[n] = nodeStates[n])
        BY <1>1, <1>4, <2>1, <3>2 DEF TableInv
      <4> QED BY <4>1, <4>2 DEF TableInv, TableShowsLastBeat
    <3> QED BY <3>1, <3>2
  <2> QED BY <1>1, <1>2, <1>3, <2>2, <2>3 DEF TableInv, TableShowsLastBeat
<1>10. CASE ~ (IsBeat(f) /\ f.data # <<>>)
  <2>1. announced' = announced
    BY <1>1, <1>10
  <2>2. /\ DOMAIN discovered \subseteq DOMAIN discovered'
        /\ \A n \in DOMAIN discovered : discovered'[n].state = discovered[n].state
        /\ \A n \in DOMAIN discovered' \ DOMAIN discovered : discovered'[n].state = "Unknown"
    <3>1. CASE d <= 0
      BY <1>6, <3>1
    <3>2. CASE ~ (d <= 0)
      <4>1. ~ (p.class.service = "HEARTBEAT" /\ f.data # <<>>)
        BY <1>4, <1>10, <3>2 DEF d
      <4> QED BY <1>7, <3>2, <4>1
    <3> QED BY <3>1, <3>2
  <2>3. ASSUME NEW n \in DOMAIN announced
        PROVE  /\ n \in DOMAIN nodeStates'
               /\ nodeStates'[n] = nodeStates[n] \/ (native /\ nodeStates'[n] = "UNKNOWN")
    BY <1>1, <1>4, <1>10 DEF TableInv
  <2> QED BY <1>1, <1>2, <1>3, <2>1, <2>2, <2>3 DEF TableInv, TableShowsLastBeat
<1> QED BY <1>9, <1>10

\* The window does not touch the table.
LEMMA OthersKeepTable ==
  ASSUME TableInv,
         \/ Record \/ RefreshSlices \/ RefreshStores \/ TogglePause \/ ClearTrace
         \/ \E c \in Commands, n \in Targets : SendNmt(c, n)
         \/ \E o \in Objects : SdoReads(o) \/ CheckSdoReply(o)
         \/ \E o \in Objects, b \in Writes : SdoWrites(o, b)
  PROVE  TableInv'
<1>1. UNCHANGED <<native, toStudio, announced, discovered, nodeStates>>
  BY DEF Record, RefreshSlices, RefreshStores, TogglePause, ClearTrace, SendNmt, SdoReads,
         CheckSdoReply, SdoWrites, Send, tk
<1>2. Numbered(toStudio)'
  BY <1>1 DEF TableInv
<1> QED BY <1>1, <1>2, TableLeftAlone

\* The node table of the window (canopen_layer.py process_message, gui.py
\* _rx_loop), with canopen_core or without it: see TableShowsLastBeat.
THEOREM BeatsAreShown == Spec => []TableShowsLastBeat
<1>1. TableInv /\ [Next]_vars => TableInv'
  <2> SUFFICES ASSUME TableInv, [Next]_vars PROVE TableInv'
    OBVIOUS
  <2>1. CASE UNCHANGED vars
    <3>1. UNCHANGED <<native, toStudio, announced, discovered, nodeStates>>
      BY <2>1 DEF vars
    <3>2. Numbered(toStudio)'
      BY <3>1 DEF TableInv
    <3> QED BY <3>1, <3>2, TableLeftAlone
  <2>2. CASE Next
    BY <2>2, NodesKeepTable, SendersKeepTable, CaptureKeepsTable, OthersKeepTable DEF Next
  <2> QED BY <2>1, <2>2
<1>2. TableInv => TableShowsLastBeat
  BY DEF TableInv
<1> QED BY <1>1, <1>2, InitTable, PTL DEF Spec
-----------------------------------------------------------------------------
(* The answer the SDO panel finds in the trace. *)

\* A frame that answers an upload of an object says a value it has had: the history
\* is an argument, as a step changes it under frames that are on their way.
Truthful(history, f) ==
  \A o \in Objects : Concerns(f, o) /\ f.data[1] # \h80 =>
    Number(SubSeq(f.data, 5, Len(f.data))) \in history[o] \cup {0}
AllTruthful(history, s) ==
  IsSequence(s) /\ \A i \in 1..Len(s) : Truthful(history, s[i])
TraceTruthful(history, s) ==
  IsSequence(s) /\ \A i \in 1..Len(s) : Truthful(history, s[i].frame)

\* What the simulated node holds is what its objects have had last; what it serves
\* from its own state is never written.
SimTruthful ==
  /\ sim = [nmt |-> sim.nmt, rpm |-> sim.rpm, written |-> sim.written]
  /\ \A o \in Objects : FirstValue(o) \in held[o]
  /\ DOMAIN held = Objects
  /\ sim.rpm # None => /\ sim.rpm \in Words
                       /\ <<\h606C, 0>> \in Objects => sim.rpm \in held[<<\h606C, 0>>]
  /\ \A o \in DOMAIN sim.written : /\ o \notin ReadOnly /\ IsSequence(sim.written[o])
                                   /\ o \in Objects => Number(sim.written[o]) \in held[o]

\* Frames to the nodes are of bytes, as far as they are for the server.
OfBytes(f) == f.cid = \h601 => f.data \in Seq(0..255)

AnswerInv ==
  /\ SimTruthful
  /\ IsSequence(toNodes) /\ \A i \in 1..Len(toNodes) : OfBytes(toNodes[i])
  /\ AllTruthful(held, toStudio)
  /\ rx.pc = "append" => Truthful(held, rx.frame)
  /\ TraceTruthful(held, captured)
  /\ ~ Free => TraceTruthful(held, refresh.trace)
  /\ label.kind = "reply" => /\ label.object \in Objects
                             /\ label.value \in held[label.object] \cup {0}

\* A value an object has had stays one.
LEMMA HistoryGrows ==
  ASSUME NEW h, NEW k, \A o \in Objects : h[o] \subseteq k[o]
  PROVE  /\ \A f : Truthful(h, f) => Truthful(k, f)
         /\ \A s : AllTruthful(h, s) => AllTruthful(k, s)
         /\ \A s : TraceTruthful(h, s) => TraceTruthful(k, s)
<1>1. ASSUME NEW f, Truthful(h, f) PROVE Truthful(k, f)
  BY <1>1 DEF Truthful
<1> QED BY <1>1 DEF AllTruthful, TraceTruthful

\* Queues of truthful frames.
LEMMA TruthJoins ==
  ASSUME NEW h, NEW s, AllTruthful(h, s), NEW t, AllTruthful(h, t)
  PROVE  AllTruthful(h, s \o t)
<1> DEFINE st == s \o t
<1>1. IsSequence(s) /\ IsSequence(t)
  BY DEF AllTruthful
<1>2. /\ IsSequence(st)
      /\ \A i \in 1..Len(st) : \/ \E j \in 1..Len(s) : st[i] = s[j]
                               \/ \E j \in 1..Len(t) : st[i] = t[j]
  BY <1>1, SequencesJoin
<1> HIDE DEF st
<1>3. ASSUME NEW i \in 1..Len(st) PROVE Truthful(h, st[i])
  <2>1. CASE \E j \in 1..Len(s) : st[i] = s[j]
    BY <2>1 DEF AllTruthful
  <2>2. CASE \E j \in 1..Len(t) : st[i] = t[j]
    BY <2>2 DEF AllTruthful
  <2> QED BY <1>2, <2>1, <2>2
<1>4. AllTruthful(h, st)
  BY <1>2, <1>3 DEF AllTruthful
<1> QED BY <1>4 DEF st

\* One more truthful frame.
LEMMA TruthAppends ==
  ASSUME NEW h, NEW s, AllTruthful(h, s), NEW f, Truthful(h, f)
  PROVE  AllTruthful(h, Append(s, f))
<1>1. /\ IsSequence(Append(s, f)) /\ Len(s) \in Nat /\ Len(Append(s, f)) = Len(s) + 1
      /\ \A i \in 1..Len(s) : Append(s, f)[i] = s[i]
      /\ Append(s, f)[Len(s) + 1] = f
  BY SequenceGrows DEF AllTruthful
<1>2. \A i \in 1..Len(Append(s, f)) : i \in 1..Len(s) \/ i = Len(s) + 1
  BY <1>1
<1> QED BY <1>1, <1>2 DEF AllTruthful

\* A queue of frames from a set of truthful frames is truthful.
LEMMA TruthOfSet ==
  ASSUME NEW h, NEW S, \A f \in S : Truthful(h, f), NEW s \in Seq(S)
  PROVE  AllTruthful(h, s)
BY DEF AllTruthful, IsSequence

\* So is a queue of one.
LEMMA TruthOfOne ==
  ASSUME NEW h, NEW f, Truthful(h, f)
  PROVE  AllTruthful(h, <<f>>)
<1> DEFINE s == <<f>>
<1>1. s \in Seq({f}) /\ Len(s) = 1 /\ s[1] = f
  OBVIOUS
<1> HIDE DEF s
<1>2. \A i \in 1..Len(s) : i = 1
  BY <1>1
<1>3. AllTruthful(h, s)
  BY <1>1, <1>2 DEF AllTruthful, IsSequence
<1> QED BY <1>3 DEF s

\* A frame under another identifier answers nothing.
LEMMA OthersSayNothing ==
  ASSUME NEW h, NEW f, f.cid # \h581
  PROVE  Truthful(h, f)
BY DEF Truthful, Concerns, Server

\* A word is its high byte and its low one.
LEMMA HighAndLow ==
  ASSUME NEW n \in Int
  PROVE  /\ n \div 256 \in Int /\ n % 256 \in 0..255
         /\ n = 256 * (n \div 256) + (n % 256)
BY SMT

\* Of a word of 16 bits the high one is a byte too.
LEMMA HighIsByte ==
  ASSUME NEW n \in Int, 0 <= n, n <= 65535, NEW m \in Int, NEW r \in Int, 0 <= r, r < 256,
         n = 256 * m + r
  PROVE  m \in 0..255
BY SMT

\* A byte is its own low one.
LEMMA OneByte == ASSUME NEW q \in 0..255 PROVE q % 256 = q
BY SMT

\* Two bytes hold a word.
LEMMA TwoBytes ==
  ASSUME NEW n \in Words
  PROVE  n \in Int /\ (n % 256) + 256 * ((n \div 256) % 256) = n
<1>0. n \in Int /\ 0 <= n /\ n <= 65535
  BY DEF Words
<1>1. n \div 256 \in Int /\ n % 256 \in 0..255 /\ n = 256 * (n \div 256) + (n % 256)
  BY <1>0, HighAndLow
<1>2. PICK m \in Int : m = n \div 256
  BY <1>1
<1>3. PICK r \in 0..255 : r = n % 256
  BY <1>1
<1>4. n = 256 * m + r /\ r \in Int /\ 0 <= r /\ r < 256
  BY <1>1, <1>2, <1>3
<1>5. m \in 0..255
  BY <1>0, <1>4, HighIsByte
<1>6. m % 256 = m
  BY <1>5, OneByte
<1>7. r + 256 * (m % 256) = n
  BY <1>4, <1>6
<1> QED BY <1>0, <1>2, <1>3, <1>7

\* What follows four bytes, and the four.
LEMMA AfterFour ==
  ASSUME NEW S, NEW a \in Seq(S), Len(a) = 4, NEW b \in Seq(S)
  PROVE  /\ \A i \in 1..4 : (a \o b)[i] = a[i]
         /\ SubSeq(a \o b, 5, Len(a \o b)) = b
<1> DEFINE c == a \o b
<1>1. c \in Seq(S) /\ Len(b) \in Nat /\ Len(c) = Len(b) + 4
  <2>1. c \in Seq(S) /\ Len(c) = Len(a) + Len(b)
    BY ConcatProperties
  <2>2. Len(b) \in Nat
    OBVIOUS
  <2> HIDE DEF c
  <2> QED BY <2>1, <2>2
<1>2. \A i \in 1..4 : c[i] = a[i]
  BY <1>1
<1>3. \A i \in 5..(Len(b) + 4) : c[i] = b[i - 4]
  BY <1>1
<1> HIDE DEF c
<1> DEFINE d == SubSeq(c, 5, Len(c))
<1>4. d \in Seq(S) /\ Len(d) = Len(b) /\ \A i \in 1..Len(b) : d[i] = c[i + 4]
  BY <1>1
<1> HIDE DEF d
<1>5. ASSUME NEW i \in 1..Len(b) PROVE d[i] = b[i]
  <2>1. i + 4 \in 5..(Len(b) + 4) /\ (i + 4) - 4 = i
    BY <1>1
  <2> QED BY <1>3, <1>4, <2>1
<1>6. d = b
  BY <1>4, <1>5, SeqEqual
<1> QED BY <1>2, <1>6 DEF c, d

\* One element before three.
LEMMA OneAndThree ==
  ASSUME NEW a, NEW b, NEW c, NEW d
  PROVE  <<a>> \o <<b, c, d>> = <<a, b, c, d>>
<1> DEFINE S == {a, b, c, d}
           one == <<a>>
           three == <<b, c, d>>
           s == one \o three
<1>1. one \in Seq(S) /\ three \in Seq(S) /\ Len(one) = 1 /\ Len(three) = 3
  OBVIOUS
<1>2. one[1] = a /\ three[1] = b /\ three[2] = c /\ three[3] = d
  OBVIOUS
<1> HIDE DEF S, one, three
<1>3. s \in Seq(S) /\ Len(s) = 4 /\ s[1] = one[1] /\ \A i \in 2..4 : s[i] = three[i - 1]
  <2>1. s \in Seq(S) /\ Len(s) = Len(one) + Len(three)
        /\ \A i \in 1..(Len(one) + Len(three)) :
             s[i] = IF i <= Len(one) THEN one[i] ELSE three[i - Len(one)]
    BY <1>1, ConcatProperties
  <2> QED BY <1>1, <2>1
<1> HIDE DEF s
<1>4. s[1] = a /\ s[2] = b /\ s[3] = c /\ s[4] = d
  <2>1. s[2] = three[2 - 1] /\ s[3] = three[3 - 1] /\ s[4] = three[4 - 1]
    BY <1>3
  <2> QED BY <1>2, <1>3, <2>1
<1>5. s = <<a, b, c, d>>
  BY <1>3, <1>4
<1> QED BY <1>5 DEF s, one, three

\* An answer of the server is about the object it was asked for.
LEMMA ReplyTruthful ==
  ASSUME NEW h, NEW cs, NEW o, o = <<o[1], o[2]>>, o[1] \in Words,
         NEW bytes, IsSequence(bytes), o \in Objects => Number(bytes) \in h[o] \cup {0}
  PROVE  Truthful(h, Reply(cs, o, bytes))
<1> DEFINE head == <<cs, Low(o[1]), High(o[1]), o[2]>>
           data == head \o bytes
<1>1. PICK B : bytes \in Seq(B)
  BY DEF IsSequence
<1> DEFINE S == B \cup {cs, Low(o[1]), High(o[1]), o[2]}
<1>2. head \in Seq(S) /\ bytes \in Seq(S) /\ Len(head) = 4
  BY <1>1
<1>3. Reply(cs, o, bytes).data = data
  <2>1. <<cs>> \o <<Low(o[1]), High(o[1]), o[2]>> = head
    BY OneAndThree
  <2> QED BY <2>1 DEF Reply, Frame, Object
<1>4. data[2] = Low(o[1]) /\ data[3] = High(o[1]) /\ data[4] = o[2]
  <2>1. \A i \in 1..4 : data[i] = head[i]
    <3> HIDE DEF head, S
    <3> QED BY <1>2, AfterFour
  <2> HIDE DEF data
  <2>2. data[2] = head[2] /\ data[3] = head[3] /\ data[4] = head[4]
    BY <2>1
  <2> QED BY <2>2
<1>5. SubSeq(data, 5, Len(data)) = bytes
  <2> HIDE DEF head, S
  <2> QED BY <1>2, AfterFour
<1> HIDE DEF data
<1>6. IndexOf(data) = o[1] /\ SubOf(data) = o[2]
  <2>1. Low(o[1]) + 256 * High(o[1]) = o[1]
    BY TwoBytes DEF Low, High
  <2> QED BY <1>4, <2>1 DEF IndexOf, SubOf, Word, Byte
<1>7. ASSUME NEW p \in Objects, Concerns(Reply(cs, o, bytes), p) PROVE p = o
  <2>1. p = <<p[1], p[2]>>
    BY BytesAssumption
  <2>2. p[1] = o[1] /\ p[2] = o[2]
    BY <1>3, <1>6, <1>7 DEF Concerns
  <2> QED BY <2>1, <2>2
<1> DEFINE f == Reply(cs, o, bytes)
<1>8. f.data = data
  BY <1>3
<1>9. \A p \in Objects : Concerns(f, p) => p = o
  BY <1>7
<1> HIDE DEF f
<1>10. Number(SubSeq(f.data, 5, Len(f.data))) = Number(bytes)
  BY <1>5, <1>8
<1>11. Truthful(h, f)
  BY <1>9, <1>10, Zenon DEF Truthful
<1> QED BY <1>11 DEF f

\* Two bytes hold a speed.
LEMMA LittleHolds ==
  ASSUME NEW n \in Words
  PROVE  Number(Little(n)) = n /\ IsSequence(Little(n))
<1>1. n \in Int
  BY TwoBytes
<1>2. PICK a \in 0..255 : a = n % 256
  BY <1>1, HighAndLow
<1>3. PICK b \in 0..255 : b = (n \div 256) % 256
  <2>1. n \div 256 \in Int
    BY <1>1, HighAndLow
  <2>2. (n \div 256) % 256 \in 0..255
    BY <2>1, HighAndLow
  <2> QED BY <2>2
<1>4. a + 256 * b = n
  BY <1>1, <1>2, <1>3, TwoBytes
<1>5. Little(n) = <<a, b, 0, 0>>
  BY <1>2, <1>3 DEF Little
<1>6. Number(<<a, b, 0, 0>>) = a + 256 * b
  <2>1. Number(<<a, b, 0, 0>>) = a + 256 * b + 65536 * 0
    BY SMT DEF Number
  <2> QED BY <2>1, SMT
<1>7. <<a, b, 0, 0>> \in Seq(0..255)
  OBVIOUS
<1> QED BY <1>4, <1>5, <1>6, <1>7 DEF IsSequence

\* Nothing is on its way, and every object has its first value.
LEMMA InitAnswers == Init => AnswerInv
<1> SUFFICES ASSUME Init PROVE AnswerInv
  OBVIOUS
<1>1. /\ toNodes = <<>> /\ toStudio = <<>> /\ captured = <<>> /\ Free /\ rx.pc # "append"
      /\ label.kind # "reply" /\ held = [o \in Objects |-> {FirstValue(o)}]
  <2>1. /\ toNodes = <<>> /\ toStudio = <<>> /\ captured = <<>> /\ refresh = NoList
        /\ rx = Idle /\ label = [kind |-> "ready"] /\ held = [o \in Objects |-> {FirstValue(o)}]
    BY Zenon DEF Init
  <2> QED BY <2>1 DEF Free, Idle
<1>2. IsSequence(<<>>) /\ Len(<<>>) = 0
  <2>1. <<>> \in Seq({})
    OBVIOUS
  <2> QED BY <2>1 DEF IsSequence
<1>3. SimTruthful
  <2> DEFINE first == [nmt |-> <<\h7F, \h7F>>, rpm |-> 1800, written |-> NoSignals]
             other == [nmt |-> <<None, None>>, rpm |-> None, written |-> NoSignals]
  <2>0. sim = IF native THEN first ELSE other
    BY Zenon DEF Init
  <2>1. /\ sim = [nmt |-> sim.nmt, rpm |-> sim.rpm, written |-> sim.written]
        /\ sim.written = NoSignals /\ sim.rpm \in {1800, None}
    <3>1. sim = first \/ sim = other
      <4> HIDE DEF first, other
      <4> QED BY <2>0, Zenon
    <3> QED BY <3>1
  <2>2. DOMAIN NoSignals = {}
    BY DEF NoSignals
  <2>3. <<\h606C, 0>> \in Objects => 1800 \in held[<<\h606C, 0>>]
    BY <1>1, SMT DEF FirstValue
  <2>4. 1800 \in Words
    BY SMT DEF Words
  <2>5. \A o \in Objects : FirstValue(o) \in held[o]
    BY <1>1
  <2> QED BY <1>1, <2>1, <2>2, <2>3, <2>4, <2>5 DEF SimTruthful
<1> QED BY <1>1, <1>2, <1>3 DEF AnswerInv, AllTruthful, TraceTruthful

\* The parts of the invariant a sender has to answer for.
LEMMA SentTruthfully ==
  ASSUME AnswerInv, UNCHANGED <<rx, captured, refresh, label>>,
         \A o \in Objects : held[o] \subseteq held'[o], SimTruthful',
         IsSequence(toNodes'), \A i \in 1..Len(toNodes') : OfBytes(toNodes'[i]),
         AllTruthful(held', toStudio')
  PROVE  AnswerInv'
<1>1. /\ \A f : Truthful(held, f) => Truthful(held', f)
      /\ \A s : TraceTruthful(held, s) => TraceTruthful(held', s)
  BY HistoryGrows
<1>2. rx'.pc = "append" => Truthful(held', rx'.frame)
  BY <1>1 DEF AnswerInv
<1>3. TraceTruthful(held', captured') /\ (~ Free' => TraceTruthful(held', refresh'.trace))
  BY <1>1 DEF AnswerInv, Free
<1>4. label'.kind = "reply" => /\ label'.object \in Objects
                               /\ label'.value \in held'[label'.object] \cup {0}
  BY DEF AnswerInv
<1>5. \A i \in 1..Len(toNodes') : OfBytes(toNodes[i])'
  BY DEF OfBytes
<1> QED BY <1>2, <1>3, <1>4, <1>5 DEF AnswerInv, AllTruthful, TraceTruthful, Truthful, Free

\* Four zeros are the number zero.
LEMMA FourZeros == IsSequence(<<0, 0, 0, 0>>) /\ Number(<<0, 0, 0, 0>>) = 0
<1>1. <<0, 0, 0, 0>> \in Seq({0})
  OBVIOUS
<1>2. Number(<<0, 0, 0, 0>>) = 0
  BY DEF Number
<1> QED BY <1>1, <1>2 DEF IsSequence

\* What an upload of an object answers is a value it has had, or nothing.
LEMMA UploadTruthful ==
  ASSUME SimTruthful, NEW o, o = <<o[1], o[2]>>, o[1] \in Words,
         ~ (o = <<\h606C, 0>> /\ sim.rpm = None)
  PROVE  AllTruthful(held, AnswersUpload(o))
<1>0. /\ <<\h1000, 0>> # <<\h1008, 0>> /\ <<\h1000, 0>> # <<\h606C, 0>>
      /\ <<\h1008, 0>> # <<\h606C, 0>>
      /\ \A x \in DOMAIN sim.written : x \notin ReadOnly
  BY SMT DEF SimTruthful
<1>1. IsSequence(Upload(o)[2]) /\ (o \in Objects => Number(Upload(o)[2]) \in held[o] \cup {0})
  <2>1. CASE o = <<\h1000, 0>>
    <3>1. Upload(o) = <<\h43, Type>> /\ FirstValue(o) = Number(Type)
      BY <1>0, <2>1 DEF Upload, FirstValue, ReadOnly
    <3>2. Type \in Seq(Nat)
      BY DEF Type
    <3> QED BY <3>1, <3>2 DEF SimTruthful, IsSequence
  <2>2. CASE o = <<\h1008, 0>>
    <3>1. Upload(o) = <<\h43, Name>> /\ FirstValue(o) = Number(Name)
      BY <1>0, <2>2 DEF Upload, FirstValue, ReadOnly
    <3>2. Name \in Seq(Nat)
      BY DEF Name
    <3> QED BY <3>1, <3>2 DEF SimTruthful, IsSequence
  <2>3. CASE o = <<\h606C, 0>>
    <3>1. Upload(o) = <<\h43, Little(sim.rpm)>>
      BY <1>0, <2>3 DEF Upload, ReadOnly
    <3>2. sim.rpm \in Words /\ (o \in Objects => sim.rpm \in held[o])
      BY <2>3 DEF SimTruthful
    <3> QED BY <3>1, <3>2, LittleHolds
  <2>4. CASE o \notin ReadOnly
    <3>1. CASE o \in DOMAIN sim.written
      <4>1. Upload(o)[2] = sim.written[o]
        BY <2>4, <3>1, SMT DEF Upload, ReadOnly
      <4> QED BY <3>1, <4>1 DEF SimTruthful
    <3>2. CASE o \notin DOMAIN sim.written
      <4>1. Upload(o)[2] = <<0, 0, 0, 0>>
        BY <2>4, <3>2, SMT DEF Upload, ReadOnly
      <4> QED BY <4>1, FourZeros
    <3> QED BY <3>1, <3>2
  <2> QED BY <2>1, <2>2, <2>3, <2>4 DEF ReadOnly
<1>2. Truthful(held, Reply(Upload(o)[1], o, Upload(o)[2]))
  BY <1>1, ReplyTruthful
<1> QED BY <1>2, TruthOfOne DEF AnswersUpload

\* The first bytes of a frame.
LEMMA FirstBytes ==
  ASSUME NEW S, NEW d \in Seq(S), Len(d) >= 4
  PROVE  d[1] \in S /\ d[2] \in S /\ d[3] \in S
<1>1. Len(d) \in Nat /\ 1 \in 1..Len(d) /\ 2 \in 1..Len(d) /\ 3 \in 1..Len(d)
  OBVIOUS
<1> QED BY <1>1, ElementOfSeq

\* Two bytes make a word.
LEMMA WordOfBytes ==
  ASSUME NEW a \in 0..255, NEW b \in 0..255
  PROVE  a + 256 * b \in Words
BY SMT DEF Words

\* What is asked of the server is about an object.
LEMMA AskedObject ==
  ASSUME NEW f, f.data \in Seq(0..255), Len(f.data) >= 4
  PROVE  Asked(f) = <<Asked(f)[1], Asked(f)[2]>> /\ Asked(f)[1] \in Words
<1>1. f.data[2] \in 0..255 /\ f.data[3] \in 0..255
  BY FirstBytes
<1>2. IndexOf(f.data) = f.data[2] + 256 * f.data[3]
  BY DEF IndexOf, Word, Byte
<1>3. f.data[2] + 256 * f.data[3] \in Words
  <2> DEFINE a == f.data[2]
             b == f.data[3]
  <2>1. a \in 0..255 /\ b \in 0..255
    BY <1>1
  <2> HIDE DEF a, b
  <2>2. a + 256 * b \in Words
    BY <2>1, WordOfBytes
  <2> QED BY <2>2 DEF a, b
<1> QED BY <1>2, <1>3 DEF Asked

\* A part of a sequence that is there.
LEMMA PartOf ==
  ASSUME NEW S, NEW d \in Seq(S), NEW n \in Int, n <= Len(d)
  PROVE  SubSeq(d, 5, n) \in Seq(S)
<1>1. ASSUME NEW i \in 5..n PROVE d[i] \in S
  <2>1. i \in 1..Len(d)
    OBVIOUS
  <2> QED BY <2>1, ElementOfSeq
<1> QED BY <1>1, SubSeqProperties

\* A download is a sequence of the bytes that are there.
LEMMA DownloadedBytes ==
  ASSUME NEW data \in Seq(0..255), Len(data) >= 4, IsDownload(data)
  PROVE  IsSequence(Downloaded(data))
<1>1. PICK c \in 0..255 : c = data[1]
  BY FirstBytes
<1>2. DataEnd(c) \in Int
  BY SMT DEF DataEnd
<1>3. PICK n \in Int : n = DataEnd(c)
  BY <1>2
<1>4. n <= Len(data) /\ Len(data) \in Nat
  BY <1>1, <1>3 DEF IsDownload
<1>6. SubSeq(data, 5, n) \in Seq(0..255)
  BY <1>4, PartOf
<1> QED BY <1>1, <1>3, <1>6 DEF Downloaded, IsSequence

\* The server takes a frame.
LEMMA NodesAnswer == ASSUME AnswerInv, NodesReceive PROVE AnswerInv'
<1> DEFINE f == Head(toNodes)
<1>1. /\ toNodes # <<>> /\ toNodes' = Tail(toNodes) /\ UNCHANGED <<rx, captured, refresh, label>>
      /\ ReceivesNmt(f) \/ ReceivesUpload(f) \/ ReceivesDownload(f) \/ Ignores(f)
  BY DEF NodesReceive, studio
<1>2. /\ OfBytes(f) /\ IsSequence(toNodes')
      /\ \A i \in 1..Len(toNodes') : OfBytes(toNodes'[i])
  <2>1. /\ IsSequence(Tail(toNodes)) /\ Head(toNodes) = toNodes[1] /\ 1 \in 1..Len(toNodes)
        /\ \A i \in 1..Len(Tail(toNodes)) :
             i + 1 \in 1..Len(toNodes) /\ Tail(toNodes)[i] = toNodes[i + 1]
    BY <1>1, SequenceLeft DEF AnswerInv
  <2> QED BY <1>1, <2>1 DEF AnswerInv
<1>3. /\ SimTruthful /\ AllTruthful(held, toStudio)
      /\ sim = [nmt |-> sim.nmt, rpm |-> sim.rpm, written |-> sim.written]
  BY DEF AnswerInv, SimTruthful
<1> HIDE DEF f
<1>4. CASE ReceivesNmt(f)
  <2>1. toStudio' = toStudio /\ held' = held
    BY <1>4 DEF ReceivesNmt
  <2>2. /\ sim' = [nmt |-> sim'.nmt, rpm |-> sim'.rpm, written |-> sim'.written]
        /\ sim'.rpm = sim.rpm /\ sim'.written = sim.written
    BY <1>3, <1>4 DEF ReceivesNmt
  <2>3. SimTruthful'
    BY <1>3, <2>1, <2>2 DEF SimTruthful
  <2> QED BY <1>1, <1>2, <1>3, <2>1, <2>3, SentTruthfully
<1>5. CASE ReceivesUpload(f)
  <2>1. sim' = sim /\ held' = held /\ f.cid = \h601 /\ Len(f.data) >= 4
    BY <1>5 DEF ReceivesUpload, Server
  <2>2. SimTruthful'
    BY <1>3, <2>1 DEF SimTruthful
  <2>3. AllTruthful(held, toStudio')
    <3>1. CASE Asked(f) = <<\h606C, 0>> /\ sim.rpm = None
      <4>1. toStudio' = toStudio \o <<>>
        BY <1>5, <3>1 DEF ReceivesUpload
      <4>2. AllTruthful(held, <<>>)
        <5>1. <<>> \in Seq({})
          OBVIOUS
        <5> QED BY <5>1, TruthOfSet
      <4> QED BY <1>3, <4>1, <4>2, TruthJoins
    <3>2. CASE ~ (Asked(f) = <<\h606C, 0>> /\ sim.rpm = None)
      <4>1. toStudio' = toStudio \o AnswersUpload(Asked(f))
        BY <1>5, <3>2 DEF ReceivesUpload
      <4>2. AllTruthful(held, AnswersUpload(Asked(f)))
        BY <1>2, <1>3, <2>1, <3>2, AskedObject, UploadTruthful DEF OfBytes
      <4> QED BY <1>3, <4>1, <4>2, TruthJoins
    <3> QED BY <3>1, <3>2
  <2> QED BY <1>1, <1>2, <2>1, <2>2, <2>3, SentTruthfully
<1>6. CASE ReceivesDownload(f)
  <2> DEFINE o == Asked(f)
             bytes == Downloaded(f.data)
  <2>0. o = Asked(f) /\ bytes = Downloaded(f.data)
    OBVIOUS
  <2>1. /\ f.cid = \h601 /\ f.data \in Seq(0..255) /\ Len(f.data) >= 4 /\ IsDownload(f.data)
        /\ o = <<o[1], o[2]>> /\ o[1] \in Words /\ IsSequence(bytes)
    <3>1. f.cid = \h601 /\ Len(f.data) >= 4 /\ IsDownload(f.data)
      BY <1>6 DEF ReceivesDownload, Server
    <3> QED BY <1>2, <3>1, AskedObject, DownloadedBytes DEF OfBytes
  <2> HIDE DEF o, bytes
  <2>2. CASE ~ native
    <3>1. UNCHANGED <<sim, toStudio, held>>
      BY <1>6, <2>2 DEF ReceivesDownload
    <3>2. SimTruthful'
      BY <1>3, <3>1 DEF SimTruthful
    <3> QED BY <1>1, <1>2, <1>3, <3>1, <3>2, SentTruthfully
  <2>3. CASE native /\ o \in ReadOnly
    <3>1. /\ UNCHANGED <<sim, held>>
          /\ toStudio' = Append(toStudio, Reply(\h80, o, <<2, 0, 1, 6>>))
      BY <1>6, <2>0, <2>3 DEF ReceivesDownload
    <3>2. SimTruthful'
      BY <1>3, <3>1 DEF SimTruthful
    <3>3. Truthful(held, Reply(\h80, o, <<2, 0, 1, 6>>))
      <4>1. Reply(\h80, o, <<2, 0, 1, 6>>).data = <<\h80>> \o (Object(o[1], o[2]) \o <<2, 0, 1, 6>>)
        BY DEF Reply, Frame, Object
      <4>2. Reply(\h80, o, <<2, 0, 1, 6>>).data[1] = \h80
        BY <4>1 DEF Object
      <4> QED BY <4>2 DEF Truthful
    <3> QED BY <1>1, <1>2, <1>3, <3>1, <3>2, <3>3, TruthAppends, SentTruthfully
  <2>4. CASE native /\ o \notin ReadOnly
    <3>1. /\ sim' = [sim EXCEPT !.written = Entered(sim.written, o, bytes)]
          /\ held' = [held EXCEPT ![o] = held[o] \cup {Number(bytes)}]
          /\ toStudio' = Append(toStudio, Reply(\h60, o, <<0, 0, 0, 0>>))
      BY <1>6, <2>0, <2>4 DEF ReceivesDownload
    <3>2. /\ DOMAIN held' = Objects /\ \A p \in Objects : held[p] \subseteq held'[p]
          /\ o \in Objects => Number(bytes) \in held'[o]
      BY <1>3, <3>1 DEF SimTruthful
    <3>3. /\ sim' = [nmt |-> sim'.nmt, rpm |-> sim'.rpm, written |-> sim'.written]
          /\ sim'.rpm = sim.rpm /\ sim'.written = Entered(sim.written, o, bytes)
      BY <1>3, <3>1
    <3>4. /\ DOMAIN sim'.written = DOMAIN sim.written \cup {o} /\ sim'.written[o] = bytes
          /\ \A p \in DOMAIN sim.written \ {o} : sim'.written[p] = sim.written[p]
      BY <3>3 DEF Entered
    <3>5. SimTruthful'
      BY <1>3, <2>1, <2>4, <3>2, <3>3, <3>4 DEF SimTruthful
    <3>6. Truthful(held', Reply(\h60, o, <<0, 0, 0, 0>>))
      BY <2>1, FourZeros, ReplyTruthful
    <3>7. AllTruthful(held', toStudio)
      BY <1>3, <3>2, HistoryGrows
    <3> QED BY <1>1, <1>2, <3>1, <3>2, <3>5, <3>6, <3>7, TruthAppends, SentTruthfully
  <2> QED BY <2>2, <2>3, <2>4
<1>7. CASE Ignores(f)
  <2>1. UNCHANGED <<sim, toStudio, held>>
    BY <1>7 DEF Ignores
  <2>2. SimTruthful'
    BY <1>3, <2>1 DEF SimTruthful
  <2> QED BY <1>1, <1>2, <1>3, <2>1, <2>2, SentTruthfully
<1> QED BY <1>1, <1>4, <1>5, <1>6, <1>7

\* The heartbeats and the process data answer nothing,
LEMMA BeatsTruthful == AllTruthful(held, Beats)
<1> DEFINE b1 == Frame(\h701, <<sim.nmt[1]>>)
           b2 == Frame(\h702, <<sim.nmt[2]>>)
<1>1. Beats \in {<<>>, <<b1>>, <<b1, b2>>}
  BY DEF Beats
<1>2. \A f \in {b1, b2} : f.cid # \h581
  BY FrameNumbered
<1> HIDE DEF b1, b2
<1>3. <<>> \in Seq({b1, b2}) /\ <<b1>> \in Seq({b1, b2}) /\ <<b1, b2>> \in Seq({b1, b2})
  OBVIOUS
<1>4. \A f \in {b1, b2} : Truthful(held, f)
  BY <1>2, OthersSayNothing
<1> QED BY <1>1, <1>3, <1>4, TruthOfSet

\* and a round of process data does not either.
LEMMA PdosTruthful == ASSUME NEW h, NEW rpm PROVE AllTruthful(h, Pdos(rpm))
<1> DEFINE f1 == Frame(\h181, <<\h27, 0>>)
           f2 == Frame(\h281, <<\h27, 0>> \o Little(rpm))
           f3 == Frame(\h473, Little(5000) \o Little(rpm))
           f4 == Frame(\h270, <<3, 4, 0, 0, 0, 80, 0, 0>>)
           f5 == Frame(\h156, <<0, 0, 10, 0, 50, 0, 32, 0>>)
<1>1. Pdos(rpm) = <<f1, f2, f3, f4, f5>>
  BY DEF Pdos
<1>2. \A f \in {f1, f2, f3, f4, f5} : f.cid # \h581
  BY FrameNumbered
<1> HIDE DEF f1, f2, f3, f4, f5
<1>3. <<f1, f2, f3, f4, f5>> \in Seq({f1, f2, f3, f4, f5})
  OBVIOUS
<1>4. \A f \in {f1, f2, f3, f4, f5} : Truthful(h, f)
  BY <1>2, OthersSayNothing
<1> QED BY <1>1, <1>3, <1>4, TruthOfSet

\* One more frame to the nodes.
LEMMA NodesGet ==
  ASSUME IsSequence(toNodes), \A i \in 1..Len(toNodes) : OfBytes(toNodes[i]),
         NEW f, OfBytes(f), toNodes' = Append(toNodes, f)
  PROVE  IsSequence(toNodes') /\ \A i \in 1..Len(toNodes') : OfBytes(toNodes'[i])
<1>1. /\ IsSequence(toNodes') /\ Len(toNodes) \in Nat /\ Len(toNodes') = Len(toNodes) + 1
      /\ \A i \in 1..Len(toNodes) : toNodes'[i] = toNodes[i]
      /\ toNodes'[Len(toNodes) + 1] = f
  BY SequenceGrows
<1>2. \A i \in 1..Len(toNodes') : i \in 1..Len(toNodes) \/ i = Len(toNodes) + 1
  BY <1>1
<1> QED BY <1>1, <1>2

\* The other senders of the bus.
LEMMA SendersAnswer ==
  ASSUME AnswerInv,
         \/ Heartbeats
         \/ \E rpm \in Speeds : Telemetry(rpm)
         \/ \E f \in Foreign : Others(f)
  PROVE  AnswerInv'
<1>1. /\ SimTruthful /\ AllTruthful(held, toStudio)
      /\ IsSequence(toNodes) /\ \A i \in 1..Len(toNodes) : OfBytes(toNodes[i])
  BY DEF AnswerInv
<1>2. CASE Heartbeats
  <2>1. /\ toStudio' = toStudio \o Beats
        /\ UNCHANGED <<sim, held, toNodes, rx, captured, refresh, label>>
    BY <1>2 DEF Heartbeats, studio
  <2>2. SimTruthful'
    BY <1>1, <2>1 DEF SimTruthful
  <2>3. AllTruthful(held', toStudio')
    BY <1>1, <2>1, BeatsTruthful, TruthJoins
  <2> QED BY <1>1, <2>1, <2>2, <2>3, SentTruthfully
<1>3. ASSUME NEW rpm \in Speeds, Telemetry(rpm) PROVE AnswerInv'
  <2>1. /\ toStudio' = toStudio \o Pdos(rpm) /\ sim' = [sim EXCEPT !.rpm = rpm]
        /\ held' = [o \in Objects |-> IF o = <<\h606C, 0>> THEN held[o] \cup {rpm} ELSE held[o]]
        /\ UNCHANGED <<toNodes, rx, captured, refresh, label>>
    BY <1>3 DEF Telemetry, studio
  <2>2. \A o \in Objects : held[o] \subseteq held'[o]
    BY <2>1
  <2>3. /\ sim' = [nmt |-> sim'.nmt, rpm |-> sim'.rpm, written |-> sim'.written]
        /\ sim'.rpm = rpm /\ sim'.written = sim.written
    <3>1. sim = [nmt |-> sim.nmt, rpm |-> sim.rpm, written |-> sim.written]
      BY <1>1 DEF SimTruthful
    <3> QED BY <2>1, <3>1
  <2>4. rpm \in Words /\ (<<\h606C, 0>> \in Objects => rpm \in held'[<<\h606C, 0>>])
    BY <2>1, BytesAssumption
  <2>5. SimTruthful'
    BY <1>1, <2>1, <2>2, <2>3, <2>4 DEF SimTruthful
  <2>6. AllTruthful(held', toStudio')
    <3>1. AllTruthful(held', toStudio)
      BY <1>1, <2>2, HistoryGrows
    <3> QED BY <2>1, <3>1, PdosTruthful, TruthJoins
  <2> QED BY <1>1, <2>1, <2>2, <2>5, <2>6, SentTruthfully
<1>4. ASSUME NEW f \in Foreign, Others(f) PROVE AnswerInv'
  <2>1. /\ toStudio' = Append(toStudio, f) /\ toNodes' = Append(toNodes, f)
        /\ UNCHANGED <<sim, held, rx, captured, refresh, label>>
    BY <1>4 DEF Others, studio
  <2>2. SimTruthful'
    BY <1>1, <2>1 DEF SimTruthful
  <2>3. AllTruthful(held', toStudio')
    <3>1. Truthful(held, f)
      BY ServerAssumption, OthersSayNothing
    <3> QED BY <1>1, <2>1, <3>1, TruthAppends
  <2>4. OfBytes(f)
    BY BytesAssumption DEF OfBytes
  <2>5. IsSequence(toNodes') /\ \A i \in 1..Len(toNodes') : OfBytes(toNodes'[i])
    BY <1>1, <2>1, <2>4, NodesGet
  <2> QED BY <2>1, <2>2, <2>3, <2>5, SentTruthfully
<1> QED BY <1>2, <1>3, <1>4

\* A request of the user is of bytes, and says nothing to the studio.
LEMMA RequestsAreBytes ==
  /\ \A command, node : OfBytes(NmtFrame(command, node))
  /\ \A o \in Objects : OfBytes(SdoRead(Server, o[1], o[2]))
  /\ \A o \in Objects, b \in Writes : OfBytes(SdoWrite(Server, o[1], o[2], b))
<1>1. ASSUME NEW command, NEW node PROVE OfBytes(NmtFrame(command, node))
  <2>1. NmtFrame(command, node).cid = \h000
    BY FrameNumbered DEF NmtFrame
  <2> QED BY <2>1 DEF OfBytes
<1>2. ASSUME NEW o \in Objects PROVE Object(o[1], o[2]) \in Seq(0..255)
  <2>1. o[1] \in Int /\ o[2] \in 0..255
    BY BytesAssumption DEF Words
  <2>2. Low(o[1]) \in 0..255
    BY <2>1, HighAndLow DEF Low
  <2>3. High(o[1]) \in 0..255
    <3>1. o[1] \div 256 \in Int
      BY <2>1, HighAndLow
    <3> QED BY <3>1, HighAndLow DEF High
  <2> QED BY <2>1, <2>2, <2>3 DEF Object
<1>3. ASSUME NEW o \in Objects PROVE OfBytes(SdoRead(Server, o[1], o[2]))
  <2>1. <<\h40>> \in Seq(0..255) /\ <<0, 0, 0, 0>> \in Seq(0..255)
    OBVIOUS
  <2>2. <<\h40>> \o Object(o[1], o[2]) \o <<0, 0, 0, 0>> \in Seq(0..255)
    BY <1>2, <2>1, ConcatProperties
  <2>3. SdoRead(Server, o[1], o[2]).data = <<\h40>> \o Object(o[1], o[2]) \o <<0, 0, 0, 0>>
    BY DEF SdoRead, Frame
  <2> QED BY <2>2, <2>3 DEF OfBytes
<1>4. ASSUME NEW o \in Objects, NEW b \in Writes
      PROVE  OfBytes(SdoWrite(Server, o[1], o[2], b))
  <2> DEFINE n == 4 - Len(b)
  <2>1. n \in 0..3
    <3>1. PICK k \in 1..4 : k = Len(b)
      BY BytesAssumption
    <3>2. 4 - k \in 0..3
      OBVIOUS
    <3> QED BY <3>1, <3>2
  <2> DEFINE command == <<\h23 + 4 * (n % 4)>>
             padding == [i \in 1..n |-> 0]
  <2>2. command \in Seq(0..255) /\ padding \in Seq(0..255)
    <3> HIDE DEF n
    <3>1. \h23 + 4 * (n % 4) \in 0..255
      BY <2>1
    <3>2. command \in Seq(0..255)
      BY <3>1
    <3>3. padding \in Seq(0..255)
      BY <2>1
    <3> QED BY <3>2, <3>3
  <2>3. SdoWrite(Server, o[1], o[2], b).data
          = command \o Object(o[1], o[2]) \o b \o padding
    <3> DEFINE data == command \o Object(o[1], o[2]) \o b \o padding
    <3>1. SdoWrite(Server, o[1], o[2], b) = Frame(\h600 + Server, data)
      BY Zenon DEF SdoWrite
    <3> HIDE DEF data
    <3>2. \A cid : Frame(cid, data).data = data
      BY DEF Frame
    <3>3. SdoWrite(Server, o[1], o[2], b).data = data
      BY <3>1, <3>2
    <3> QED BY <3>3 DEF data
  <2> HIDE DEF command, padding
  <2>4. b \in Seq(0..255)
    BY BytesAssumption
  <2>5. command \o Object(o[1], o[2]) \in Seq(0..255)
    BY <1>2, <2>2, ConcatProperties
  <2>6. command \o Object(o[1], o[2]) \o b \in Seq(0..255)
    BY <2>4, <2>5, ConcatProperties
  <2>7. command \o Object(o[1], o[2]) \o b \o padding \in Seq(0..255)
    BY <2>2, <2>6, ConcatProperties
  <2> QED BY <2>3, <2>7 DEF OfBytes
<1> QED BY <1>1, <1>3, <1>4

\* A set of positions has a last one.
LEMMA LastOf ==
  ASSUME NEW n \in Nat, NEW T, T \subseteq 1..n, T # {}
  PROVE  \E i \in T : \A j \in T : j <= i
<1> DEFINE D == {n - i : i \in T}
           Less == {p \in Nat \X Nat : p[1] < p[2]}
<1>1. D \subseteq Nat /\ D # {}
  <2>1. \A i \in T : n - i \in Nat
    OBVIOUS
  <2> QED BY <2>1
<1>2. IsWellFoundedOn(Less, Nat)
  BY NatLessThanWellFounded DEF OpToRel
<1>3. PICK x \in D : \A y \in D : ~ (<<y, x>> \in Less)
  <2> HIDE DEF Less, D
  <2> QED BY <1>1, <1>2, WFMin
<1>4. \A y \in D : ~ (y < x)
  <2> HIDE DEF D
  <2> QED BY <1>1, <1>3
<1>5. PICK i \in T : x = n - i
  OBVIOUS
<1>6. ASSUME NEW j \in T PROVE j <= i
  <2>1. ~ (n - j < n - i)
    BY <1>4, <1>5
  <2> QED BY <2>1
<1> QED BY <1>6

\* What the panel shows is the newest answer in the trace.
LEMMA CheckAnswers ==
  ASSUME AnswerInv, NEW o \in Objects, CheckSdoReply(o)
  PROVE  AnswerInv'
<1> DEFINE found == {i \in DOMAIN captured : Concerns(captured[i].frame, o)}
           newest == CHOOSE i \in found : \A j \in found : j <= i
           data == captured[newest].frame.data
<1>1. /\ UNCHANGED <<sim, toNodes, toStudio, rx, captured, refresh, held>>
      /\ label' = IF found = {} THEN [kind |-> "timeout"]
                  ELSE [kind |-> IF data[1] = \h80 THEN "abort" ELSE "reply",
                        object |-> o, value |-> Number(SubSeq(data, 5, Len(data)))]
  BY DEF CheckSdoReply, tk
<1>2. TraceTruthful(held, captured)
  BY DEF AnswerInv
<1>3. found # {} => newest \in 1..Len(captured) /\ Concerns(captured[newest].frame, o)
  <2>1. Len(captured) \in Nat /\ DOMAIN captured = 1..Len(captured)
    BY <1>2 DEF TraceTruthful, IsSequence
  <2>2. found \subseteq 1..Len(captured)
    BY <2>1
  <2>3. found # {} => newest \in found
    <3> HIDE DEF found
    <3>1. found # {} => \E i \in found : \A j \in found : j <= i
      BY <2>1, <2>2, LastOf
    <3> QED BY <3>1
  <2> QED BY <2>2, <2>3
<1> DEFINE f == captured[newest].frame
           value == Number(SubSeq(data, 5, Len(data)))
<1>4. found # {} /\ f.data[1] # \h80 => value \in held[o] \cup {0}
  <2> HIDE DEF newest, found
  <2> QED BY <1>2, <1>3 DEF TraceTruthful, Truthful
<1>5. f.data = data
  OBVIOUS
<1> HIDE DEF found, newest, data, f
<1>6. label'.kind = "reply" => label'.object \in Objects /\ label'.value \in held[o] \cup {0}
                               /\ label'.object = o
  <2> HIDE DEF value
  <2>1. CASE found = {}
    <3>1. label' = [kind |-> "timeout"]
      BY <1>1, <2>1
    <3> QED BY <3>1
  <2>2. CASE found # {}
    <3>1. label' = [kind |-> IF data[1] = \h80 THEN "abort" ELSE "reply",
                    object |-> o, value |-> value]
      BY <1>1, <2>2 DEF value
    <3>2. data[1] # \h80 => value \in held[o] \cup {0}
      BY <1>4, <1>5, <2>2
    <3> QED BY <3>1, <3>2
  <2> QED BY <2>1, <2>2
<1>7. SimTruthful' /\ AllTruthful(held', toStudio') /\ TraceTruthful(held', captured')
      /\ (rx'.pc = "append" => Truthful(held', rx'.frame))
      /\ (~ Free' => TraceTruthful(held', refresh'.trace))
  BY <1>1 DEF AnswerInv, SimTruthful, Free
<1>8. IsSequence(toNodes') /\ \A i \in 1..Len(toNodes') : OfBytes(toNodes[i])'
  BY <1>1 DEF AnswerInv, OfBytes
<1> QED BY <1>1, <1>6, <1>7, <1>8 DEF AnswerInv

\* A step that changes what is shown to something else than a reply, sends, or neither.
LEMMA WindowAnswers ==
  ASSUME AnswerInv,
         \/ TogglePause
         \/ \E c \in Commands, n \in Targets : SendNmt(c, n)
         \/ \E o \in Objects : SdoReads(o)
         \/ \E o \in Objects, b \in Writes : SdoWrites(o, b)
  PROVE  AnswerInv'
<1>1. /\ UNCHANGED <<sim, toStudio, rx, captured, refresh, held>>
      /\ label' = label \/ label'.kind # "reply"
  BY DEF TogglePause, SendNmt, SdoReads, SdoWrites, Send, tk
<1>2. toNodes' = toNodes \/ \E f : OfBytes(f) /\ toNodes' = Append(toNodes, f)
  BY RequestsAreBytes DEF TogglePause, SendNmt, SdoReads, SdoWrites, Send, tk
<1>3. IsSequence(toNodes') /\ \A i \in 1..Len(toNodes') : OfBytes(toNodes'[i])
  BY <1>2, NodesGet DEF AnswerInv
<1>4. SimTruthful' /\ AllTruthful(held', toStudio') /\ TraceTruthful(held', captured')
      /\ (rx'.pc = "append" => Truthful(held', rx'.frame))
      /\ (~ Free' => TraceTruthful(held', refresh'.trace))
  BY <1>1 DEF AnswerInv, SimTruthful, Free
<1>5. label'.kind = "reply" => /\ label'.object \in Objects
                               /\ label'.value \in held'[label'.object] \cup {0}
  BY <1>1 DEF AnswerInv
<1>6. \A i \in 1..Len(toNodes') : OfBytes(toNodes[i])'
  BY <1>3 DEF OfBytes
<1> QED BY <1>3, <1>4, <1>5, <1>6 DEF AnswerInv

\* The frames of the trace come from the bus, and a trim keeps some of them.
LEMMA TraceAnswers ==
  ASSUME AnswerInv, Capture \/ Record \/ RefreshSlices \/ RefreshStores \/ ClearTrace
  PROVE  AnswerInv'
<1>1. /\ UNCHANGED <<sim, toNodes, held, label>>
      /\ AllTruthful(held, toStudio) /\ TraceTruthful(held, captured)
      /\ ~ Free => TraceTruthful(held, refresh.trace)
      /\ rx.pc = "append" => Truthful(held, rx.frame)
  BY DEF AnswerInv, Capture, Record, RefreshSlices, RefreshStores, ClearTrace, tk, panel
<1>2. AllTruthful(held, toStudio')
  <2>1. CASE Capture
    <3>1. toStudio # <<>> /\ toStudio' = Tail(toStudio)
      BY <2>1 DEF Capture
    <3> QED BY <1>1, <3>1, SequenceLeft DEF AllTruthful
  <2>2. CASE ~ Capture
    BY <1>1, <2>2 DEF Record, RefreshSlices, RefreshStores, ClearTrace, tk
  <2> QED BY <2>1, <2>2
<1>3. rx'.pc = "append" => Truthful(held, rx'.frame)
  <2>1. CASE Capture
    <3>1. /\ toStudio # <<>>
          /\ rx' = IF paused THEN Idle
                   ELSE [pc |-> "append", frame |-> Head(toStudio), list |-> list]
      BY <2>1 DEF Capture
    <3>2. Truthful(held, Head(toStudio))
      BY <1>1, <3>1, SequenceLeft DEF AllTruthful
    <3> QED BY <3>1, <3>2 DEF Idle
  <2>2. CASE Record
    BY <2>2 DEF Record, Idle
  <2>3. CASE RefreshSlices \/ RefreshStores \/ ClearTrace
    BY <1>1, <2>3 DEF RefreshSlices, RefreshStores, ClearTrace, tk
  <2> QED BY <2>1, <2>2, <2>3
<1>4. TraceTruthful(held, captured')
  <2>1. CASE Record
    <3>1. PICK e : e.frame = rx.frame /\ captured' \in {captured, Append(captured, e)}
      BY <2>1 DEF Record
    <3>2. rx.pc = "append"
      BY <2>1 DEF Record
    <3>3. TraceTruthful(held, Append(captured, e))
      <4>1. /\ IsSequence(Append(captured, e)) /\ Len(captured) \in Nat
            /\ Len(Append(captured, e)) = Len(captured) + 1
            /\ \A i \in 1..Len(captured) : Append(captured, e)[i] = captured[i]
            /\ Append(captured, e)[Len(captured) + 1] = e
        BY <1>1, SequenceGrows DEF TraceTruthful
      <4>2. \A i \in 1..Len(Append(captured, e)) : i \in 1..Len(captured) \/ i = Len(captured) + 1
        BY <4>1
      <4> QED BY <1>1, <3>1, <3>2, <4>1, <4>2 DEF TraceTruthful
    <3> QED BY <1>1, <3>1, <3>3
  <2>2. CASE RefreshStores
    BY <1>1, <2>2 DEF RefreshStores
  <2>3. CASE ClearTrace
    <3>1. captured' = <<>> /\ <<>> \in Seq({}) /\ Len(<<>>) = 0
      BY <2>3 DEF ClearTrace
    <3> QED BY <3>1 DEF TraceTruthful, IsSequence
  <2>4. CASE Capture \/ RefreshSlices
    BY <1>1, <2>4 DEF Capture, RefreshSlices
  <2> QED BY <2>1, <2>2, <2>3, <2>4
<1>5. refresh' # NoList => TraceTruthful(held, refresh'.trace)
  <2>1. CASE RefreshSlices
    <3> DEFINE slice == Newest(captured, Keep)
    <3>1. refresh'.trace = slice
      BY <2>1 DEF RefreshSlices
    <3>2. /\ IsSequence(slice) /\ Len(captured) \in Nat
          /\ Len(slice) = IF Len(captured) > Keep THEN Keep ELSE Len(captured)
          /\ \A i \in 1..Len(slice) : slice[i] = captured[Len(captured) - Len(slice) + i]
      BY <1>1, NewestIsTheEnd, KeepAssumption DEF TraceTruthful
    <3> HIDE DEF slice
    <3>3. \A i \in 1..Len(slice) : Len(captured) - Len(slice) + i \in 1..Len(captured)
      BY <3>2, KeepAssumption
    <3> QED BY <1>1, <3>1, <3>2, <3>3 DEF TraceTruthful
  <2>2. CASE RefreshStores
    BY <2>2 DEF RefreshStores
  <2>3. CASE Capture \/ Record \/ ClearTrace
    BY <1>1, <2>3 DEF Capture, Record, ClearTrace, Free
  <2> QED BY <2>1, <2>2, <2>3
<1>6. SimTruthful' /\ IsSequence(toNodes') /\ \A i \in 1..Len(toNodes') : OfBytes(toNodes[i])'
  BY <1>1 DEF AnswerInv, SimTruthful, OfBytes
<1>7. label'.kind = "reply" => /\ label'.object \in Objects
                               /\ label'.value \in held'[label'.object] \cup {0}
  BY <1>1 DEF AnswerInv
<1> QED BY <1>1, <1>2, <1>3, <1>4, <1>5, <1>6, <1>7 DEF AnswerInv, Free

\* The panel shows no value an object never had (gui.py _check_sdo_reply), whatever is
\* read, written and sent by others, in whatever order: see ReplyIsTheObjects.
THEOREM RepliesAreTheObjects == Spec => []ReplyIsTheObjects
<1>1. AnswerInv /\ [Next]_vars => AnswerInv'
  <2> SUFFICES ASSUME AnswerInv, [Next]_vars PROVE AnswerInv'
    OBVIOUS
  <2>1. CASE UNCHANGED vars
    BY <2>1 DEF vars, AnswerInv, SimTruthful, OfBytes, AllTruthful, TraceTruthful, Free
  <2>2. CASE Next
    BY <2>2, NodesAnswer, SendersAnswer, CheckAnswers, WindowAnswers, TraceAnswers DEF Next
  <2> QED BY <2>1, <2>2
<1>2. AnswerInv => ReplyIsTheObjects
  BY DEF AnswerInv, ReplyIsTheObjects
<1> QED BY <1>1, <1>2, InitAnswers, PTL DEF Spec
=============================================================================
