----------------------------- MODULE BridgeProofs -----------------------------
(* What the bridge promises the two buses, and what the studio's threads that *)
(* start and stop bridges may rely on, for any signatures, agents and bounds. *)
EXTENDS Bridge, StudioBridge, TLAPS

(***************************************************************************)
(* The studio: who starts and stops bridges.                               *)
(***************************************************************************)
Places == Starts \cup {"outside", "stopping", "stopped", "closing"}

BridgingTypes ==
  /\ adopted \in Nat /\ bus \in Nat /\ asked \in 0..MaxBridges
  /\ source \in [1..MaxBridges -> Nat]
  /\ at \in [Callers -> Places] /\ own \in [Callers -> 0..MaxBridges]
  /\ \A t \in Callers : at[t] \in Starts => own[t] \in 1..asked
  /\ bridge \in 0..asked /\ armed \subseteq 1..asked /\ open \subseteq 1..asked

\* How far the start of a bridge has come that nobody came across.
Undisturbed(t) ==
  /\ \A u \in Callers : u # t => at[u] = "outside"
  /\ own[t] \notin armed
  /\ at[t] \in {"asked", "connected", "free"} => own[t] \notin open
  /\ at[t] # "asked" => bus # Nothing
  /\ at[t] \in {"free", "opened", "made"} => bridge = Nothing
  /\ at[t] \in {"opened", "made", "stored"} => own[t] \in open
  /\ at[t] \in {"made", "stored"} => source[own[t]] = bus \/ own[t] \in replaced
  /\ at[t] = "stored" => bridge = own[t]

\* A bridge whose start is over: nobody else is where a bridge or the link is
\* stored or forgotten.
Settled(b) ==
  /\ b = bridge /\ b \in armed /\ bus # Nothing
  /\ source[b] = bus \/ b \in replaced
  /\ \A t \in Callers : at[t] \in {"outside", "asked", "connected", "stopping"}

StartsInv ==
  /\ \A t \in Callers : at[t] \in Starts /\ own[t] \notin contended => Undisturbed(t)
  /\ \A b \in open \ contended : b \in BeingStarted \/ Settled(b)

BridgingInv == BridgingTypes /\ StartsInv

\* Nobody is inside, and there is no bridge.
LEMMA InitBridging == BridgingInit => BridgingInv
BY AdoptionsAssumption
DEF BridgingInit, BridgingInv, BridgingTypes, StartsInv, Places, Starts, Nothing

\* The types hold whatever is done; a bridge is numbered when it is asked for.
LEMMA BridgingTypesStep == BridgingTypes /\ [BridgingNext]_bridging => BridgingTypes'
<1> SUFFICES ASSUME BridgingTypes, [BridgingNext]_bridging PROVE BridgingTypes'
  OBVIOUS
<1> USE AdoptionsAssumption DEF BridgingTypes, Places, Starts, Nothing, Go, Leave
<1>1. CASE Adopt
  BY <1>1 DEF Adopt, Enter, Callers
<1>2. ASSUME NEW t \in Callers, AskToStart(t) \/ AskToStop(t) PROVE BridgingTypes'
  <2>1. CASE AskToStart(t)
    BY <2>1 DEF AskToStart, Enter
  <2>2. CASE AskToStop(t)
    BY <2>2 DEF AskToStop, Enter
  <2> QED BY <1>2, <2>1, <2>2
<1>3. ASSUME NEW t \in Callers, LookAtBus(t) \/ LookAtBridge(t) \/ OpenNetwork(t)
      PROVE  BridgingTypes'
  BY <1>3 DEF LookAtBus, LookAtBridge, OpenNetwork
<1>4. ASSUME NEW t \in Callers, Make(t) \/ Store(t) \/ Arm(t) PROVE BridgingTypes'
  <2>1. CASE Make(t)
    BY <2>1 DEF Make
  <2>2. CASE Store(t)
    BY <2>2 DEF Store
  <2>3. CASE Arm(t)
    BY <2>3 DEF Arm
  <2> QED BY <1>4, <2>1, <2>2, <2>3
<1>5. ASSUME NEW t \in Callers, StopIt(t) \/ Forget(t) PROVE BridgingTypes'
  <2>1. CASE StopIt(t)
    BY <2>1 DEF StopIt
  <2>2. CASE Forget(t)
    BY <2>2 DEF Forget
  <2> QED BY <1>5, <2>1, <2>2
<1>6. CASE Disconnect
  BY <1>6 DEF Disconnect, Enter, Callers
<1>7. CASE CloseLink
  BY <1>7 DEF CloseLink, Callers
<1>8. CASE UNCHANGED bridging
  BY <1>8 DEF bridging
<1> QED
  BY <1>1, <1>2, <1>3, <1>4, <1>5, <1>6, <1>7, <1>8 DEF BridgingNext

\* A caller that comes in disturbs the starts under way, and is disturbed by
\* whoever is inside; the bridge it starts is a new one.
LEMMA EnterKeeps ==
  ASSUME BridgingInv, NEW t \in Callers, NEW where \in Places, NEW b, Enter(t, where, b),
         where \in {"asked", "stopping"} \/ (where = "closing" /\ bridge = Nothing),
         where = "asked" => b \notin open \cup armed,
         UNCHANGED <<bridge, source, armed, open>>,
         \/ (bus' = bus \/ bus = Nothing) /\ replaced' = replaced
         \/ bus' # Nothing /\ replaced' = replaced \cup open
  PROVE  StartsInv'
<1> USE DEF BridgingInv, BridgingTypes
<1>1. /\ at[t] = "outside" /\ at'[t] = where /\ own'[t] = b
      /\ \A u \in Callers : u # t => at'[u] = at[u] /\ own'[u] = own[u]
  BY DEF Enter
<1>2. /\ contended \subseteq contended'
      /\ (\E u \in Callers : at[u] # "outside") =>
           BeingStarted \subseteq contended' /\ b \in contended'
  BY DEF Enter
<1>3. BeingStarted \subseteq BeingStarted' \cup contended'
  BY <1>1, <1>2 DEF BeingStarted, Starts
<1>4. ASSUME NEW u \in Callers, at'[u] \in Starts, own'[u] \notin contended'
      PROVE  Undisturbed(u)'
  <2>1. \A v \in Callers : at[v] = "outside"
    <3>1. ASSUME NEW v \in Callers, at[v] # "outside" PROVE FALSE
      <4>1. u # t
        BY <1>1, <1>2, <1>4, <3>1
      <4>2. own[u] \in BeingStarted
        BY <1>1, <1>4, <4>1 DEF BeingStarted
      <4> QED BY <1>1, <1>2, <1>4, <3>1, <4>1, <4>2
    <3> QED BY <3>1
  <2>2. u = t /\ where = "asked"
    BY <1>1, <1>4, <2>1 DEF Starts
  <2> QED BY <1>1, <2>1, <2>2 DEF Undisturbed
<1>5. ASSUME NEW c \in open' \ contended' PROVE c \in BeingStarted' \/ Settled(c)'
  <2>1. c \in BeingStarted \/ Settled(c)
    BY <1>2, <1>5 DEF StartsInv
  <2>2. CASE Settled(c)
    <3>1. bridge # Nothing /\ bus # Nothing /\ where \in {"asked", "stopping"} /\ c \in open
      BY <1>5, <2>2 DEF Settled, Nothing
    <3>2. bus' # Nothing /\ (source'[c] = bus' \/ c \in replaced')
      BY <2>2, <3>1 DEF Settled
    <3> QED BY <1>1, <2>2, <3>1, <3>2 DEF Settled
  <2> QED BY <1>3, <1>5, <2>1, <2>2
<1> QED BY <1>4, <1>5 DEF StartsInv

\* The steps of a caller that is inside.
Inside(t) == \/ LookAtBus(t) \/ LookAtBridge(t) \/ OpenNetwork(t) \/ Make(t) \/ Store(t)
             \/ Arm(t) \/ StopIt(t) \/ Forget(t) \/ (t = Tk /\ CloseLink)

\* No other start is undisturbed then, and no bridge is settled while one of them

\* stores or forgets a bridge or the link.
LEMMA InsideKeeps ==
  ASSUME BridgingInv, BridgingTypes', NEW t \in Callers, Inside(t)
  PROVE  StartsInv'
<1> USE DEF BridgingInv, BridgingTypes
<1>1. /\ at[t] # "outside" /\ UNCHANGED <<own, contended>>
      /\ \A u \in Callers : u # t => at'[u] = at[u]
      /\ at'[t] \in Starts => at[t] \in Starts
  BY DEF Inside, LookAtBus, LookAtBridge, OpenNetwork, Make, Store, Arm, StopIt, Forget,
         CloseLink, Go, Leave, Starts
<1>2. \A u \in Callers : at'[u] \in Starts /\ own'[u] \notin contended' => u = t
  BY <1>1 DEF StartsInv, Undisturbed
<1>3. ASSUME at[t] \in Starts, own[t] \notin contended PROVE Undisturbed(t)
  BY <1>3 DEF StartsInv
<1>4. BeingStarted \ {own[t]} \subseteq BeingStarted'
  BY <1>1 DEF BeingStarted
<1>5. at'[t] \in Starts => BeingStarted' = BeingStarted
  BY <1>1 DEF BeingStarted
<1>6. at[t] \notin Starts => BeingStarted' = BeingStarted
  BY <1>1 DEF BeingStarted
<1>7. SUFFICES /\ at'[t] \in Starts /\ own[t] \notin contended => Undisturbed(t)'
               /\ \A c \in open' \ contended : c \in BeingStarted' \/ Settled(c)'
  BY <1>1, <1>2 DEF StartsInv
<1>8. CASE LookAtBus(t)
  BY <1>1, <1>3, <1>4, <1>5, <1>8
  DEF LookAtBus, Go, Leave, Undisturbed, Settled, Starts, StartsInv
<1>9. CASE LookAtBridge(t)
  <2>1. /\ at[t] = "connected" /\ at'[t] \in {"free", "outside"}
        /\ UNCHANGED <<bus, bridge, source, armed, open, replaced>>
        /\ at'[t] = "free" <=> bridge = Nothing
    BY <1>9 DEF LookAtBridge, Go, Leave
  <2>2. at'[t] \in Starts /\ own[t] \notin contended => Undisturbed(t)'
    BY <1>1, <1>3, <2>1 DEF Undisturbed, Starts
  <2>3. ASSUME NEW c \in open' \ contended PROVE c \in BeingStarted' \/ Settled(c)'
    <3>1. c \in BeingStarted \/ Settled(c)
      BY <2>1, <2>3 DEF StartsInv
    <3>2. CASE c = own[t]
      BY <1>3, <2>1, <2>3, <3>2 DEF Undisturbed, Starts
    <3>3. CASE Settled(c)
      BY <1>1, <2>1, <3>3 DEF Settled, Nothing
    <3> QED BY <1>4, <3>1, <3>2, <3>3
  <2> QED BY <2>2, <2>3
<1>10. CASE OpenNetwork(t)
  BY <1>1, <1>3, <1>4, <1>5, <1>10
  DEF OpenNetwork, Go, Leave, Undisturbed, Settled, Starts, StartsInv, BeingStarted
<1>11. CASE Make(t)
  BY <1>1, <1>3, <1>4, <1>5, <1>11
  DEF Make, Go, Leave, Undisturbed, Settled, Starts, StartsInv
<1>12. CASE Store(t)
  BY <1>1, <1>3, <1>4, <1>5, <1>12
  DEF Store, Go, Leave, Undisturbed, Settled, Starts, StartsInv
<1>13. CASE Arm(t)
  BY <1>1, <1>3, <1>4, <1>5, <1>13
  DEF Arm, Go, Leave, Undisturbed, Settled, Starts, StartsInv, Nothing
<1>14. CASE StopIt(t)
  BY <1>1, <1>4, <1>6, <1>14
  DEF StopIt, Go, Leave, Undisturbed, Settled, Starts, StartsInv, Nothing
<1>15. CASE Forget(t)
  BY <1>1, <1>6, <1>15
  DEF Forget, Go, Leave, Undisturbed, Settled, Starts, StartsInv
<1>16. CASE t = Tk /\ CloseLink
  BY <1>1, <1>6, <1>16
  DEF CloseLink, Go, Leave, Undisturbed, Settled, Starts, StartsInv
<1> QED
  BY <1>8, <1>9, <1>10, <1>11, <1>12, <1>13, <1>14, <1>15, <1>16 DEF Inside

\* A start that goes on is undisturbed if it was, and keeps the others' bridges.
LEMMA StartsStep == BridgingInv /\ BridgingTypes' /\ [BridgingNext]_bridging => StartsInv'
<1> SUFFICES ASSUME BridgingInv, BridgingTypes', [BridgingNext]_bridging PROVE StartsInv'
  OBVIOUS
<1> USE DEF BridgingInv, BridgingTypes
<1>1. CASE Adopt
  <2>1. /\ UNCHANGED <<bridge, source, armed, open>> /\ bus' # Nothing
        /\ \/ bus = Nothing /\ replaced' = replaced
           \/ replaced' = replaced \cup open
    BY <1>1 DEF Adopt, Nothing
  <2>2. CASE UNCHANGED <<at, own, contended, asked>>
    <3>1. BeingStarted' = BeingStarted
      BY <2>2 DEF BeingStarted
    <3>2. ASSUME NEW t \in Callers, at[t] \in Starts, own[t] \notin contended
          PROVE  Undisturbed(t)'
      <4>1. Undisturbed(t)
        BY <3>2 DEF StartsInv
      <4> QED BY <2>1, <2>2, <4>1 DEF Undisturbed
    <3>3. ASSUME NEW b \in open \ contended PROVE b \in BeingStarted \/ Settled(b)'
      <4>1. b \in BeingStarted \/ Settled(b)
        BY <3>3 DEF StartsInv
      <4> QED BY <2>1, <2>2, <3>3, <4>1 DEF Settled
    <3> QED BY <2>1, <2>2, <3>1, <3>2, <3>3 DEF StartsInv
  <2>3. CASE Enter(Tk, "asked", asked + 1)
    <3>1. asked + 1 \notin open \cup armed /\ Tk \in Callers /\ "asked" \in Places
      BY DEF Callers, Places, Starts
    <3> QED BY <2>1, <2>3, <3>1, EnterKeeps
  <2> QED BY <1>1, <2>2, <2>3 DEF Adopt
<1>2. CASE Disconnect
  BY <1>2, EnterKeeps DEF Disconnect, Callers, Places
<1>3. ASSUME NEW t \in Callers, AskToStart(t) PROVE StartsInv'
  BY <1>3, EnterKeeps DEF AskToStart, Places, Starts
<1>4. ASSUME NEW t \in Callers, AskToStop(t) PROVE StartsInv'
  BY <1>4, EnterKeeps DEF AskToStop, Places
<1>5. ASSUME NEW t \in Callers, Inside(t) PROVE StartsInv'
  BY <1>5, InsideKeeps
<1>6. CASE UNCHANGED bridging
  BY <1>6 DEF bridging, StartsInv, Undisturbed, Settled, BeingStarted
<1> QED
  BY <1>1, <1>2, <1>3, <1>4, <1>5, <1>6 DEF BridgingNext, Inside, Callers

\* Of the bridge the studio has and of those on their way there (gui.py,
\* start_bridge, stop_bridge, _disconnect): see BridgeKeepsToItsLink.
THEOREM BridgesKeepToTheirLink == BridgingSpec => []BridgeKeepsToItsLink
<1>1. BridgingInv /\ [BridgingNext]_bridging => BridgingInv'
  BY BridgingTypesStep, StartsStep DEF BridgingInv
<1>2. BridgingInv => BridgeKeepsToItsLink
  BY DEF BridgingInv, BridgingTypes, StartsInv, Settled, Undisturbed, BeingStarted,
         BridgeKeepsToItsLink
<1> QED BY <1>1, <1>2, InitBridging, PTL DEF BridgingSpec

(***************************************************************************)
(* The bridge: loop protection in both directions.                         *)
(***************************************************************************)
Once(q, s) == \A i, j \in 1..Len(q) : q[i] = s /\ q[j] = s => i = j

BridgeTypes ==
  /\ TypeOK /\ lingering \in BOOLEAN /\ failures \in Nat
  /\ sourceRx \in Seq(Signatures) /\ netRx \in Seq(Signatures)
  /\ count \in [Events -> [Signatures -> Nat]]

\* stop() takes its steps one after the other.
StopInv == /\ running <=> stopPc = "no"
           /\ netOpen <=> stopPc \in {"no", "join", "shutdown"}
           /\ InjectThreadLetGo

InCap(s, pcs) == cap \in pcs /\ capFrame = s
InInj(s, pcs) == inj \in pcs /\ injFrame = s
Capped(s) == InCap(s, {"consume", "remember", "send"})
Handled(s) == InInj(s, {"got", "consume", "remember", "send"})

\* A signature that was never repeated is in one place at a time.
OneCopy(s) ==
  /\ Once(sourceRx, s) /\ Once(netRx, s)
  /\ Contains(sourceRx, s) => ~ Contains(netRx, s) /\ ~ Capped(s) /\ ~ Handled(s)
  /\ Contains(netRx, s) => ~ Capped(s) /\ ~ Handled(s)
  /\ Capped(s) => ~ Handled(s)

\* On the way to forward(), or to the inject thread, and not decided on yet.
Coming(s) == Contains(sourceRx, s) \/ InCap(s, {"consume"})
Arriving(s) == Contains(netRx, s) \/ InInj(s, {"got", "consume"})

\* It will be passed on.
ToForward(s) == (Coming(s) /\ s \notin injected) \/ InCap(s, {"remember", "send"})
ToInject(s) == (Arriving(s) /\ s \notin forwarded) \/ InInj(s, {"remember", "send"})

One(b) == IF b THEN 1 ELSE 0

\* What was passed on and what will be came from the other side; what is sent
\* has its stamp.  When the stamps are gone nothing more is taken.
Passed(s) ==
  /\ stopPc # "done" =>
       /\ count["forwarded"][s] + One(ToForward(s)) <= count["device"][s]
       /\ count["injected"][s] + One(ToInject(s)) <= count["remote"][s]
       /\ InCap(s, {"send"}) => s \in forwarded
       /\ InInj(s, {"send"}) => s \in injected
  /\ ~ lingering =>
       /\ count["forwarded"][s] <= count["device"][s]
       /\ count["injected"][s] + One(InInj(s, {"send"})) <= count["remote"][s]

\* A stamp whose send is over is matched by a reflection, or by a send without one.
Matched(s) ==
  /\ count["suppressed"][s] + One(s \in injected /\ ~ InInj(s, {"send"}))
       <= count["echoed"][s] + count["unechoed"][s]
  /\ count["suppressed_inject"][s] + One(s \in forwarded /\ ~ InCap(s, {"send"}))
       <= count["reflected"][s] + count["unreflected"][s]

Protected(s) == OneCopy(s) /\ Passed(s) /\ Matched(s)

BridgeInv == /\ BridgeTypes /\ StopInv
             /\ \A s \in Signatures \ repeated : Protected(s)

\* What the head of a queue leaves behind.
LEMMA TailContains ==
  ASSUME NEW S, NEW q \in Seq(S), q # <<>>, NEW s
  PROVE  /\ Contains(Tail(q), s) => Contains(q, s)
         /\ Contains(q, s) => Head(q) = s \/ Contains(Tail(q), s)
         /\ Once(q, s) => Once(Tail(q), s)
         /\ Once(q, s) /\ Head(q) = s => ~ Contains(Tail(q), s)
<1>1. /\ Len(q) \in Nat \ {0} /\ Head(q) = q[1] /\ Len(Tail(q)) = Len(q) - 1
      /\ \A i \in 1..(Len(q) - 1) : Tail(q)[i] = q[i + 1]
  OBVIOUS
<1>2. Contains(Tail(q), s) => Contains(q, s)
  BY <1>1 DEF Contains
<1>3. Contains(q, s) => Head(q) = s \/ Contains(Tail(q), s)
  <2> SUFFICES ASSUME NEW i \in 1..Len(q), q[i] = s, i # 1 PROVE Contains(Tail(q), s)
    BY <1>1 DEF Contains
  <2>1. i - 1 \in 1..(Len(q) - 1) /\ Tail(q)[i - 1] = s
    BY <1>1
  <2> QED BY <1>1, <2>1 DEF Contains
<1>4. Once(q, s) => Once(Tail(q), s)
  BY <1>1 DEF Once
<1>5. Once(q, s) /\ Head(q) = s => ~ Contains(Tail(q), s)
  BY <1>1 DEF Once, Contains
<1> QED BY <1>2, <1>3, <1>4, <1>5

\* What is appended to a queue comes beside what it holds.
LEMMA AppendContains ==
  ASSUME NEW S, NEW q \in Seq(S), NEW x \in S, NEW s
  PROVE  /\ Contains(Append(q, x), s) <=> Contains(q, s) \/ x = s
         /\ Once(q, s) /\ (x = s => ~ Contains(q, s)) => Once(Append(q, x), s)
<1>1. /\ Len(q) \in Nat /\ Len(Append(q, x)) = Len(q) + 1
      /\ \A i \in 1..Len(q) : Append(q, x)[i] = q[i]
      /\ Append(q, x)[Len(q) + 1] = x
  OBVIOUS
<1>2. Contains(Append(q, x), s) <=> Contains(q, s) \/ x = s
  BY <1>1 DEF Contains
<1>3. Once(q, s) /\ (x = s => ~ Contains(q, s)) => Once(Append(q, x), s)
  BY <1>1 DEF Once, Contains
<1> QED BY <1>2, <1>3

\* Nothing is queued, counted or stamped.
LEMMA InitBridge == Init => BridgeInv
<1> SUFFICES ASSUME Init PROVE BridgeInv
  OBVIOUS
<1>1. BridgeTypes
  BY DEF Init, BridgeTypes, TypeOK
<1>2. StopInv
  BY DEF Init, StopInv, InjectThreadLetGo
<1>3. ASSUME NEW s \in Signatures PROVE Protected(s)
  <2>1. /\ ~ Contains(<<>>, s) /\ Once(<<>>, s)
    BY DEF Contains, Once
  <2>2. \A e \in Events : count[e][s] = 0
    BY DEF Init
  <2> QED
    BY <2>1, <2>2 DEF Init, Events, Protected, OneCopy, Passed, Matched, Capped, Handled, InCap,
       InInj, Coming, Arriving, ToForward, ToInject, One
<1> QED BY <1>1, <1>2, <1>3 DEF BridgeInv

\* What is counted, and what is not.
LEMMA CountedOnce ==
  ASSUME BridgeTypes, NEW e \in Events, NEW x \in Signatures, Counted(e, x)
  PROVE  /\ count' \in [Events -> [Signatures -> Nat]]
         /\ \A f \in Events, s \in Signatures :
              count'[f][s] = IF f = e /\ s = x THEN count[f][s] + 1 ELSE count[f][s]
BY DEF BridgeTypes, Counted

\* Both are counted, and nothing else.
LEMMA CountedTwice ==
  ASSUME BridgeTypes, NEW e \in Events, NEW d \in Events, e # d, NEW x \in Signatures,
         CountedBoth(e, d, x)
  PROVE  /\ count' \in [Events -> [Signatures -> Nat]]
         /\ \A f \in Events, s \in Signatures :
              count'[f][s] = IF f \in {e, d} /\ s = x THEN count[f][s] + 1 ELSE count[f][s]
<1> USE DEF CountedBoth
<1>1. \A f \in Events : f # d => count'[f] = [count EXCEPT ![e][x] = @ + 1][f]
  BY DEF BridgeTypes
<1>2. count'[d] = [count[d] EXCEPT ![x] = @ + 1] /\ count'[e] = [count[e] EXCEPT ![x] = @ + 1]
  BY DEF BridgeTypes
<1>3. \A f \in Events : f \notin {e, d} => count'[f] = count[f]
  BY DEF BridgeTypes
<1>4. ASSUME NEW f \in Events PROVE count'[f] \in [Signatures -> Nat]
  <2>1. count[f] \in [Signatures -> Nat]
    BY DEF BridgeTypes
  <2>2. CASE f \in {e, d}
    <3>1. PICK g : g = count[f]
      OBVIOUS
    <3>2. count'[f] = [g EXCEPT ![x] = @ + 1]
      BY <1>2, <2>2, <3>1
    <3>3. g \in [Signatures -> Nat]
      BY <2>1, <3>1
    <3>4. [g EXCEPT ![x] = @ + 1] \in [Signatures -> Nat]
      BY <3>3
    <3> QED BY <3>2, <3>4
  <2> QED BY <1>3, <2>1, <2>2
<1>5. DOMAIN count' = Events /\ count' = [f \in Events |-> count'[f]]
  BY DEF BridgeTypes
<1>6. \A f \in Events, s \in Signatures :
        count'[f][s] = IF f \in {e, d} /\ s = x THEN count[f][s] + 1 ELSE count[f][s]
  BY <1>2, <1>3 DEF BridgeTypes
<1> QED BY <1>4, <1>5, <1>6

\* The types hold whatever is done.
LEMMA BridgeTypesStep == BridgeTypes /\ [Next]_vars => BridgeTypes'
<1> SUFFICES ASSUME BridgeTypes, [Next]_vars PROVE BridgeTypes'
  OBVIOUS
<1> USE DEF BridgeTypes, TypeOK, stopVars, busVars, stampVars, capVars, injVars, aside
<1>1. CASE Forward
  BY <1>1 DEF Forward
<1>3. CASE ForwardConsume
  <2>1. count' \in [Events -> [Signatures -> Nat]]
    BY <1>3, CountedOnce DEF ForwardConsume, Events
  <2> QED BY <1>3, <2>1 DEF ForwardConsume
<1>4. CASE ForwardRemember
  BY <1>4 DEF ForwardRemember
<1>24. CASE ForwardFails
  <2>1. count' \in [Events -> [Signatures -> Nat]]
    BY <1>24, CountedOnce DEF ForwardFails, Events
  <2> QED BY <1>24, <2>1 DEF ForwardFails
<1>5. CASE ForwardSend
  <2>1. count' \in [Events -> [Signatures -> Nat]]
    <3>1. PICK how \in {"reflected", "unreflected"} : CountedBoth("forwarded", how, capFrame)
      BY <1>5 DEF ForwardSend
    <3>2. "forwarded" \in Events /\ how \in Events /\ "forwarded" # how /\ capFrame \in Signatures
      BY <1>5 DEF ForwardSend, Events
    <3> QED BY <3>1, <3>2, CountedTwice
  <2>2. netRx' \in Seq(Signatures)
    <3>1. capFrame \in Signatures /\ (netRx' = netRx \/ netRx' = Append(netRx, capFrame))
      BY <1>5 DEF ForwardSend
    <3>2. Append(netRx, capFrame) \in Seq(Signatures)
      BY <3>1
    <3> QED BY <3>1, <3>2
  <2> QED BY <1>5, <2>1, <2>2 DEF ForwardSend
<1>6. CASE InjectCheck
  BY <1>6 DEF InjectCheck
<1>16. CASE InjectRecv
  <2>1. CASE netOpen /\ netRx # <<>>
    <3>1. Head(netRx) \in Signatures /\ Tail(netRx) \in Seq(Signatures)
      BY <2>1
    <3> QED BY <1>16, <2>1, <3>1 DEF InjectRecv
  <2>2. CASE ~ (netOpen /\ netRx # <<>>)
    BY <1>16, <2>2 DEF InjectRecv
  <2> QED BY <2>1, <2>2
<1>26. CASE InjectRunning
  BY <1>26 DEF InjectRunning
<1>7. CASE InjectConsume
  <2>1. count' \in [Events -> [Signatures -> Nat]]
    BY <1>7, CountedOnce DEF InjectConsume, Events
  <2> QED BY <1>7, <2>1 DEF InjectConsume
<1>8. CASE InjectRemember
  BY <1>8 DEF InjectRemember
<1>18. CASE InjectFails
  <2>1. count' \in [Events -> [Signatures -> Nat]]
    BY <1>18, CountedOnce DEF InjectFails, Events
  <2> QED BY <1>18, <2>1 DEF InjectFails
<1>9. CASE InjectSend
  <2>1. count' \in [Events -> [Signatures -> Nat]]
    <3>1. PICK how \in {"echoed", "unechoed"} : CountedBoth("injected", how, injFrame)
      BY <1>9 DEF InjectSend
    <3>2. "injected" \in Events /\ how \in Events /\ "injected" # how /\ injFrame \in Signatures
      BY <1>9 DEF InjectSend, Events
    <3> QED BY <3>1, <3>2, CountedTwice
  <2>2. sourceRx' \in Seq(Signatures)
    <3>1. injFrame \in Signatures /\ (sourceRx' = sourceRx \/ sourceRx' = Append(sourceRx, injFrame))
      BY <1>9 DEF InjectSend
    <3>2. Append(sourceRx, injFrame) \in Seq(Signatures)
      BY <3>1
    <3> QED BY <3>1, <3>2
  <2> QED BY <1>9, <2>1, <2>2 DEF InjectSend
<1>10. CASE Stop \/ Stopping
  BY <1>10 DEF Stop, Stopping, Joined, Shutdown, ClearStamps
<1>11. ASSUME NEW s \in Signatures, Device(s) PROVE BridgeTypes'
  <2>1. count' \in [Events -> [Signatures -> Nat]]
    BY <1>11, CountedOnce DEF Device, Events
  <2>2. sourceRx' \in Seq(Signatures)
    BY <1>11 DEF Device
  <2> QED BY <1>11, <2>1, <2>2 DEF Device, Repeats
<1>12. ASSUME NEW s \in Signatures, Remote(s) PROVE BridgeTypes'
  <2>1. count' \in [Events -> [Signatures -> Nat]]
    BY <1>12, CountedOnce DEF Remote, Events
  <2>2. netRx' \in Seq(Signatures)
    BY <1>12 DEF Remote
  <2> QED BY <1>12, <2>1, <2>2 DEF Remote, Repeats
<1>13. ASSUME NEW s \in Signatures, Expire(s) PROVE BridgeTypes'
  BY <1>13 DEF Expire
<1>14. CASE UNCHANGED vars
  BY <1>14 DEF vars
<1> QED
  BY <1>1, <1>3, <1>4, <1>24, <1>5, <1>6, <1>16, <1>26, <1>7, <1>8, <1>18, <1>9, <1>10, <1>11,
     <1>12, <1>13, <1>14 DEF Next, Capturing, Injecting

\* The thread leaves its loop once the bridge has stopped.
LEMMA StopStep == BridgeTypes /\ StopInv /\ [Next]_vars => StopInv'
<1> SUFFICES ASSUME BridgeTypes, StopInv, [Next]_vars PROVE StopInv'
  OBVIOUS
<1> USE DEF StopInv, InjectThreadLetGo, BridgeTypes, TypeOK, stopVars
<1>1. CASE Capturing
  BY <1>1 DEF Capturing, Forward, ForwardConsume, ForwardRemember, ForwardSend, ForwardFails,
     injVars
<1>2. CASE InjectCheck \/ InjectRecv \/ InjectRunning \/ InjectConsume
  BY <1>2 DEF InjectCheck, InjectRecv, InjectRunning, InjectConsume
<1>3. CASE InjectRemember \/ InjectSend \/ InjectFails
  BY <1>3 DEF InjectRemember, InjectSend, InjectFails
<1>4. CASE Stop \/ Stopping
  BY <1>4 DEF Stop, Stopping, Joined, Shutdown, ClearStamps, injVars
<1>5. ASSUME NEW s \in Signatures, Device(s) \/ Remote(s) \/ Expire(s) PROVE StopInv'
  BY <1>5 DEF Device, Remote, Expire, injVars
<1>6. CASE UNCHANGED vars
  BY <1>6 DEF vars, injVars
<1> QED
  BY <1>1, <1>2, <1>3, <1>4, <1>5, <1>6 DEF Next, Injecting

\* What is counted of a signature is a number.
Figures(s) == /\ count["forwarded"][s] \in Nat /\ count["injected"][s] \in Nat
              /\ count["device"][s] \in Nat /\ count["remote"][s] \in Nat
              /\ count["echoed"][s] \in Nat /\ count["suppressed"][s] \in Nat
              /\ count["reflected"][s] \in Nat /\ count["suppressed_inject"][s] \in Nat
              /\ count["unechoed"][s] \in Nat /\ count["unreflected"][s] \in Nat

SameCount(s, events) == \A e \in events : count'[e][s] = count[e][s]

\* A step after which no more is to be passed on than before, stamped when sent.
NoMoreToPass(s) ==
  stopPc' # "done" => /\ ToForward(s)' => ToForward(s)
                      /\ ToInject(s)' => ToInject(s)
                      /\ InCap(s, {"send"})' => s \in forwarded'
                      /\ InInj(s, {"send"})' => s \in injected'

\* What is said of stamps and their reflections is counted.
MatchEvents == {"suppressed", "echoed", "unechoed",
                "suppressed_inject", "reflected", "unreflected"}

\* A step after which no more stamps are left of sends that are over.
NoMoreStamps(s) ==
  /\ s \in injected' /\ ~ InInj(s, {"send"})' => s \in injected /\ ~ InInj(s, {"send"})
  /\ s \in forwarded' /\ ~ InCap(s, {"send"})' => s \in forwarded /\ ~ InCap(s, {"send"})

\* Nothing more was passed on.
LEMMA PassedKept ==
  ASSUME NEW s, Figures(s), Passed(s), stopPc' # "done" => stopPc # "done",
         lingering' = lingering, SameCount(s, {"forwarded", "injected", "device", "remote"}),
         NoMoreToPass(s),
         InInj(s, {"send"})' => InInj(s, {"send"}) \/ (stopPc # "done" /\ ToInject(s))
  PROVE  Passed(s)'
<1> USE DEF NoMoreToPass
<1>1. /\ count'["forwarded"][s] = count["forwarded"][s]
      /\ count'["injected"][s] = count["injected"][s]
      /\ count'["device"][s] = count["device"][s]
      /\ count'["remote"][s] = count["remote"][s]
  BY DEF SameCount
<1>2. stopPc' # "done" => One(ToForward(s)') <= One(ToForward(s))
                          /\ One(ToInject(s)') <= One(ToInject(s))
  BY DEF One
<1>3. \/ One(InInj(s, {"send"})') <= One(InInj(s, {"send"}))
      \/ stopPc # "done" /\ One(InInj(s, {"send"})') <= One(ToInject(s))
  BY DEF One
<1>4. /\ One(ToForward(s)') \in Nat /\ One(ToForward(s)) \in Nat
      /\ One(ToInject(s)') \in Nat /\ One(ToInject(s)) \in Nat
      /\ One(InInj(s, {"send"})') \in Nat /\ One(InInj(s, {"send"})) \in Nat
  BY DEF One
<1>5. stopPc' # "done" =>
        /\ count'["forwarded"][s] + One(ToForward(s)') <= count'["device"][s]
        /\ count'["injected"][s] + One(ToInject(s)') <= count'["remote"][s]
  BY <1>1, <1>2, <1>4 DEF Passed, Figures
<1>6. ~ lingering' => /\ count'["forwarded"][s] <= count'["device"][s]
                      /\ count'["injected"][s] + One(InInj(s, {"send"})') <= count'["remote"][s]
  BY <1>1, <1>3, <1>4 DEF Passed, Figures
<1> QED BY <1>5, <1>6 DEF Passed

\* Nothing is discarded, and no stamp is left over.
LEMMA MatchedKept ==
  ASSUME NEW s, Figures(s), Matched(s), SameCount(s, MatchEvents), NoMoreStamps(s)
  PROVE  Matched(s)'
<1> DEFINE echo == One(s \in injected /\ ~ InInj(s, {"send"}))
           back == One(s \in forwarded /\ ~ InCap(s, {"send"}))
<1>1. \A e \in MatchEvents : count'[e][s] = count[e][s]
  BY DEF SameCount
<1>2. echo' <= echo /\ back' <= back
  BY DEF One, NoMoreStamps
<1>3. /\ echo' \in Nat /\ echo \in Nat /\ back' \in Nat /\ back \in Nat
  BY DEF One
<1>4. /\ count["suppressed"][s] + echo <= count["echoed"][s] + count["unechoed"][s]
      /\ count["suppressed_inject"][s] + back <= count["reflected"][s] + count["unreflected"][s]
  BY DEF Matched
<1>5. SUFFICES /\ count'["suppressed"][s] + echo' <= count'["echoed"][s] + count'["unechoed"][s]
               /\ count'["suppressed_inject"][s] + back'
                    <= count'["reflected"][s] + count'["unreflected"][s]
  BY DEF Matched
<1> HIDE DEF echo, back
<1> QED BY <1>1, <1>2, <1>3, <1>4 DEF Figures, MatchEvents

\* A frame only moves on, or is dropped by a bridge that has stopped.
LEMMA FrameMoves ==
  ASSUME NEW s, Figures(s), Protected(s), OneCopy(s)',
         UNCHANGED <<running, stopPc, injected, forwarded, count, failures, lingering>>,
         Coming(s)' => Coming(s), Arriving(s)' => Arriving(s),
         running => (Coming(s) => Coming(s)') /\ (Arriving(s) => Arriving(s)'),
         InCap(s, {"send"})' <=> InCap(s, {"send"}),
         InCap(s, {"remember", "send"})' <=> InCap(s, {"remember", "send"}),
         InInj(s, {"send"})' <=> InInj(s, {"send"}),
         InInj(s, {"remember", "send"})' <=> InInj(s, {"remember", "send"})
  PROVE  Protected(s)'
<1>1. SameCount(s, Events)
  BY DEF SameCount
<1>2. NoMoreToPass(s)
  BY DEF Protected, Passed, ToForward, ToInject, NoMoreToPass
<1>3. Passed(s)'
  BY <1>1, <1>2, PassedKept DEF Protected, SameCount, Events
<1>4. NoMoreStamps(s)
  BY DEF NoMoreStamps
<1>5. Matched(s)'
  BY <1>1, <1>4, MatchedKept DEF Protected, SameCount, Events, MatchEvents
<1> QED BY <1>3, <1>5 DEF Protected

\* The capture loop forwards what it should and keeps what comes back.
LEMMA CaptureProtects ==
  ASSUME BridgeTypes, StopInv, NEW s \in Signatures, Protected(s), Capturing
  PROVE  Protected(s)'
<1> DEFINE ForwardTypes == /\ sourceRx \in Seq(Signatures) /\ netRx \in Seq(Signatures)
                           /\ cap # "idle" => capFrame \in Signatures
                           /\ running <=> stopPc = "no"
                           /\ netOpen <=> stopPc \in {"no", "join", "shutdown"}
<1>6. Figures(s)
  BY DEF Events, BridgeTypes, Figures
<1>7. ForwardTypes
  BY DEF BridgeTypes, TypeOK, StopInv
<1> HIDE DEF ForwardTypes
<1>1. CASE Forward
  <2>1. Head(sourceRx) \in Signatures /\ sourceRx' = Tail(sourceRx)
    BY <1>1, <1>7 DEF Forward, ForwardTypes
  <2>2. /\ Contains(sourceRx', s) => Contains(sourceRx, s)
        /\ Contains(sourceRx, s) => Head(sourceRx) = s \/ Contains(sourceRx', s)
        /\ Once(sourceRx, s) => Once(sourceRx', s)
        /\ Once(sourceRx, s) /\ Head(sourceRx) = s => ~ Contains(sourceRx', s)
    BY <1>1, <1>7, <2>1, TailContains DEF Forward, ForwardTypes
  <2>3. Head(sourceRx) = s => Contains(sourceRx, s)
    BY <1>1 DEF Forward, Contains
  <2>4. /\ cap = "idle"
        /\ running => cap' = "consume" /\ capFrame' = Head(sourceRx)
        /\ ~ running => cap' = "idle" /\ capFrame' = capFrame
        /\ UNCHANGED <<running, netOpen, stopPc, netRx, injected, forwarded, inj, injFrame,
                       count, failures, lingering>>
    BY <1>1 DEF Forward, stopVars, stampVars, injVars, aside, capVars
  <2>5. OneCopy(s)'
    BY <2>2, <2>3, <2>4 DEF Protected, OneCopy, Capped, Handled, InCap, InInj
  <2>6. /\ Coming(s)' => Coming(s)
        /\ running => (Coming(s) => Coming(s)')
        /\ Arriving(s)' <=> Arriving(s)
        /\ InInj(s, {"send"})' <=> InInj(s, {"send"})
        /\ InInj(s, {"remember", "send"})' <=> InInj(s, {"remember", "send"})
        /\ InCap(s, {"send"})' <=> InCap(s, {"send"})
        /\ InCap(s, {"remember", "send"})' <=> InCap(s, {"remember", "send"})
    BY <2>2, <2>3, <2>4 DEF Coming, Arriving, InInj, InCap
  <2> QED BY <1>6, <2>4, <2>5, <2>6, FrameMoves
<1>2. CASE ForwardConsume
  <2>1. /\ cap = "consume" /\ capFrame' = capFrame /\ capFrame \in Signatures
        /\ UNCHANGED <<running, netOpen, stopPc, sourceRx, netRx, forwarded, inj, injFrame,
                       failures, lingering>>
        /\ s \in injected' <=> s \in injected /\ capFrame # s
        /\ cap' = IF capFrame \in injected THEN "idle" ELSE "remember"
    BY <1>2, <1>7 DEF ForwardConsume, stopVars, busVars, injVars, aside, ForwardTypes
  <2>2. OneCopy(s)'
    BY <2>1 DEF Protected, OneCopy, Capped, Handled, InCap, InInj
  <2>3. /\ Arriving(s)' <=> Arriving(s)
        /\ ToInject(s)' <=> ToInject(s)
        /\ InInj(s, {"send"})' <=> InInj(s, {"send"})
        /\ ~ InCap(s, {"send"}) /\ ~ InCap(s, {"send"})'
    BY <2>1 DEF Arriving, ToInject, InInj, InCap
  <2>4. capFrame = s => ~ Contains(sourceRx, s) /\ ~ InInj(s, {"send"})
    BY <2>1 DEF Protected, OneCopy, Capped, Handled, InCap, InInj
  <2>5. /\ capFrame # s => (Coming(s)' <=> Coming(s)) /\ (ToForward(s)' <=> ToForward(s))
        /\ capFrame = s => Coming(s) /\ ~ Coming(s)' /\ (ToForward(s)' <=> s \notin injected)
                           /\ (ToForward(s) <=> s \notin injected)
    BY <2>1, <2>4 DEF Coming, ToForward, InCap
  <2>6. SameCount(s, Events \ {"suppressed"})
    <3>1. CASE capFrame \in injected
      <4>1. Counted("suppressed", capFrame)
        BY <1>2, <3>1 DEF ForwardConsume
      <4> QED BY <2>1, <4>1, CountedOnce DEF Events, SameCount
    <3>2. CASE capFrame \notin injected
      BY <1>2, <3>2 DEF ForwardConsume, SameCount
    <3> QED BY <3>1, <3>2
  <2>7. NoMoreToPass(s)
    BY <2>1, <2>3, <2>4, <2>5 DEF Protected, Passed, NoMoreToPass
  <2>8. Passed(s)'
    BY <1>6, <2>1, <2>3, <2>6, <2>7, PassedKept DEF Protected, SameCount, Events
  <2>9. NoMoreStamps(s)
    BY <2>1, <2>3, <2>5 DEF NoMoreStamps
  <2>10. Matched(s)'
    <3>1. CASE ~ (capFrame = s /\ s \in injected)
      <4>1. SameCount(s, Events)
        <5>1. CASE capFrame \in injected
          <6>1. Counted("suppressed", capFrame) /\ capFrame # s
            BY <1>2, <3>1, <5>1 DEF ForwardConsume
          <6> QED BY <2>1, <6>1, CountedOnce DEF Events, SameCount
        <5>2. CASE capFrame \notin injected
          BY <1>2, <5>2 DEF ForwardConsume, SameCount
        <5> QED BY <5>1, <5>2
      <4> QED BY <1>6, <2>9, <4>1, MatchedKept DEF Protected, SameCount, Events, MatchEvents
    <3>2. CASE capFrame = s /\ s \in injected
      <4>1. Counted("suppressed", s)
        BY <1>2, <3>2 DEF ForwardConsume
      <4>2. count'["suppressed"][s] = count["suppressed"][s] + 1
        BY <4>1, CountedOnce DEF Events
      <4>3. \A e \in MatchEvents \ {"suppressed"} : count'[e][s] = count[e][s]
        BY <2>6 DEF SameCount, Events, MatchEvents
      <4>4. One(s \in injected /\ ~ InInj(s, {"send"})) = 1 /\ s \notin injected'
        BY <2>1, <2>4, <3>2 DEF One
      <4>5. One(s \in injected' /\ ~ InInj(s, {"send"})') = 0
        BY <4>4 DEF One
      <4>6. One(s \in forwarded' /\ ~ InCap(s, {"send"})')
              = One(s \in forwarded /\ ~ InCap(s, {"send"}))
        BY <2>1, <2>3 DEF One
      <4>7. Matched(s)
        BY DEF Protected
      <4> QED BY <1>6, <4>2, <4>3, <4>4, <4>5, <4>6, <4>7 DEF Matched, One, Figures, MatchEvents
    <3> QED BY <3>1, <3>2
  <2> QED BY <2>2, <2>8, <2>10 DEF Protected
<1>3. CASE ForwardRemember
  <2>1. /\ cap = "remember" /\ cap' = "send" /\ capFrame' = capFrame
        /\ UNCHANGED <<running, netOpen, stopPc, sourceRx, netRx, injected, inj, injFrame,
                       count, failures, lingering>>
        /\ s \in forwarded' <=> s \in forwarded \/ capFrame = s
    BY <1>3 DEF ForwardRemember, stopVars, busVars, injVars, aside
  <2>2. OneCopy(s)'
    BY <2>1 DEF Protected, OneCopy, Capped, Handled, InCap, InInj
  <2>3. /\ Coming(s)' <=> Coming(s)
        /\ ToForward(s)' <=> ToForward(s)
        /\ Arriving(s)' <=> Arriving(s)
        /\ InInj(s, {"send"})' <=> InInj(s, {"send"})
    BY <2>1 DEF Arriving, ToForward, InInj, InCap, Coming
  <2>4. /\ InCap(s, {"send"})' <=> capFrame = s
        /\ capFrame = s => ~ Arriving(s) /\ ~ ToInject(s)'
        /\ capFrame # s => (ToInject(s)' <=> ToInject(s))
        /\ ~ InCap(s, {"send"})
    BY <2>1 DEF Protected, OneCopy, Capped, Handled, InCap, InInj, ToInject, Arriving
  <2>5. SameCount(s, Events)
    BY <2>1 DEF SameCount
  <2>6. NoMoreToPass(s)
    BY <2>1, <2>3, <2>4 DEF Protected, Passed, NoMoreToPass
  <2>7. Passed(s)'
    BY <1>6, <2>1, <2>3, <2>5, <2>6, PassedKept DEF Protected, SameCount, Events
  <2>8. NoMoreStamps(s)
    BY <2>1, <2>3, <2>4 DEF NoMoreStamps
  <2>9. Matched(s)'
    BY <1>6, <2>5, <2>8, MatchedKept DEF Protected, SameCount, Events, MatchEvents
  <2> QED BY <2>2, <2>7, <2>9 DEF Protected
<1>4. CASE ForwardSend
  <2>1. /\ cap = "send" /\ cap' = "idle" /\ capFrame' = capFrame /\ capFrame \in Signatures
        /\ UNCHANGED <<running, netOpen, stopPc, sourceRx, injected, forwarded, inj, injFrame,
                       failures, lingering>>
        /\ stopPc = "done" => lingering
        /\ netRx' = Append(netRx, capFrame) \/ netRx' = netRx
    BY <1>4, <1>7 DEF ForwardSend, stopVars, stampVars, injVars, aside, ForwardTypes
  <2>9. PICK how \in {"reflected", "unreflected"} : CountedBoth("forwarded", how, capFrame)
    BY <1>4 DEF ForwardSend
  <2>2. /\ Contains(netRx, s) => Contains(netRx', s)
        /\ Contains(netRx', s) => Contains(netRx, s) \/ capFrame = s
        /\ Once(netRx, s) /\ (capFrame = s => ~ Contains(netRx, s)) => Once(netRx', s)
    <3>1. capFrame \in Signatures /\ netRx \in Seq(Signatures)
      BY <1>7, <2>1 DEF ForwardTypes
    <3>2. /\ Contains(Append(netRx, capFrame), s) <=> Contains(netRx, s) \/ capFrame = s
          /\ Once(netRx, s) /\ (capFrame = s => ~ Contains(netRx, s)) => Once(Append(netRx, capFrame), s)
      BY <3>1, AppendContains
    <3>3. CASE netRx' = Append(netRx, capFrame)
      BY <3>2, <3>3
    <3>4. CASE netRx' = netRx
      BY <3>4 DEF Contains, Once
    <3> QED BY <2>1, <3>3, <3>4
  <2>3. OneCopy(s)'
    BY <2>1, <2>2 DEF Protected, OneCopy, Capped, Handled, InCap, InInj
  <2>4. /\ Coming(s)' <=> Coming(s)
        /\ InInj(s, {"send"})' <=> InInj(s, {"send"})
        /\ InInj(s, {"remember", "send"})' <=> InInj(s, {"remember", "send"})
        /\ InCap(s, {"send"}) <=> capFrame = s
        /\ ~ InCap(s, {"send"})'
    BY <2>1 DEF InInj, InCap, Coming
  <2>5. /\ capFrame = s => /\ ToForward(s) /\ ~ ToForward(s)' /\ ~ Arriving(s) /\ ~ Coming(s)
                           /\ ~ InInj(s, {"remember", "send"}) /\ ~ InInj(s, {"send"})
        /\ capFrame # s => /\ ToForward(s)' <=> ToForward(s)
                           /\ Arriving(s)' <=> Arriving(s)
    BY <2>1, <2>2 DEF Protected, OneCopy, Capped, Handled, InCap, InInj, ToForward, Arriving, Coming
  <2>6. \A f \in Events :
          count'[f][s] = IF f \in {"forwarded", how} /\ s = capFrame
                         THEN count[f][s] + 1 ELSE count[f][s]
    <3>1. "forwarded" \in Events /\ how \in Events /\ "forwarded" # how
      BY DEF Events
    <3>2. capFrame \in Signatures
      BY <2>1
    <3> QED BY <2>9, <3>1, <3>2, CountedTwice
  <2>7. CASE capFrame # s
    <3>1. SameCount(s, Events)
      BY <2>6, <2>7 DEF SameCount
    <3>2. NoMoreToPass(s)
      BY <2>1, <2>4, <2>5, <2>7 DEF Protected, Passed, ToInject, NoMoreToPass
    <3>3. Passed(s)'
      BY <1>6, <2>1, <2>4, <3>1, <3>2, PassedKept DEF Protected, SameCount, Events
    <3>4. NoMoreStamps(s)
      BY <2>1, <2>4, <2>7 DEF NoMoreStamps
    <3>5. Matched(s)'
      BY <1>6, <3>1, <3>4, MatchedKept DEF Protected, SameCount, Events, MatchEvents
    <3> QED BY <2>3, <3>3, <3>5 DEF Protected
  <2>8. CASE capFrame = s
    <3>1. /\ count'["forwarded"][s] = count["forwarded"][s] + 1
          /\ \A e \in {"injected", "device", "remote"} : count'[e][s] = count[e][s]
      BY <2>6, <2>8 DEF Events
    <3>5. /\ \A e \in {"echoed", "unechoed", "suppressed", "suppressed_inject"} :
                count'[e][s] = count[e][s]
          /\ count'["reflected"][s] + count'["unreflected"][s]
               = count["reflected"][s] + count["unreflected"][s] + 1
      BY <1>6, <2>6, <2>8 DEF Events, Figures
    <3>2. stopPc # "done" => s \in forwarded /\ ~ ToInject(s)'
      BY <2>1, <2>4, <2>5, <2>8 DEF Protected, Passed, ToInject
    <3>3. Passed(s)'
      BY <1>6, <2>1, <2>4, <2>5, <2>8, <3>1, <3>2 DEF Protected, Passed, One, Figures
    <3>4. Matched(s)'
      <4>1. One(s \in injected' /\ ~ InInj(s, {"send"})')
              = One(s \in injected /\ ~ InInj(s, {"send"}))
        BY <2>1, <2>4 DEF One
      <4>2. /\ One(s \in forwarded /\ ~ InCap(s, {"send"})) = 0
            /\ One(s \in forwarded' /\ ~ InCap(s, {"send"})') \in 0..1
        BY <2>4, <2>8 DEF One
      <4>3. Matched(s)
        BY DEF Protected
      <4> QED BY <1>6, <3>5, <4>1, <4>2, <4>3 DEF Matched, Figures
    <3> QED BY <2>3, <3>3, <3>4 DEF Protected
  <2> QED BY <2>7, <2>8
<1>5. CASE ForwardFails
  <2>1. /\ cap = "send" /\ cap' = "idle" /\ capFrame' = capFrame /\ capFrame \in Signatures
        /\ UNCHANGED <<running, netOpen, stopPc, sourceRx, netRx, injected, forwarded, inj,
                       injFrame, lingering>>
        /\ Counted("unreflected", capFrame)
    BY <1>5, <1>7 DEF ForwardFails, stopVars, busVars, stampVars, injVars, aside, ForwardTypes
  <2>2. OneCopy(s)'
    BY <2>1 DEF Protected, OneCopy, Capped, Handled, InCap, InInj
  <2>3. /\ ToInject(s)' <=> ToInject(s)
        /\ InInj(s, {"send"})' <=> InInj(s, {"send"})
        /\ InCap(s, {"send"}) <=> capFrame = s
        /\ ~ InCap(s, {"send"})' /\ (ToForward(s)' => ToForward(s))
    BY <2>1 DEF InInj, ToInject, Arriving, InCap, ToForward, Coming
  <2>4. NoMoreToPass(s)
    BY <2>1, <2>3 DEF Protected, Passed, NoMoreToPass
  <2>7. \A f \in Events :
          count'[f][s] = IF f = "unreflected" /\ s = capFrame THEN count[f][s] + 1 ELSE count[f][s]
    BY <2>1, CountedOnce DEF Events
  <2>5. Passed(s)'
    <3>1. SameCount(s, {"forwarded", "injected", "device", "remote"})
      BY <2>7 DEF SameCount, Events
    <3> QED BY <1>6, <2>1, <2>3, <2>4, <3>1, PassedKept DEF Protected
  <2>6. Matched(s)'
    <3>1. CASE capFrame # s
      <4>1. SameCount(s, MatchEvents)
        BY <2>7, <3>1 DEF SameCount, Events, MatchEvents
      <4>2. NoMoreStamps(s)
        BY <2>1, <2>3, <3>1 DEF NoMoreStamps
      <4> QED BY <1>6, <4>1, <4>2, MatchedKept DEF Protected
    <3>2. CASE capFrame = s
      <4>1. /\ \A e \in MatchEvents \ {"unreflected"} : count'[e][s] = count[e][s]
            /\ count'["unreflected"][s] = count["unreflected"][s] + 1
        BY <2>7, <3>2 DEF Events, MatchEvents
      <4>2. One(s \in injected' /\ ~ InInj(s, {"send"})')
              = One(s \in injected /\ ~ InInj(s, {"send"}))
        BY <2>1, <2>3 DEF One
      <4>3. /\ One(s \in forwarded /\ ~ InCap(s, {"send"})) = 0
            /\ One(s \in forwarded' /\ ~ InCap(s, {"send"})') \in 0..1
        BY <2>3, <3>2 DEF One
      <4>4. Matched(s)
        BY DEF Protected
      <4> QED BY <1>6, <4>1, <4>2, <4>3, <4>4 DEF Matched, Figures, MatchEvents
    <3> QED BY <3>1, <3>2
  <2> QED BY <2>2, <2>5, <2>6 DEF Protected
<1> QED BY <1>1, <1>2, <1>3, <1>4, <1>5 DEF Capturing

\* The inject thread injects what it should and keeps what comes back.
LEMMA InjectProtects ==
  ASSUME BridgeTypes, StopInv, NEW s \in Signatures, Protected(s), Injecting
  PROVE  Protected(s)'
<1> DEFINE InjectTypes == /\ sourceRx \in Seq(Signatures) /\ netRx \in Seq(Signatures)
                          /\ inj \in {"got", "consume", "remember", "send"}
                               => injFrame \in Signatures
                          /\ running <=> stopPc = "no"
                          /\ netOpen <=> stopPc \in {"no", "join", "shutdown"}
                          /\ inj = "remember" => stopPc # "done"
<1>1. Figures(s)
  BY DEF Events, BridgeTypes, Figures
<1>2. InjectTypes
  BY DEF BridgeTypes, TypeOK, StopInv, InjectThreadLetGo
<1> HIDE DEF InjectTypes
<1>3. CASE InjectCheck
  <2>1. /\ inj = "check" /\ inj' \in {"recv", "ended"}
        /\ UNCHANGED <<running, netOpen, stopPc, sourceRx, netRx, injected, forwarded, cap,
                       capFrame, injFrame, count, failures, lingering>>
    BY <1>3 DEF InjectCheck, stopVars, busVars, stampVars, capVars, aside
  <2>2. OneCopy(s)'
    BY <2>1 DEF Protected, OneCopy, Capped, Handled, InCap, InInj
  <2>3. /\ Coming(s)' <=> Coming(s)
        /\ Arriving(s)' <=> Arriving(s)
        /\ ~ InInj(s, {"send"})' /\ ~ InInj(s, {"send"})
        /\ ~ InInj(s, {"remember", "send"})' /\ ~ InInj(s, {"remember", "send"})
        /\ InCap(s, {"send"})' <=> InCap(s, {"send"})
        /\ InCap(s, {"remember", "send"})' <=> InCap(s, {"remember", "send"})
    BY <2>1 DEF Coming, Arriving, InInj, InCap
  <2> QED BY <1>1, <2>1, <2>2, <2>3, FrameMoves
<1>4. CASE InjectRecv
  <2>1. /\ inj = "recv"
        /\ UNCHANGED <<running, netOpen, stopPc, sourceRx, injected, forwarded, cap, capFrame,
                       count, failures, lingering>>
        /\ Coming(s)' <=> Coming(s)
        /\ ~ InInj(s, {"send"}) /\ ~ InInj(s, {"remember", "send"})
        /\ InCap(s, {"send"})' <=> InCap(s, {"send"})
        /\ InCap(s, {"remember", "send"})' <=> InCap(s, {"remember", "send"})
    BY <1>4 DEF InjectRecv, stopVars, stampVars, capVars, aside, Coming, InInj, InCap
  <2>2. CASE netOpen /\ netRx # <<>>
    <3>1. inj' = "got" /\ injFrame' = Head(netRx) /\ netRx' = Tail(netRx) /\ netRx # <<>>
      BY <1>4, <2>2 DEF InjectRecv
    <3>2. /\ Contains(netRx', s) => Contains(netRx, s)
          /\ Contains(netRx, s) => Head(netRx) = s \/ Contains(netRx', s)
          /\ Once(netRx, s) => Once(netRx', s)
          /\ Once(netRx, s) /\ Head(netRx) = s => ~ Contains(netRx', s)
      BY <1>2, <3>1, TailContains DEF InjectTypes
    <3>3. Head(netRx) = s => Contains(netRx, s)
      BY <1>2, <3>1 DEF Contains, InjectTypes
    <3>4. OneCopy(s)'
      BY <2>1, <3>1, <3>2, <3>3 DEF Protected, OneCopy, Capped, Handled, InCap, InInj
    <3>5. Arriving(s)' <=> Arriving(s)
      BY <2>1, <3>1, <3>2, <3>3 DEF Arriving, InInj
    <3>6. ~ InInj(s, {"send"})' /\ ~ InInj(s, {"remember", "send"})'
      BY <3>1 DEF InInj
    <3> QED BY <1>1, <2>1, <3>4, <3>5, <3>6, FrameMoves
  <2>3. CASE ~ (netOpen /\ netRx # <<>>)
    <3>1. inj' = "check" /\ UNCHANGED <<injFrame, netRx>>
      BY <1>4, <2>3 DEF InjectRecv
    <3>2. OneCopy(s)'
      BY <2>1, <3>1 DEF Protected, OneCopy, Capped, Handled, InCap, InInj
    <3>3. /\ Arriving(s)' <=> Arriving(s)
          /\ ~ InInj(s, {"send"})' /\ ~ InInj(s, {"remember", "send"})'
      BY <2>1, <3>1 DEF Arriving, InInj
    <3> QED BY <1>1, <2>1, <3>2, <3>3, FrameMoves
  <2> QED BY <2>2, <2>3
<1>5. CASE InjectRunning
  <2>1. /\ inj = "got" /\ inj' \in {"consume", "check"} /\ (running => inj' = "consume")
        /\ UNCHANGED <<running, netOpen, stopPc, sourceRx, netRx, injected, forwarded, cap,
                       capFrame, injFrame, count, failures, lingering>>
    BY <1>5 DEF InjectRunning, stopVars, busVars, stampVars, capVars, aside
  <2>2. OneCopy(s)'
    BY <2>1 DEF Protected, OneCopy, Capped, Handled, InCap, InInj
  <2>3. /\ Coming(s)' <=> Coming(s)
        /\ Arriving(s)' => Arriving(s)
        /\ running => (Arriving(s) => Arriving(s)')
        /\ ~ InInj(s, {"send"})' /\ ~ InInj(s, {"send"})
        /\ ~ InInj(s, {"remember", "send"})' /\ ~ InInj(s, {"remember", "send"})
        /\ InCap(s, {"send"})' <=> InCap(s, {"send"})
        /\ InCap(s, {"remember", "send"})' <=> InCap(s, {"remember", "send"})
    BY <2>1 DEF Coming, Arriving, InInj, InCap
  <2> QED BY <1>1, <2>1, <2>2, <2>3, FrameMoves
<1>6. CASE InjectConsume
  <2>1. /\ inj = "consume" /\ injFrame' = injFrame /\ injFrame \in Signatures
        /\ UNCHANGED <<running, netOpen, stopPc, sourceRx, netRx, injected, cap, capFrame,
                       failures, lingering>>
        /\ s \in forwarded' <=> s \in forwarded /\ injFrame # s
        /\ inj' = IF injFrame \in forwarded THEN "check" ELSE "remember"
    BY <1>2, <1>6 DEF InjectConsume, stopVars, busVars, capVars, aside, InjectTypes
  <2>2. OneCopy(s)'
    BY <2>1 DEF Protected, OneCopy, Capped, Handled, InCap, InInj
  <2>3. /\ Coming(s)' <=> Coming(s)
        /\ ToForward(s)' <=> ToForward(s)
        /\ InCap(s, {"send"})' <=> InCap(s, {"send"})
        /\ ~ InInj(s, {"send"}) /\ ~ InInj(s, {"send"})'
    BY <2>1 DEF Coming, ToForward, InInj, InCap
  <2>4. injFrame = s => ~ Contains(netRx, s) /\ ~ InCap(s, {"send"})
    BY <2>1 DEF Protected, OneCopy, Capped, Handled, InCap, InInj
  <2>5. /\ injFrame # s => (Arriving(s)' <=> Arriving(s)) /\ (ToInject(s)' <=> ToInject(s))
        /\ injFrame = s => Arriving(s) /\ ~ Arriving(s)' /\ (ToInject(s)' <=> s \notin forwarded)
                           /\ (ToInject(s) <=> s \notin forwarded)
    BY <2>1, <2>4 DEF Arriving, ToInject, InInj
  <2>6. SameCount(s, Events \ {"suppressed_inject"})
    <3>1. CASE injFrame \in forwarded
      <4>1. Counted("suppressed_inject", injFrame)
        BY <1>6, <3>1 DEF InjectConsume
      <4> QED BY <2>1, <4>1, CountedOnce DEF Events, SameCount
    <3>2. CASE injFrame \notin forwarded
      BY <1>6, <3>2 DEF InjectConsume, SameCount
    <3> QED BY <3>1, <3>2
  <2>7. NoMoreToPass(s)
    BY <2>1, <2>3, <2>4, <2>5 DEF Protected, Passed, NoMoreToPass
  <2>8. Passed(s)'
    BY <1>1, <2>1, <2>3, <2>6, <2>7, PassedKept DEF Protected, SameCount, Events
  <2>9. NoMoreStamps(s)
    BY <2>1, <2>3, <2>5 DEF NoMoreStamps
  <2>10. Matched(s)'
    <3>1. CASE ~ (injFrame = s /\ s \in forwarded)
      <4>1. SameCount(s, Events)
        <5>1. CASE injFrame \in forwarded
          <6>1. Counted("suppressed_inject", injFrame) /\ injFrame # s
            BY <1>6, <3>1, <5>1 DEF InjectConsume
          <6> QED BY <2>1, <6>1, CountedOnce DEF Events, SameCount
        <5>2. CASE injFrame \notin forwarded
          BY <1>6, <5>2 DEF InjectConsume, SameCount
        <5> QED BY <5>1, <5>2
      <4> QED BY <1>1, <2>9, <4>1, MatchedKept DEF Protected, SameCount, Events, MatchEvents
    <3>2. CASE injFrame = s /\ s \in forwarded
      <4>1. Counted("suppressed_inject", s)
        BY <1>6, <3>2 DEF InjectConsume
      <4>2. count'["suppressed_inject"][s] = count["suppressed_inject"][s] + 1
        BY <4>1, CountedOnce DEF Events
      <4>3. \A e \in MatchEvents \ {"suppressed_inject"} : count'[e][s] = count[e][s]
        BY <2>6 DEF SameCount, Events, MatchEvents
      <4>4. One(s \in forwarded /\ ~ InCap(s, {"send"})) = 1 /\ s \notin forwarded'
        BY <2>1, <2>4, <3>2 DEF One
      <4>5. One(s \in forwarded' /\ ~ InCap(s, {"send"})') = 0
        BY <4>4 DEF One
      <4>6. One(s \in injected' /\ ~ InInj(s, {"send"})')
              = One(s \in injected /\ ~ InInj(s, {"send"}))
        BY <2>1, <2>3 DEF One
      <4>7. Matched(s)
        BY DEF Protected
      <4> QED BY <1>1, <4>2, <4>3, <4>4, <4>5, <4>6, <4>7 DEF Matched, One, Figures, MatchEvents
    <3> QED BY <3>1, <3>2
  <2> QED BY <2>2, <2>8, <2>10 DEF Protected
<1>7. CASE InjectRemember
  <2>1. /\ inj = "remember" /\ inj' = "send" /\ injFrame' = injFrame
        /\ UNCHANGED <<running, netOpen, stopPc, sourceRx, netRx, forwarded, cap, capFrame,
                       count, failures, lingering>>
        /\ s \in injected' <=> s \in injected \/ injFrame = s
        /\ stopPc # "done"
    BY <1>2, <1>7 DEF InjectRemember, stopVars, busVars, capVars, aside, InjectTypes
  <2>2. OneCopy(s)'
    BY <2>1 DEF Protected, OneCopy, Capped, Handled, InCap, InInj
  <2>3. /\ Coming(s)' <=> Coming(s)
        /\ ToInject(s)' <=> ToInject(s)
        /\ Arriving(s)' <=> Arriving(s)
        /\ InCap(s, {"send"})' <=> InCap(s, {"send"})
    BY <2>1 DEF Arriving, ToInject, InInj, InCap, Coming
  <2>4. /\ InInj(s, {"send"})' <=> injFrame = s
        /\ injFrame = s => ~ Coming(s) /\ ~ ToForward(s)' /\ ToInject(s)
        /\ injFrame # s => (ToForward(s)' <=> ToForward(s))
        /\ ~ InInj(s, {"send"})
    BY <2>1 DEF Protected, OneCopy, Capped, Handled, InCap, InInj, ToForward, Coming, ToInject
  <2>5. SameCount(s, Events)
    BY <2>1 DEF SameCount
  <2>6. NoMoreToPass(s)
    BY <2>1, <2>3, <2>4 DEF Protected, Passed, NoMoreToPass
  <2>7. Passed(s)'
    BY <1>1, <2>1, <2>3, <2>4, <2>5, <2>6, PassedKept DEF Protected, SameCount, Events
  <2>8. NoMoreStamps(s)
    BY <2>1, <2>3, <2>4 DEF NoMoreStamps
  <2>9. Matched(s)'
    BY <1>1, <2>5, <2>8, MatchedKept DEF Protected, SameCount, Events, MatchEvents
  <2> QED BY <2>2, <2>7, <2>9 DEF Protected
<1>8. CASE InjectSend
  <2>1. /\ inj = "send" /\ inj' = "check" /\ injFrame' = injFrame /\ injFrame \in Signatures
        /\ UNCHANGED <<running, netOpen, stopPc, netRx, injected, forwarded, cap, capFrame,
                       failures, lingering>>
        /\ sourceRx' = Append(sourceRx, injFrame) \/ sourceRx' = sourceRx
    BY <1>2, <1>8 DEF InjectSend, stopVars, stampVars, capVars, aside, InjectTypes
  <2>9. PICK how \in {"echoed", "unechoed"} : CountedBoth("injected", how, injFrame)
    BY <1>8 DEF InjectSend
  <2>2. /\ Contains(sourceRx, s) => Contains(sourceRx', s)
        /\ Contains(sourceRx', s) => Contains(sourceRx, s) \/ injFrame = s
        /\ Once(sourceRx, s) /\ (injFrame = s => ~ Contains(sourceRx, s)) => Once(sourceRx', s)
    <3>1. injFrame \in Signatures /\ sourceRx \in Seq(Signatures)
      BY <1>2, <2>1 DEF InjectTypes
    <3>2. /\ Contains(Append(sourceRx, injFrame), s) <=> Contains(sourceRx, s) \/ injFrame = s
          /\ Once(sourceRx, s) /\ (injFrame = s => ~ Contains(sourceRx, s)) => Once(Append(sourceRx, injFrame), s)
      BY <3>1, AppendContains
    <3>3. CASE sourceRx' = Append(sourceRx, injFrame)
      BY <3>2, <3>3
    <3>4. CASE sourceRx' = sourceRx
      BY <3>4 DEF Contains, Once
    <3> QED BY <2>1, <3>3, <3>4
  <2>3. OneCopy(s)'
    BY <2>1, <2>2 DEF Protected, OneCopy, Capped, Handled, InCap, InInj
  <2>4. /\ Arriving(s)' <=> Arriving(s)
        /\ InCap(s, {"send"})' <=> InCap(s, {"send"})
        /\ InCap(s, {"remember", "send"})' <=> InCap(s, {"remember", "send"})
        /\ InInj(s, {"send"}) <=> injFrame = s
        /\ ~ InInj(s, {"send"})'
    BY <2>1 DEF InInj, InCap, Arriving
  <2>5. /\ injFrame = s => /\ ToInject(s) /\ ~ ToInject(s)' /\ ~ Arriving(s) /\ ~ Coming(s)
                           /\ ~ InCap(s, {"remember", "send"}) /\ ~ InCap(s, {"send"})
        /\ injFrame # s => /\ ToInject(s)' <=> ToInject(s)
                           /\ Coming(s)' <=> Coming(s)
    BY <2>1, <2>2 DEF Protected, OneCopy, Capped, Handled, InCap, InInj, ToInject, Arriving, Coming
  <2>6. \A f \in Events :
          count'[f][s] = IF f \in {"injected", how} /\ s = injFrame
                         THEN count[f][s] + 1 ELSE count[f][s]
    <3>1. "injected" \in Events /\ how \in Events /\ "injected" # how
      BY DEF Events
    <3>2. injFrame \in Signatures
      BY <2>1
    <3> QED BY <2>9, <3>1, <3>2, CountedTwice
  <2>7. CASE injFrame # s
    <3>1. SameCount(s, Events)
      BY <2>6, <2>7 DEF SameCount
    <3>2. NoMoreToPass(s)
      BY <2>1, <2>4, <2>5, <2>7 DEF Protected, Passed, ToForward, NoMoreToPass
    <3>3. Passed(s)'
      BY <1>1, <2>1, <2>4, <3>1, <3>2, PassedKept DEF Protected, SameCount, Events
    <3>4. NoMoreStamps(s)
      BY <2>1, <2>4, <2>7 DEF NoMoreStamps
    <3>5. Matched(s)'
      BY <1>1, <3>1, <3>4, MatchedKept DEF Protected, SameCount, Events, MatchEvents
    <3> QED BY <2>3, <3>3, <3>5 DEF Protected
  <2>8. CASE injFrame = s
    <3>1. /\ count'["injected"][s] = count["injected"][s] + 1
          /\ \A e \in {"forwarded", "device", "remote"} : count'[e][s] = count[e][s]
      BY <2>6, <2>8 DEF Events
    <3>5. /\ \A e \in {"reflected", "unreflected", "suppressed", "suppressed_inject"} :
                count'[e][s] = count[e][s]
          /\ count'["echoed"][s] + count'["unechoed"][s]
               = count["echoed"][s] + count["unechoed"][s] + 1
      BY <1>1, <2>6, <2>8 DEF Events, Figures
    <3>2. stopPc # "done" => s \in injected /\ ~ ToForward(s)'
      BY <2>1, <2>4, <2>5, <2>8 DEF Protected, Passed, ToForward
    <3>3. Passed(s)'
      <4>1. stopPc' # "done" =>
              /\ count'["forwarded"][s] + One(ToForward(s)') <= count'["device"][s]
              /\ count'["injected"][s] + One(ToInject(s)') <= count'["remote"][s]
        BY <1>1, <2>1, <2>5, <2>8, <3>1, <3>2 DEF Protected, Passed, One, Figures
      <4>2. ~ lingering' =>
              /\ count'["forwarded"][s] <= count'["device"][s]
              /\ count'["injected"][s] + One(InInj(s, {"send"})') <= count'["remote"][s]
        BY <1>1, <2>1, <2>4, <2>8, <3>1 DEF Protected, Passed, One, Figures
      <4> QED BY <2>1, <2>4, <2>5, <2>8, <3>2, <4>1, <4>2 DEF Passed
    <3>4. Matched(s)'
      <4>1. One(s \in forwarded' /\ ~ InCap(s, {"send"})')
              = One(s \in forwarded /\ ~ InCap(s, {"send"}))
        BY <2>1, <2>4 DEF One
      <4>2. /\ One(s \in injected /\ ~ InInj(s, {"send"})) = 0
            /\ One(s \in injected' /\ ~ InInj(s, {"send"})') \in 0..1
        BY <2>4, <2>8 DEF One
      <4>3. Matched(s)
        BY DEF Protected
      <4> QED BY <1>1, <3>5, <4>1, <4>2, <4>3 DEF Matched, Figures
    <3> QED BY <2>3, <3>3, <3>4 DEF Protected
  <2> QED BY <2>7, <2>8
<1>9. CASE InjectFails
  <2>1. /\ inj = "send" /\ inj' = "check" /\ injFrame' = injFrame /\ injFrame \in Signatures
        /\ UNCHANGED <<running, netOpen, stopPc, sourceRx, netRx, injected, forwarded, cap,
                       capFrame, lingering>>
        /\ Counted("unechoed", injFrame)
    BY <1>2, <1>9 DEF InjectFails, stopVars, busVars, stampVars, capVars, aside, InjectTypes
  <2>2. OneCopy(s)'
    BY <2>1 DEF Protected, OneCopy, Capped, Handled, InCap, InInj
  <2>3. /\ ToForward(s)' <=> ToForward(s)
        /\ InCap(s, {"send"})' <=> InCap(s, {"send"})
        /\ InInj(s, {"send"}) <=> injFrame = s
        /\ ~ InInj(s, {"send"})' /\ (ToInject(s)' => ToInject(s))
    BY <2>1 DEF InInj, ToInject, Arriving, InCap, ToForward, Coming
  <2>4. NoMoreToPass(s)
    BY <2>1, <2>3 DEF Protected, Passed, NoMoreToPass
  <2>7. \A f \in Events :
          count'[f][s] = IF f = "unechoed" /\ s = injFrame THEN count[f][s] + 1 ELSE count[f][s]
    BY <2>1, CountedOnce DEF Events
  <2>5. Passed(s)'
    <3>1. SameCount(s, {"forwarded", "injected", "device", "remote"})
      BY <2>7 DEF SameCount, Events
    <3> QED BY <1>1, <2>1, <2>3, <2>4, <3>1, PassedKept DEF Protected
  <2>6. Matched(s)'
    <3>1. CASE injFrame # s
      <4>1. SameCount(s, MatchEvents)
        BY <2>7, <3>1 DEF SameCount, Events, MatchEvents
      <4>2. NoMoreStamps(s)
        BY <2>1, <2>3, <3>1 DEF NoMoreStamps
      <4> QED BY <1>1, <4>1, <4>2, MatchedKept DEF Protected
    <3>2. CASE injFrame = s
      <4>1. /\ \A e \in MatchEvents \ {"unechoed"} : count'[e][s] = count[e][s]
            /\ count'["unechoed"][s] = count["unechoed"][s] + 1
        BY <2>7, <3>2 DEF Events, MatchEvents
      <4>2. One(s \in forwarded' /\ ~ InCap(s, {"send"})')
              = One(s \in forwarded /\ ~ InCap(s, {"send"}))
        BY <2>1, <2>3 DEF One
      <4>3. /\ One(s \in injected /\ ~ InInj(s, {"send"})) = 0
            /\ One(s \in injected' /\ ~ InInj(s, {"send"})') \in 0..1
        BY <2>3, <3>2 DEF One
      <4>4. Matched(s)
        BY DEF Protected
      <4> QED BY <1>1, <4>1, <4>2, <4>3, <4>4 DEF Matched, Figures, MatchEvents
    <3> QED BY <3>1, <3>2
  <2> QED BY <2>2, <2>5, <2>6 DEF Protected
<1> QED BY <1>3, <1>4, <1>5, <1>6, <1>7, <1>8, <1>9 DEF Injecting

\* What stop() does, and a stamp that expires, leave the rest as it was.
LEMMA StoppingProtects ==
  ASSUME BridgeTypes, StopInv, NEW s \in Signatures, Protected(s),
         UNCHANGED <<busVars, capVars, injVars, count, lingering>>,
         stopPc' # "done" => stopPc # "done",
         /\ s \in injected' => s \in injected
         /\ s \in forwarded' => s \in forwarded,
         stopPc' # "done" =>
           \/ UNCHANGED <<injected, forwarded>>
           \/ ~ UnderWay(s)
           \/ (s \in injected' <=> s \in injected) /\ (s \in forwarded' <=> s \in forwarded)
  PROVE  Protected(s)'
<1>1. UNCHANGED <<sourceRx, netRx, cap, capFrame, inj, injFrame>>
  BY DEF busVars, capVars, injVars
<1>2. /\ Figures(s) /\ SameCount(s, Events)
      /\ Capped(s) \/ Handled(s) => UnderWay(s)
  BY DEF Events, BridgeTypes, Figures, SameCount, Capped, Handled, InCap, InInj, UnderWay
<1>3. OneCopy(s)'
  BY <1>1 DEF Protected, OneCopy, Capped, Handled, InCap, InInj
<1>4. /\ Coming(s)' <=> Coming(s)
      /\ Arriving(s)' <=> Arriving(s)
      /\ InInj(s, {"send"})' <=> InInj(s, {"send"})
      /\ InInj(s, {"remember", "send"})' <=> InInj(s, {"remember", "send"})
      /\ InCap(s, {"send"})' <=> InCap(s, {"send"})
      /\ InCap(s, {"remember", "send"})' <=> InCap(s, {"remember", "send"})
  BY <1>1 DEF Coming, Arriving, InInj, InCap
<1>5. ~ UnderWay(s) =>
        /\ ~ Coming(s) /\ ~ Arriving(s)
        /\ ~ InInj(s, {"send"}) /\ ~ InInj(s, {"remember", "send"})
        /\ ~ InCap(s, {"send"}) /\ ~ InCap(s, {"remember", "send"})
  BY DEF UnderWay, Coming, Arriving, InInj, InCap
<1>6. NoMoreToPass(s)
  BY <1>4, <1>5 DEF Protected, Passed, ToForward, ToInject, NoMoreToPass
<1>7. Passed(s)'
  BY <1>2, <1>4, <1>6, PassedKept DEF Protected, SameCount, Events
<1>8. NoMoreStamps(s)
  BY <1>4, <1>5 DEF NoMoreStamps
<1>9. Matched(s)'
  BY <1>2, <1>8, MatchedKept DEF Protected, SameCount, Events, MatchEvents
<1> QED BY <1>3, <1>7, <1>9 DEF Protected

\* What a frame that arrives from outside changes for its own signature and for

\* the others.
LEMMA SourceProtects ==
  ASSUME BridgeTypes, StopInv, NEW s \in Signatures, Protected(s), NEW x \in Signatures,
         Device(x), s \notin repeated'
  PROVE  Protected(s)'
<1>1. /\ UNCHANGED <<running, netOpen, stopPc, netRx, injected, forwarded, cap, capFrame, inj,
                     injFrame, failures, lingering>>
      /\ sourceRx' = Append(sourceRx, x) /\ Counted("device", x)
      /\ x = s => ~ UnderWay(s)
  BY DEF Device, Repeats, stopVars, stampVars, capVars, injVars
<1>2. Figures(s) /\ sourceRx \in Seq(Signatures) /\ cap \in {"idle", "consume", "remember", "send"}
  BY DEF Events, BridgeTypes, Figures, TypeOK
<1>3. /\ Contains(sourceRx', s) <=> Contains(sourceRx, s) \/ x = s
      /\ Once(sourceRx, s) /\ (x = s => ~ Contains(sourceRx, s)) => Once(sourceRx', s)
  BY <1>1, <1>2, AppendContains
<1>4. x = s => /\ ~ Contains(sourceRx, s) /\ ~ Contains(netRx, s) /\ ~ Capped(s) /\ ~ Handled(s)
               /\ ~ Coming(s) /\ ~ Arriving(s)
               /\ ~ InInj(s, {"send"}) /\ ~ InInj(s, {"remember", "send"})
               /\ ~ InCap(s, {"send"}) /\ ~ InCap(s, {"remember", "send"})
  BY <1>1 DEF UnderWay, Capped, Handled, Coming, Arriving, InInj, InCap
<1>5. OneCopy(s)'
  <2>1. (Capped(s)' <=> Capped(s)) /\ (Handled(s)' <=> Handled(s))
    BY <1>1 DEF Capped, Handled, InCap, InInj
  <2> QED BY <1>1, <1>3, <1>4, <2>1 DEF Protected, OneCopy
<1>6. /\ Coming(s)' <=> Coming(s) \/ x = s
      /\ Arriving(s)' <=> Arriving(s)
      /\ InInj(s, {"send"})' <=> InInj(s, {"send"})
      /\ InInj(s, {"remember", "send"})' <=> InInj(s, {"remember", "send"})
      /\ InCap(s, {"send"})' <=> InCap(s, {"send"})
      /\ InCap(s, {"remember", "send"})' <=> InCap(s, {"remember", "send"})
  BY <1>1, <1>3 DEF Coming, Arriving, InInj, InCap
<1>7. \A f \in Events :
        count'[f][s] = IF f = "device" /\ s = x THEN count[f][s] + 1 ELSE count[f][s]
  <2>1. "device" \in Events
    BY DEF Events
  <2> QED BY <1>1, <2>1, CountedOnce
<1>8. NoMoreStamps(s)
  BY <1>1, <1>4, <1>6 DEF NoMoreStamps
<1>9. Matched(s)'
  <2>1. SameCount(s, MatchEvents)
    BY <1>7 DEF SameCount, Events, MatchEvents
  <2> QED BY <1>2, <1>8, <2>1, MatchedKept DEF Protected
<1>10. CASE x # s
  <2>1. SameCount(s, Events)
    BY <1>7, <1>10 DEF SameCount
  <2>2. NoMoreToPass(s)
    BY <1>1, <1>6, <1>10 DEF Protected, Passed, ToForward, ToInject, NoMoreToPass
  <2>3. Passed(s)'
    BY <1>1, <1>2, <1>6, <2>1, <2>2, PassedKept DEF Protected, SameCount, Events
  <2> QED BY <1>5, <1>9, <2>3 DEF Protected
<1>11. CASE x = s
  <2>1. /\ count'["device"][s] = count["device"][s] + 1
        /\ count'["forwarded"][s] = count["forwarded"][s]
        /\ count'["injected"][s] = count["injected"][s]
        /\ count'["remote"][s] = count["remote"][s]
    BY <1>7, <1>11 DEF Events
  <2>2. ~ ToForward(s) /\ ~ ToInject(s) /\ ~ ToInject(s)'
    BY <1>4, <1>6, <1>11 DEF ToForward, ToInject
  <2>3. stopPc' # "done" =>
          /\ count'["forwarded"][s] + One(ToForward(s)') <= count'["device"][s]
          /\ count'["injected"][s] + One(ToInject(s)') <= count'["remote"][s]
    BY <1>1, <1>2, <2>1, <2>2 DEF Protected, Passed, One, Figures
  <2>4. ~ lingering' =>
          /\ count'["forwarded"][s] <= count'["device"][s]
          /\ count'["injected"][s] + One(InInj(s, {"send"})') <= count'["remote"][s]
    BY <1>1, <1>2, <1>4, <1>6, <1>11, <2>1 DEF Protected, Passed, One, Figures
  <2>5. Passed(s)'
    BY <1>4, <1>6, <1>11, <2>3, <2>4 DEF Passed
  <2> QED BY <1>5, <1>9, <2>5 DEF Protected
<1> QED BY <1>10, <1>11

\* The same of a frame from the network.
LEMMA RemoteProtects ==
  ASSUME BridgeTypes, StopInv, NEW s \in Signatures, Protected(s), NEW x \in Signatures,
         Remote(x), s \notin repeated'
  PROVE  Protected(s)'
<1>1. /\ UNCHANGED <<running, netOpen, stopPc, sourceRx, injected, forwarded, cap, capFrame, inj,
                     injFrame, failures, lingering>>
      /\ netRx' = Append(netRx, x) /\ Counted("remote", x)
      /\ x = s => ~ UnderWay(s)
  BY DEF Remote, Repeats, stopVars, stampVars, capVars, injVars
<1>2. Figures(s) /\ netRx \in Seq(Signatures) /\ cap \in {"idle", "consume", "remember", "send"}
  BY DEF Events, BridgeTypes, Figures, TypeOK
<1>3. /\ Contains(netRx', s) <=> Contains(netRx, s) \/ x = s
      /\ Once(netRx, s) /\ (x = s => ~ Contains(netRx, s)) => Once(netRx', s)
  BY <1>1, <1>2, AppendContains
<1>4. x = s => /\ ~ Contains(sourceRx, s) /\ ~ Contains(netRx, s) /\ ~ Capped(s) /\ ~ Handled(s)
               /\ ~ Coming(s) /\ ~ Arriving(s)
               /\ ~ InInj(s, {"send"}) /\ ~ InInj(s, {"remember", "send"})
               /\ ~ InCap(s, {"send"}) /\ ~ InCap(s, {"remember", "send"})
  BY <1>1 DEF UnderWay, Capped, Handled, Coming, Arriving, InInj, InCap
<1>5. OneCopy(s)'
  <2>1. (Capped(s)' <=> Capped(s)) /\ (Handled(s)' <=> Handled(s))
    BY <1>1 DEF Capped, Handled, InCap, InInj
  <2> QED BY <1>1, <1>3, <1>4, <2>1 DEF Protected, OneCopy
<1>6. /\ Coming(s)' <=> Coming(s)
      /\ Arriving(s)' <=> Arriving(s) \/ x = s
      /\ InInj(s, {"send"})' <=> InInj(s, {"send"})
      /\ InInj(s, {"remember", "send"})' <=> InInj(s, {"remember", "send"})
      /\ InCap(s, {"send"})' <=> InCap(s, {"send"})
      /\ InCap(s, {"remember", "send"})' <=> InCap(s, {"remember", "send"})
  BY <1>1, <1>3 DEF Coming, Arriving, InInj, InCap
<1>7. \A f \in Events :
        count'[f][s] = IF f = "remote" /\ s = x THEN count[f][s] + 1 ELSE count[f][s]
  <2>1. "remote" \in Events
    BY DEF Events
  <2> QED BY <1>1, <2>1, CountedOnce
<1>8. NoMoreStamps(s)
  BY <1>1, <1>4, <1>6 DEF NoMoreStamps
<1>9. Matched(s)'
  <2>1. SameCount(s, MatchEvents)
    BY <1>7 DEF SameCount, Events, MatchEvents
  <2> QED BY <1>2, <1>8, <2>1, MatchedKept DEF Protected
<1>10. CASE x # s
  <2>1. SameCount(s, Events)
    BY <1>7, <1>10 DEF SameCount
  <2>2. NoMoreToPass(s)
    BY <1>1, <1>6, <1>10 DEF Protected, Passed, ToForward, ToInject, NoMoreToPass
  <2>3. Passed(s)'
    BY <1>1, <1>2, <1>6, <2>1, <2>2, PassedKept DEF Protected, SameCount, Events
  <2> QED BY <1>5, <1>9, <2>3 DEF Protected
<1>11. CASE x = s
  <2>1. /\ count'["remote"][s] = count["remote"][s] + 1
        /\ count'["forwarded"][s] = count["forwarded"][s]
        /\ count'["injected"][s] = count["injected"][s]
        /\ count'["device"][s] = count["device"][s]
    BY <1>7, <1>11 DEF Events
  <2>2. ~ ToForward(s) /\ ~ ToInject(s) /\ ~ ToForward(s)'
    BY <1>4, <1>6, <1>11 DEF ToForward, ToInject
  <2>3. stopPc' # "done" =>
          /\ count'["forwarded"][s] + One(ToForward(s)') <= count'["device"][s]
          /\ count'["injected"][s] + One(ToInject(s)') <= count'["remote"][s]
    BY <1>1, <1>2, <2>1, <2>2 DEF Protected, Passed, One, Figures
  <2>4. ~ lingering' =>
          /\ count'["forwarded"][s] <= count'["device"][s]
          /\ count'["injected"][s] + One(InInj(s, {"send"})') <= count'["remote"][s]
    BY <1>1, <1>2, <1>4, <1>6, <1>11, <2>1 DEF Protected, Passed, One, Figures
  <2>5. Passed(s)'
    BY <1>4, <1>6, <1>11, <2>3, <2>4 DEF Passed
  <2> QED BY <1>5, <1>9, <2>5 DEF Protected
<1> QED BY <1>10, <1>11

\* Whoever acts, the signatures that were never repeated are protected.
LEMMA BridgeStep == BridgeInv /\ [Next]_vars => BridgeInv'
<1> SUFFICES ASSUME BridgeInv, [Next]_vars PROVE BridgeInv'
  OBVIOUS
<1>1. BridgeTypes' /\ StopInv'
  BY BridgeTypesStep, StopStep DEF BridgeInv
<1>2. repeated \subseteq repeated'
  BY DEF Next, Capturing, Forward, ForwardConsume, ForwardRemember, ForwardSend, ForwardFails,
         Injecting, InjectCheck, InjectRecv, InjectRunning, InjectConsume, InjectRemember,
         InjectSend, InjectFails, Stop, Stopping, Joined, Shutdown, ClearStamps, Device, Remote,
         Expire, Repeats, aside, vars
<1>3. ASSUME NEW s \in Signatures, s \notin repeated' PROVE Protected(s)'
  <2>1. BridgeTypes /\ StopInv /\ Protected(s)
    BY <1>2, <1>3 DEF BridgeInv
  <2>2. CASE Capturing
    BY <2>1, <2>2, CaptureProtects
  <2>3. CASE Injecting
    BY <2>1, <2>3, InjectProtects
  <2>4. ASSUME NEW x \in Signatures, Device(x) PROVE Protected(s)'
    BY <1>3, <2>1, <2>4, SourceProtects
  <2>5. ASSUME NEW x \in Signatures, Remote(x) PROVE Protected(s)'
    BY <1>3, <2>1, <2>5, RemoteProtects
  <2>6. CASE Stop \/ Joined \/ Shutdown \/ UNCHANGED vars
    <3>1. /\ UNCHANGED <<busVars, capVars, injVars, count, lingering, injected, forwarded>>
          /\ failures' = failures /\ (running' => running)
          /\ stopPc' # "done" => stopPc # "done"
      BY <2>6 DEF Stop, Joined, Shutdown, vars, stopVars, stampVars, aside
    <3> QED BY <2>1, <3>1, StoppingProtects
  <2>7. CASE ClearStamps
    <3>1. /\ UNCHANGED <<busVars, capVars, injVars, count, lingering>>
          /\ failures' = failures /\ ~ running' /\ stopPc' = "done"
          /\ injected' = {} /\ forwarded' = {}
      BY <2>1, <2>7 DEF ClearStamps, aside, StopInv
    <3> QED BY <2>1, <3>1, StoppingProtects
  <2>8. ASSUME NEW x \in Signatures, Expire(x) PROVE Protected(s)'
    <3>1. /\ UNCHANGED <<busVars, capVars, injVars, count, lingering, running, stopPc>>
          /\ failures' = failures
          /\ injected' \subseteq injected /\ forwarded' \subseteq forwarded
          /\ x = s => ~ UnderWay(s)
          /\ x # s => (s \in injected' <=> s \in injected) /\ (s \in forwarded' <=> s \in forwarded)
      BY <2>8 DEF Expire, stopVars, aside
    <3> QED BY <2>1, <3>1, StoppingProtects
  <2> QED BY <2>2, <2>3, <2>4, <2>5, <2>6, <2>7, <2>8 DEF Next, Stopping
<1> QED BY <1>1, <1>3 DEF BridgeInv

\* Whatever fails, and whenever the bridge is stopped (bridge.py, CanBridge.forward
\* and _inject_loop): see NothingInvented.
THEOREM LoopProtection == Spec => []NothingInvented
<1>1. BridgeInv => NothingInvented
  <2> SUFFICES ASSUME BridgeInv, NEW s \in Signatures \ repeated,
                      ~ lingering \/ stopPc # "done"
               PROVE  /\ count["forwarded"][s] <= count["device"][s]
                      /\ count["injected"][s] <= count["remote"][s]
    BY DEF NothingInvented
  <2>1. Figures(s) /\ Passed(s)
    BY DEF BridgeInv, BridgeTypes, Events, Figures, Protected
  <2> QED BY <2>1 DEF Passed, Figures, One
<1> QED BY <1>1, InitBridge, BridgeStep, PTL DEF Spec

\* With or without reflections and failures: see OnlyReflectionsDiscarded.
THEOREM NothingWithheld == Spec => []OnlyReflectionsDiscarded
<1>1. BridgeInv => OnlyReflectionsDiscarded
  <2> SUFFICES ASSUME BridgeInv, NEW s \in Signatures \ repeated
               PROVE  /\ count["suppressed"][s] <= count["echoed"][s] + count["unechoed"][s]
                      /\ count["suppressed_inject"][s]
                           <= count["reflected"][s] + count["unreflected"][s]
    BY DEF OnlyReflectionsDiscarded
  <2>1. Figures(s) /\ Matched(s)
    BY DEF BridgeInv, BridgeTypes, Events, Figures, Protected
  <2> QED BY <2>1 DEF Matched, Figures, One
<1> QED BY <1>1, InitBridge, BridgeStep, PTL DEF Spec
===============================================================================
