-------------------------- MODULE PingNetworkProofs --------------------------
(* Pings between any tools, however many each sends: what is shown and said of *)
(* them is so, and each tracker is the ledger.                                 *)
EXTENDS PingNetwork, FiniteSetTheorems, TLAPS

\* The pings of a tool that are counted as sent, or will be, and have had no answer.
Sending(t) == {Its(t, c) : c \in {c \in Callers : At(t, c) = "send"}}
Open(t) == (Pending(t) \cup Sending(t)) \ answered[t]

\* The counters, with what a viewer's threads have yet to add to them.
Counted(t) == received[t] + IF counting[t] THEN 1 ELSE 0
Owed(t) == sent[t] + IF t \in Viewers /\ At(t, "ui") \in {"send", "count"} THEN 1 ELSE 0

Places == {"idle", "send", "count", "wait", "told", "reset sent", "reset answered"}

PingTypes ==
  /\ seq \in [Tools -> 0..MaxNumber] /\ pending \in [Tools -> [Numbers -> 0..Absent]]
  /\ sent \in [Tools -> Nat] /\ received \in [Tools -> Nat]
  /\ call \in [Tools -> [Callers -> [at : Places, n : 0..MaxNumber]]]
  /\ counting \in [Tools -> BOOLEAN] /\ waited \in [Tools -> Nat]
  /\ answered \in [Tools -> SUBSET Numbers] /\ echoed \in [Tools -> SUBSET Numbers]
  /\ wiped \in [Tools -> BOOLEAN] /\ crossed \in [Tools -> BOOLEAN]
  /\ \A m \in wire : /\ m.id \in {"ping", "pong"} /\ m.n \in Numbers /\ m.to \in Tools
                     /\ m.id = "ping" => m.by \in Tools

\* Where the callers of a tool can be, each with a ping of its own.
CallInv(t) ==
  /\ t \in Studios => ~ counting[t] /\ At(t, "ui") \in {"idle", "send"}
                      /\ At(t, "agent") \in {"idle", "send", "wait", "told"}
  /\ t \in Viewers => At(t, "ui") \notin {"wait", "told"} /\ At(t, "agent") = "idle"
  /\ \A c \in Callers : At(t, c) \in {"send", "wait", "told"} =>
       Its(t, c) \in Numbers /\ Its(t, c) <= seq[t]
  /\ At(t, "ui") = "send" /\ At(t, "agent") \in {"send", "wait", "told"}
       => Its(t, "ui") # Its(t, "agent")

\* A ping has been given its number, and is answered once.
NumberInv(t) ==
  /\ \A n \in Pending(t) \cup answered[t] : n <= seq[t]
  /\ Pending(t) \cap answered[t] = {}

\* The counters cover the pings under way, but inside a viewer's reset.
Balance(t) ==
  ~ crossed[t] =>
    IF At(t, "ui") \in {"reset sent", "reset answered"}
    THEN /\ Pending(t) = {} /\ ~ counting[t]
         /\ At(t, "ui") = "reset answered" => sent[t] = 0
    ELSE Counted(t) + Cardinality(Open(t)) <= Owed(t)

\* An agent's ping that is pending is no older than the agent has waited, and one
\* that is gone without an answer was overdue.
AgentInv(t) ==
  t \in Studios /\ ~ wiped[t] /\ Its(t, "agent") \notin answered[t] =>
    /\ At(t, "agent") \in {"send", "wait"} /\ Its(t, "agent") \in Pending(t)
         => pending[t][Its(t, "agent")] <= waited[t]
    /\ At(t, "agent") \in {"send", "wait"} /\ Its(t, "agent") \notin Pending(t)
         => waited[t] > PingTimeout
    /\ At(t, "agent") = "told" => waited[t] > PingTimeout

\* An echo on its way to a studio is another tool's, or of a ping that is closed.
WireInv ==
  /\ \A m \in wire : m.id = "ping" => m.n <= seq[m.by]
  /\ \A m \in wire : m.id = "pong" /\ m.to \in Studios =>
       m.n \in echoed[m.to] \/ (m.n <= seq[m.to] /\ m.n \notin Pending(m.to))

PingInv == /\ PingTypes /\ WireInv /\ NotByItself
           /\ \A t \in Tools : CallInv(t) /\ NumberInv(t) /\ Balance(t) /\ AgentInv(t)
-----------------------------------------------------------------------------
(* What one tool's step does to it, and to nobody else. *)
CallKept(t) == call'[t] = call[t]
FiguresKept(t) == sent'[t] = sent[t] /\ received'[t] = received[t]
                  /\ (counting'[t] <=> counting[t])
PingsKept(t) == seq'[t] = seq[t] /\ pending'[t] = pending[t] /\ answered'[t] = answered[t]
AgentKept(t) == waited'[t] = waited[t] /\ (wiped'[t] <=> wiped[t])
CrossedKept(t) == crossed'[t] <=> crossed[t]
Kept(t) == CallKept(t) /\ FiguresKept(t) /\ PingsKept(t) /\ AgentKept(t) /\ CrossedKept(t)
OthersKept(t) == \A u \in Tools \ {t} : Kept(u)

Goes(t, c, where) ==
  /\ call'[t][c] = IF where = "idle" THEN Idle ELSE [at |-> where, n |-> Its(t, c)]
  /\ \A d \in Callers \ {c} : call'[t][d] = call[t][d]

Begins(t, c) ==
  /\ call'[t][c] = [at |-> "send", n |-> seq'[t]]
  /\ \A d \in Callers \ {c} : call'[t][d] = call[t][d]

Drops(t, N) ==
  /\ seq'[t] = seq[t] /\ answered'[t] = answered[t]
  /\ \A n \in Numbers : pending'[t][n] = IF n \in N THEN Absent ELSE pending[t][n]

Acts(t) ==
  \/ \E c \in Callers : BeginPing(t, c) \/ SendPing(t, c) \/ SendFails(t, c)
  \/ CountSent(t) \/ PingGone(t) \/ PingReturns(t)
  \/ Receive(t) \/ CountAnswer(t) \/ Refresh(t) \/ DropStale(t)
  \/ Reset(t) \/ ResetSent(t) \/ ResetAnswered(t)

\* An idle caller has no ping in hand.
LEMMA IdleRecord == Idle \in [at : Places, n : 0..MaxNumber]
  BY BoundsAssumption DEF Idle, Places

\* Pings are taken out of one tool's map.
LEMMA WithoutDrops ==
  ASSUME PingTypes, NEW t \in Tools, NEW N, pending' = Without(t, N)
  PROVE  /\ pending' \in [Tools -> [Numbers -> 0..Absent]]
         /\ \A n \in Numbers : pending'[t][n] = IF n \in N THEN Absent ELSE pending[t][n]
         /\ \A u \in Tools \ {t} : pending'[u] = pending[u]
<1>1. PICK f : f = [n \in Numbers |-> IF n \in N THEN Absent ELSE pending[t][n]]
  OBVIOUS
<1>2. pending' = [pending EXCEPT ![t] = f]
  BY <1>1 DEF Without
<1>3. Absent \in 0..Absent
  BY BoundsAssumption DEF Absent
<1>4. f \in [Numbers -> 0..Absent]
  BY <1>1, <1>3 DEF PingTypes
<1>5. pending' \in [Tools -> [Numbers -> 0..Absent]]
  BY <1>2, <1>4 DEF PingTypes
<1>6. pending'[t] = f /\ \A u \in Tools \ {t} : pending'[u] = pending[u]
  BY <1>2 DEF PingTypes
<1> QED BY <1>1, <1>5, <1>6

\* One caller of one tool goes on.
LEMMA GoGoes ==
  ASSUME PingTypes, NEW t \in Tools, NEW c \in Callers, NEW where \in Places, Go(t, c, where)
  PROVE  /\ call' \in [Tools -> [Callers -> [at : Places, n : 0..MaxNumber]]]
         /\ Goes(t, c, where)
         /\ \A u \in Tools \ {t} : call'[u] = call[u]
<1>1. PICK r : r = IF where = "idle" THEN Idle ELSE [call[t][c] EXCEPT !.at = where]
  OBVIOUS
<1>2. call' = [call EXCEPT ![t][c] = r]
  BY <1>1 DEF Go
<1>3. /\ call[t][c] \in [at : Places, n : 0..MaxNumber]
      /\ call[t] \in [Callers -> [at : Places, n : 0..MaxNumber]]
  BY DEF PingTypes
<1>4. r \in [at : Places, n : 0..MaxNumber]
      /\ (where # "idle" => r = [at |-> where, n |-> call[t][c].n])
  BY <1>1, <1>3, IdleRecord
<1>5. PICK f : f = [call[t] EXCEPT ![c] = r]
  OBVIOUS
<1>6. f \in [Callers -> [at : Places, n : 0..MaxNumber]]
  BY <1>3, <1>4, <1>5
<1>7. call' = [call EXCEPT ![t] = f]
  BY <1>2, <1>5
<1>8. call' \in [Tools -> [Callers -> [at : Places, n : 0..MaxNumber]]]
  BY <1>6, <1>7 DEF PingTypes
<1>9. call'[t] = f /\ \A u \in Tools \ {t} : call'[u] = call[u]
  BY <1>7 DEF PingTypes
<1>10. f[c] = r /\ \A d \in Callers \ {c} : f[d] = call[t][d]
  BY <1>3, <1>5
<1>11. Goes(t, c, where)
  BY <1>1, <1>4, <1>9, <1>10 DEF Goes, Its
<1> QED BY <1>8, <1>9, <1>11

\* What each step does, for the callers' threads.
LEMMA CallerEffects ==
  ASSUME PingTypes, NEW t \in Tools, NEW c \in Callers
  PROVE
    /\ BeginPing(t, c) =>
         /\ OthersKept(t) /\ call[t][c] = Idle /\ (c = "agent" => t \in Studios)
         /\ seq'[t] = seq[t] + 1 /\ seq'[t] \in Numbers
         /\ Begins(t, c)
         /\ \A n \in Numbers : pending'[t][n] =
              IF n = seq'[t] THEN 0
              ELSE IF t \in Studios /\ n \in Expired(t) THEN Absent ELSE pending[t][n]
         /\ sent'[t] = IF t \in Studios THEN sent[t] + 1 ELSE sent[t]
         /\ received'[t] = received[t] /\ (counting'[t] <=> counting[t])
         /\ answered'[t] = answered[t] /\ AgentKept(t) /\ CrossedKept(t)
    /\ SendPing(t, c) =>
         /\ OthersKept(t) /\ At(t, c) = "send" /\ Goes(t, c, AfterSend(t, c))
         /\ FiguresKept(t) /\ PingsKept(t) /\ AgentKept(t) /\ CrossedKept(t)
    /\ SendFails(t, c) =>
         /\ OthersKept(t) /\ At(t, c) = "send" /\ Goes(t, c, "idle") /\ Drops(t, {Its(t, c)})
         /\ sent'[t] = IF t \in Studios /\ sent[t] > 0 THEN sent[t] - 1 ELSE sent[t]
         /\ received'[t] = received[t] /\ (counting'[t] <=> counting[t])
         /\ crossed'[t] <=> crossed[t] \/ Its(t, c) \in answered[t]
         /\ c = "ui" => AgentKept(t)
<1> USE DEF OthersKept, Kept, CallKept, FiguresKept, PingsKept, AgentKept, CrossedKept,
            tracker, threads, history
<1>1. ASSUME BeginPing(t, c)
      PROVE  /\ OthersKept(t) /\ call[t][c] = Idle /\ (c = "agent" => t \in Studios)
             /\ seq'[t] = seq[t] + 1 /\ seq'[t] \in Numbers
             /\ Begins(t, c)
             /\ \A n \in Numbers : pending'[t][n] =
                  IF n = seq'[t] THEN 0
                  ELSE IF t \in Studios /\ n \in Expired(t) THEN Absent ELSE pending[t][n]
             /\ sent'[t] = IF t \in Studios THEN sent[t] + 1 ELSE sent[t]
             /\ received'[t] = received[t] /\ (counting'[t] <=> counting[t])
             /\ answered'[t] = answered[t] /\ AgentKept(t) /\ CrossedKept(t)
  <2>1. seq'[t] = seq[t] + 1 /\ seq'[t] \in Numbers /\ \A u \in Tools \ {t} : seq'[u] = seq[u]
    BY <1>1, BoundsAssumption DEF BeginPing, PingTypes, Numbers
  <2>2. PICK f : f = [n \in Numbers |-> IF n \in (IF t \in Studios THEN Expired(t) ELSE {})
                                        THEN Absent ELSE pending[t][n]]
    OBVIOUS
  <2>3. PICK g : g = [f EXCEPT ![seq'[t]] = 0]
    OBVIOUS
  <2>4. pending' = [pending EXCEPT ![t] = g]
    BY <1>1, <2>2, <2>3 DEF BeginPing, Without, PingTypes
  <2>5. pending'[t] = g /\ \A u \in Tools \ {t} : pending'[u] = pending[u]
    BY <2>4 DEF PingTypes
  <2>6. \A n \in Numbers : g[n] = IF n = seq'[t] THEN 0
                                  ELSE IF t \in Studios /\ n \in Expired(t) THEN Absent
                                  ELSE pending[t][n]
    BY <2>1, <2>2, <2>3
  <2>7. /\ sent'[t] = IF t \in Studios THEN sent[t] + 1 ELSE sent[t]
        /\ \A u \in Tools \ {t} : sent'[u] = sent[u]
    BY <1>1 DEF BeginPing, PingTypes
  <2>8. /\ call'[t][c] = [at |-> "send", n |-> seq'[t]]
        /\ \A d \in Callers \ {c} : call'[t][d] = call[t][d]
        /\ \A u \in Tools \ {t} : call'[u] = call[u]
    <3>1. call' = [call EXCEPT ![t][c] = [at |-> "send", n |-> seq'[t]]]
      BY <1>1 DEF BeginPing
    <3> QED BY <3>1 DEF PingTypes
  <2>10. Begins(t, c)
    BY <2>8 DEF Begins
  <2>9. call[t][c] = Idle /\ (c = "agent" => t \in Studios)
        /\ UNCHANGED <<received, counting, waited, answered, wiped, crossed>>
    BY <1>1 DEF BeginPing
  <2> QED BY <2>1, <2>5, <2>6, <2>7, <2>8, <2>9, <2>10
<1>2. ASSUME SendPing(t, c)
      PROVE  /\ OthersKept(t) /\ At(t, c) = "send" /\ Goes(t, c, AfterSend(t, c))
             /\ FiguresKept(t) /\ PingsKept(t) /\ AgentKept(t) /\ CrossedKept(t)
  <2>1. /\ At(t, c) = "send" /\ Go(t, c, AfterSend(t, c))
        /\ UNCHANGED <<tracker, counting, waited, history>>
    BY <1>2 DEF SendPing
  <2>2. AfterSend(t, c) \in Places
    BY DEF AfterSend, Places
  <2>3. Goes(t, c, AfterSend(t, c)) /\ \A u \in Tools \ {t} : call'[u] = call[u]
    BY <2>1, <2>2, GoGoes
  <2> QED BY <2>1, <2>3
<1>3. ASSUME SendFails(t, c)
      PROVE  /\ OthersKept(t) /\ At(t, c) = "send" /\ Goes(t, c, "idle") /\ Drops(t, {Its(t, c)})
             /\ sent'[t] = IF t \in Studios /\ sent[t] > 0 THEN sent[t] - 1 ELSE sent[t]
             /\ received'[t] = received[t] /\ (counting'[t] <=> counting[t])
             /\ crossed'[t] <=> crossed[t] \/ Its(t, c) \in answered[t]
             /\ c = "ui" => AgentKept(t)
  <2>1. /\ At(t, c) = "send" /\ Go(t, c, "idle") /\ pending' = Without(t, {Its(t, c)})
        /\ UNCHANGED <<seq, received, counting, answered>>
    BY <1>3 DEF SendFails
  <2>2. Goes(t, c, "idle") /\ \A u \in Tools \ {t} : call'[u] = call[u]
    BY <2>1, GoGoes DEF Places
  <2>3. /\ sent'[t] = IF t \in Studios /\ sent[t] > 0 THEN sent[t] - 1 ELSE sent[t]
        /\ \A u \in Tools \ {t} : sent'[u] = sent[u]
    BY <1>3 DEF SendFails, PingTypes
  <2>4. /\ crossed'[t] <=> crossed[t] \/ Its(t, c) \in answered[t]
        /\ \A u \in Tools \ {t} : crossed'[u] <=> crossed[u]
    BY <1>3 DEF SendFails, PingTypes
  <2>5. /\ c = "ui" => AgentKept(t)
        /\ \A u \in Tools \ {t} : AgentKept(u)
    BY <1>3 DEF SendFails, PingTypes, AgentLeaves
  <2>6. Drops(t, {Its(t, c)}) /\ \A u \in Tools \ {t} : pending'[u] = pending[u]
    BY <2>1, WithoutDrops DEF Drops
  <2> QED BY <2>1, <2>2, <2>3, <2>4, <2>5, <2>6
<1> HIDE DEF OthersKept, Kept, CallKept, FiguresKept, PingsKept, AgentKept, CrossedKept
<1> QED BY <1>1, <1>2, <1>3

\* The same of what needs no caller's argument, or has only one.
LEMMA WaitEffects ==
  ASSUME PingTypes, NEW t \in Tools
  PROVE
    /\ CountSent(t) =>
         /\ OthersKept(t) /\ At(t, "ui") = "count" /\ Goes(t, "ui", "idle")
         /\ sent'[t] = sent[t] + 1 /\ received'[t] = received[t] /\ (counting'[t] <=> counting[t])
         /\ PingsKept(t) /\ AgentKept(t) /\ CrossedKept(t)
    /\ PingGone(t) =>
         /\ OthersKept(t) /\ At(t, "agent") = "wait" /\ Its(t, "agent") \notin Pending(t)
         /\ Goes(t, "agent", "told")
         /\ FiguresKept(t) /\ PingsKept(t) /\ AgentKept(t) /\ CrossedKept(t)
    /\ PingReturns(t) =>
         /\ OthersKept(t) /\ At(t, "agent") \in {"wait", "told"} /\ Goes(t, "agent", "idle")
         /\ FiguresKept(t) /\ PingsKept(t) /\ CrossedKept(t)
    /\ CountAnswer(t) =>
         /\ OthersKept(t) /\ counting[t] /\ ~ counting'[t]
         /\ received'[t] = received[t] + 1 /\ sent'[t] = sent[t]
         /\ CallKept(t) /\ PingsKept(t) /\ AgentKept(t) /\ CrossedKept(t)
    /\ Refresh(t) \/ DropStale(t) =>
         /\ OthersKept(t) /\ Drops(t, Expired(t))
         /\ CallKept(t) /\ FiguresKept(t) /\ AgentKept(t) /\ CrossedKept(t)
    /\ Reset(t) =>
         /\ OthersKept(t) /\ call[t]["ui"] = Idle /\ Drops(t, Numbers)
         /\ counting'[t] <=> counting[t]
         /\ crossed'[t] <=> crossed[t] \/ Busy(t)
         /\ wiped'[t] <=> call[t]["agent"] # Idle
         /\ waited'[t] = waited[t]
         /\ t \in Studios => CallKept(t) /\ sent'[t] = 0 /\ received'[t] = 0
         /\ t \notin Studios =>
              Goes(t, "ui", "reset sent") /\ sent'[t] = sent[t] /\ received'[t] = received[t]
    /\ ResetSent(t) =>
         /\ OthersKept(t) /\ At(t, "ui") = "reset sent" /\ Goes(t, "ui", "reset answered")
         /\ sent'[t] = 0 /\ received'[t] = received[t] /\ (counting'[t] <=> counting[t])
         /\ PingsKept(t) /\ AgentKept(t) /\ CrossedKept(t)
    /\ ResetAnswered(t) =>
         /\ OthersKept(t) /\ At(t, "ui") = "reset answered" /\ Goes(t, "ui", "idle")
         /\ received'[t] = 0 /\ sent'[t] = sent[t] /\ (counting'[t] <=> counting[t])
         /\ PingsKept(t) /\ AgentKept(t) /\ CrossedKept(t)
<1> USE DEF OthersKept, Kept, CallKept, FiguresKept, PingsKept, AgentKept, CrossedKept,
            tracker, threads, history
<1>10. {"idle", "told", "reset sent", "reset answered"} \subseteq Places
       /\ {"ui", "agent"} \subseteq Callers
  BY DEF Places, Callers
<1>1. ASSUME CountSent(t)
      PROVE  /\ OthersKept(t) /\ At(t, "ui") = "count" /\ Goes(t, "ui", "idle")
             /\ sent'[t] = sent[t] + 1 /\ received'[t] = received[t]
             /\ (counting'[t] <=> counting[t])
             /\ PingsKept(t) /\ AgentKept(t) /\ CrossedKept(t)
  <2>1. Goes(t, "ui", "idle") /\ \A u \in Tools \ {t} : call'[u] = call[u]
    BY <1>1, <1>10, GoGoes DEF CountSent
  <2>2. sent'[t] = sent[t] + 1 /\ \A u \in Tools \ {t} : sent'[u] = sent[u]
    BY <1>1 DEF CountSent, PingTypes
  <2> QED BY <1>1, <2>1, <2>2 DEF CountSent
<1>2. ASSUME PingGone(t)
      PROVE  /\ OthersKept(t) /\ At(t, "agent") = "wait" /\ Its(t, "agent") \notin Pending(t)
             /\ Goes(t, "agent", "told")
             /\ FiguresKept(t) /\ PingsKept(t) /\ AgentKept(t) /\ CrossedKept(t)
  <2>1. Goes(t, "agent", "told") /\ \A u \in Tools \ {t} : call'[u] = call[u]
    BY <1>2, <1>10, GoGoes DEF PingGone
  <2> QED BY <1>2, <2>1 DEF PingGone
<1>3. ASSUME PingReturns(t)
      PROVE  /\ OthersKept(t) /\ At(t, "agent") \in {"wait", "told"} /\ Goes(t, "agent", "idle")
             /\ FiguresKept(t) /\ PingsKept(t) /\ CrossedKept(t)
  <2>1. Goes(t, "agent", "idle") /\ \A u \in Tools \ {t} : call'[u] = call[u]
    BY <1>3, <1>10, GoGoes DEF PingReturns
  <2>2. \A u \in Tools \ {t} : waited'[u] = waited[u] /\ (wiped'[u] <=> wiped[u])
    BY <1>3 DEF PingReturns, AgentLeaves, PingTypes
  <2> QED BY <1>3, <2>1, <2>2 DEF PingReturns
<1>4. ASSUME CountAnswer(t)
      PROVE  /\ OthersKept(t) /\ counting[t] /\ ~ counting'[t]
             /\ received'[t] = received[t] + 1 /\ sent'[t] = sent[t]
             /\ CallKept(t) /\ PingsKept(t) /\ AgentKept(t) /\ CrossedKept(t)
  BY <1>4 DEF CountAnswer, PingTypes
<1>5. ASSUME Refresh(t) \/ DropStale(t)
      PROVE  /\ OthersKept(t) /\ Drops(t, Expired(t))
             /\ CallKept(t) /\ FiguresKept(t) /\ AgentKept(t) /\ CrossedKept(t)
  <2>1. /\ pending' = Without(t, Expired(t))
        /\ UNCHANGED <<seq, answered, sent, received, threads, wiped, crossed>>
    BY <1>5 DEF Refresh, DropStale
  <2> QED BY <2>1, WithoutDrops DEF Drops
<1>6. ASSUME Reset(t)
      PROVE  /\ OthersKept(t) /\ call[t]["ui"] = Idle /\ Drops(t, Numbers)
             /\ counting'[t] <=> counting[t]
             /\ crossed'[t] <=> crossed[t] \/ Busy(t)
             /\ wiped'[t] <=> call[t]["agent"] # Idle
             /\ waited'[t] = waited[t]
             /\ t \in Studios => CallKept(t) /\ sent'[t] = 0 /\ received'[t] = 0
             /\ t \notin Studios =>
                  Goes(t, "ui", "reset sent") /\ sent'[t] = sent[t] /\ received'[t] = received[t]
  <2>1. /\ call[t]["ui"] = Idle /\ pending' = Without(t, Numbers)
        /\ UNCHANGED <<seq, answered, counting, waited>>
        /\ crossed' = [crossed EXCEPT ![t] = @ \/ Busy(t)]
        /\ wiped' = [wiped EXCEPT ![t] = call[t]["agent"] # Idle]
    BY <1>6 DEF Reset
  <2>2. Drops(t, Numbers) /\ \A u \in Tools \ {t} : pending'[u] = pending[u]
    BY <2>1, WithoutDrops DEF Drops
  <2>3. /\ crossed'[t] <=> crossed[t] \/ Busy(t)
        /\ \A u \in Tools \ {t} : crossed'[u] <=> crossed[u]
    BY <2>1 DEF PingTypes
  <2>4. /\ wiped'[t] <=> call[t]["agent"] # Idle
        /\ \A u \in Tools \ {t} : wiped'[u] <=> wiped[u]
    BY <2>1 DEF PingTypes
  <2>5. CASE t \in Studios
    <3>1. /\ sent' = [sent EXCEPT ![t] = 0] /\ received' = [received EXCEPT ![t] = 0]
          /\ UNCHANGED call
      BY <1>6, <2>5 DEF Reset
    <3>2. /\ sent'[t] = 0 /\ received'[t] = 0
          /\ \A u \in Tools \ {t} : sent'[u] = sent[u] /\ received'[u] = received[u]
      BY <3>1 DEF PingTypes
    <3> QED BY <2>1, <2>2, <2>3, <2>4, <2>5, <3>1, <3>2
  <2>6. CASE t \notin Studios
    <3>1. Go(t, "ui", "reset sent") /\ UNCHANGED <<sent, received>>
      BY <1>6, <2>6 DEF Reset
    <3>2. Goes(t, "ui", "reset sent") /\ \A u \in Tools \ {t} : call'[u] = call[u]
      BY <3>1, <1>10, GoGoes
    <3> QED BY <2>1, <2>2, <2>3, <2>4, <2>6, <3>1, <3>2
  <2> QED BY <2>5, <2>6
<1>7. ASSUME ResetSent(t)
      PROVE  /\ OthersKept(t) /\ At(t, "ui") = "reset sent" /\ Goes(t, "ui", "reset answered")
             /\ sent'[t] = 0 /\ received'[t] = received[t] /\ (counting'[t] <=> counting[t])
             /\ PingsKept(t) /\ AgentKept(t) /\ CrossedKept(t)
  <2>1. Goes(t, "ui", "reset answered") /\ \A u \in Tools \ {t} : call'[u] = call[u]
    BY <1>7, <1>10, GoGoes DEF ResetSent
  <2>2. sent'[t] = 0 /\ \A u \in Tools \ {t} : sent'[u] = sent[u]
    BY <1>7 DEF ResetSent, PingTypes
  <2> QED BY <1>7, <2>1, <2>2 DEF ResetSent
<1>8. ASSUME ResetAnswered(t)
      PROVE  /\ OthersKept(t) /\ At(t, "ui") = "reset answered" /\ Goes(t, "ui", "idle")
             /\ received'[t] = 0 /\ sent'[t] = sent[t] /\ (counting'[t] <=> counting[t])
             /\ PingsKept(t) /\ AgentKept(t) /\ CrossedKept(t)
  <2>1. Goes(t, "ui", "idle") /\ \A u \in Tools \ {t} : call'[u] = call[u]
    BY <1>8, <1>10, GoGoes DEF ResetAnswered
  <2>2. received'[t] = 0 /\ \A u \in Tools \ {t} : received'[u] = received[u]
    BY <1>8 DEF ResetAnswered, PingTypes
  <2> QED BY <1>8, <2>1, <2>2 DEF ResetAnswered
<1> HIDE DEF OthersKept, Kept, CallKept, FiguresKept, PingsKept, AgentKept, CrossedKept
<1> QED BY <1>1, <1>2, <1>3, <1>4, <1>5, <1>6, <1>7, <1>8

\* An answer is taken, once, from a ping that is open.
TakesAnswer(t, n) ==
  /\ n \in Pending(t) /\ seq'[t] = seq[t]
  /\ \A k \in Numbers : pending'[t][k] = IF k = n THEN Absent ELSE pending[t][k]
  /\ answered'[t] = answered[t] \cup {n} /\ sent'[t] = sent[t]
  /\ IF t \in Studios THEN received'[t] = received[t] + 1 /\ (counting'[t] <=> counting[t])
                      ELSE received'[t] = received[t] /\ counting'[t]
  /\ CallKept(t) /\ AgentKept(t) /\ CrossedKept(t)

\* What is received changes the receiver only.
LEMMA ReceiveEffects ==
  ASSUME PingTypes, NEW t \in Tools, NEW m \in wire
  PROVE  /\ OnPing(t, m) => \A u \in Tools : Kept(u)
         /\ OnPong(t, m) => OthersKept(t) /\ (Kept(t) \/ TakesAnswer(t, m.n))
<1> USE DEF OthersKept, Kept, CallKept, FiguresKept, PingsKept, AgentKept, CrossedKept,
            tracker, threads, history
<1>1. OnPing(t, m) => \A u \in Tools : Kept(u)
  BY DEF OnPing
<1>2. ASSUME OnPong(t, m) PROVE OthersKept(t) /\ (Kept(t) \/ TakesAnswer(t, m.n))
  <2>1. UNCHANGED <<seq, sent, call, waited, wiped, crossed>>
    BY <1>2 DEF OnPong
  <2>2. CASE m.n \notin Pending(t)
    BY <1>2, <2>1, <2>2 DEF OnPong
  <2>3. CASE m.n \in Pending(t)
    <3>1. /\ pending' = Without(t, {m.n})
          /\ answered' = [answered EXCEPT ![t] = @ \cup {m.n}] /\ Count(t)
      BY <1>2, <2>3 DEF OnPong
    <3>2. /\ \A k \in Numbers : pending'[t][k] = IF k \in {m.n} THEN Absent ELSE pending[t][k]
          /\ \A u \in Tools \ {t} : pending'[u] = pending[u]
      BY <3>1, WithoutDrops
    <3>3. /\ answered'[t] = answered[t] \cup {m.n}
          /\ \A u \in Tools \ {t} : answered'[u] = answered[u]
      BY <3>1 DEF PingTypes
    <3>4. /\ IF t \in Studios THEN received'[t] = received[t] + 1 /\ (counting'[t] <=> counting[t])
                              ELSE received'[t] = received[t] /\ counting'[t]
          /\ \A u \in Tools \ {t} : received'[u] = received[u] /\ (counting'[u] <=> counting[u])
      BY <3>1 DEF PingTypes, Count
    <3>5. TakesAnswer(t, m.n)
      BY <2>1, <2>3, <3>2, <3>3, <3>4 DEF TakesAnswer
    <3> QED BY <2>1, <3>2, <3>3, <3>4, <3>5
  <2> QED BY <2>2, <2>3
<1> QED BY <1>1, <1>2
-----------------------------------------------------------------------------
\* The types hold whatever is done.  (A ping cast has its sender's latest numbers.)
LEMMA PingTypesStep ==
  PingTypes /\ (\A t \in Tools : CallInv(t)) /\ [Next]_vars => PingTypes'
<1> SUFFICES ASSUME PingTypes, \A t \in Tools : CallInv(t), [Next]_vars PROVE PingTypes'
  OBVIOUS
<1> USE DEF tracker, threads, history
<1>1. /\ seq \in [Tools -> 0..MaxNumber] /\ pending \in [Tools -> [Numbers -> 0..Absent]]
      /\ sent \in [Tools -> Nat] /\ received \in [Tools -> Nat]
      /\ call \in [Tools -> [Callers -> [at : Places, n : 0..MaxNumber]]]
      /\ counting \in [Tools -> BOOLEAN] /\ waited \in [Tools -> Nat]
      /\ answered \in [Tools -> SUBSET Numbers] /\ echoed \in [Tools -> SUBSET Numbers]
      /\ wiped \in [Tools -> BOOLEAN] /\ crossed \in [Tools -> BOOLEAN]
      /\ \A m \in wire : /\ m.id \in {"ping", "pong"} /\ m.n \in Numbers /\ m.to \in Tools
                         /\ m.id = "ping" => m.by \in Tools
  BY DEF PingTypes
\* The parts of the type, for what each action leaves alone.
<1>2. ASSUME seq' \in [Tools -> 0..MaxNumber], pending' \in [Tools -> [Numbers -> 0..Absent]],
             sent' \in [Tools -> Nat], received' \in [Tools -> Nat],
             call' \in [Tools -> [Callers -> [at : Places, n : 0..MaxNumber]]],
             counting' \in [Tools -> BOOLEAN], waited' \in [Tools -> Nat],
             answered' \in [Tools -> SUBSET Numbers], echoed' \in [Tools -> SUBSET Numbers],
             wiped' \in [Tools -> BOOLEAN], crossed' \in [Tools -> BOOLEAN],
             \A m \in wire' : /\ m.id \in {"ping", "pong"} /\ m.n \in Numbers /\ m.to \in Tools
                              /\ m.id = "ping" => m.by \in Tools
      PROVE  PingTypes'
  BY <1>2 DEF PingTypes
<1> HIDE DEF PingTypes
<1>3. {"idle", "send", "count", "wait", "told", "reset sent", "reset answered"} = Places
      /\ {"ui", "agent"} = Callers
  BY DEF Places, Callers
<1>4. ASSUME NEW id \in {"ping", "pong"}, NEW n \in Numbers, NEW by, id = "ping" => by \in Tools,
             NEW rest \in SUBSET wire, Cast(id, n, by, rest)
      PROVE  \A m \in wire' : /\ m.id \in {"ping", "pong"} /\ m.n \in Numbers /\ m.to \in Tools
                              /\ m.id = "ping" => m.by \in Tools
  <2>1. PICK R \in SUBSET Tools :
          wire' = rest \cup {[id |-> id, n |-> n, by |-> by, to |-> r] : r \in R}
    BY <1>4 DEF Cast
  <2>2. SUFFICES ASSUME NEW m \in wire'
                 PROVE  /\ m.id \in {"ping", "pong"} /\ m.n \in Numbers /\ m.to \in Tools
                        /\ m.id = "ping" => m.by \in Tools
    OBVIOUS
  <2>3. CASE m \in rest
    BY <1>1, <2>3
  <2>4. CASE \E r \in R : m = [id |-> id, n |-> n, by |-> by, to |-> r]
    BY <1>4, <2>4
  <2> QED BY <2>1, <2>2, <2>3, <2>4
<1>5. ASSUME NEW t \in Tools, NEW c \in Callers, BeginPing(t, c) PROVE PingTypes'
  <2>1. seq' \in [Tools -> 0..MaxNumber] /\ seq'[t] \in Numbers /\ seq'[t] \in 0..MaxNumber
    BY <1>1, <1>5, BoundsAssumption DEF BeginPing, Numbers
  <2>2. pending' \in [Tools -> [Numbers -> 0..Absent]]
    <3>1. PICK f : f = [n \in Numbers |-> IF n \in (IF t \in Studios THEN Expired(t) ELSE {})
                                          THEN Absent ELSE pending[t][n]]
      OBVIOUS
    <3>2. PICK g : g = [f EXCEPT ![seq'[t]] = 0]
      OBVIOUS
    <3>3. pending' = [pending EXCEPT ![t] = g]
      BY <1>1, <1>5, <3>1, <3>2 DEF BeginPing, Without
    <3>4. Absent \in 0..Absent /\ 0 \in 0..Absent
      BY BoundsAssumption DEF Absent
    <3>5. f \in [Numbers -> 0..Absent]
      BY <1>1, <3>1, <3>4
    <3>6. g \in [Numbers -> 0..Absent]
      BY <3>2, <3>4, <3>5
    <3> QED BY <1>1, <3>3, <3>6
  <2>3. sent' \in [Tools -> Nat]
    BY <1>1, <1>5 DEF BeginPing
  <2>4. call' \in [Tools -> [Callers -> [at : Places, n : 0..MaxNumber]]]
    <3>1. PICK r : r = [at |-> "send", n |-> seq'[t]]
      OBVIOUS
    <3>2. r \in [at : Places, n : 0..MaxNumber]
      BY <1>3, <2>1, <3>1
    <3>3. PICK f : f = [call[t] EXCEPT ![c] = r]
      OBVIOUS
    <3>4. f \in [Callers -> [at : Places, n : 0..MaxNumber]]
      BY <1>1, <3>2, <3>3
    <3>5. call' = [call EXCEPT ![t] = f]
      BY <1>5, <3>1, <3>3 DEF BeginPing
    <3> QED BY <1>1, <3>4, <3>5
  <2>5. UNCHANGED <<received, counting, waited, wire, history>>
    BY <1>5 DEF BeginPing
  <2> QED BY <1>1, <1>2, <2>1, <2>2, <2>3, <2>4, <2>5
<1>6. ASSUME NEW t \in Tools, NEW c \in Callers, SendPing(t, c) PROVE PingTypes'
  <2>1. /\ At(t, c) = "send" /\ Cast("ping", Its(t, c), t, wire) /\ Go(t, c, AfterSend(t, c))
        /\ UNCHANGED <<tracker, counting, waited, history>>
    BY <1>6 DEF SendPing
  <2>2. call' \in [Tools -> [Callers -> [at : Places, n : 0..MaxNumber]]]
    BY <1>3, <2>1, GoGoes DEF AfterSend
  <2>3. Its(t, c) \in Numbers
    BY <2>1 DEF CallInv
  <2>4. \A m \in wire' : /\ m.id \in {"ping", "pong"} /\ m.n \in Numbers /\ m.to \in Tools
                         /\ m.id = "ping" => m.by \in Tools
    BY <1>4, <2>1, <2>3
  <2> QED BY <1>1, <1>2, <2>1, <2>2, <2>4
<1>7. ASSUME NEW t \in Tools, NEW c \in Callers, SendFails(t, c) PROVE PingTypes'
  <2>1. call' \in [Tools -> [Callers -> [at : Places, n : 0..MaxNumber]]]
    BY <1>3, <1>7, GoGoes DEF SendFails
  <2>2. pending' \in [Tools -> [Numbers -> 0..Absent]]
    BY <1>7, WithoutDrops DEF SendFails
  <2>3. sent' \in [Tools -> Nat]
    BY <1>1, <1>7 DEF SendFails
  <2>4. crossed' \in [Tools -> BOOLEAN]
    BY <1>1, <1>7 DEF SendFails
  <2>5. waited' \in [Tools -> Nat] /\ wiped' \in [Tools -> BOOLEAN]
    <3>1. CASE c = "agent"
      <4>1. waited' = [waited EXCEPT ![t] = 0] /\ wiped' = [wiped EXCEPT ![t] = FALSE]
        BY <1>7, <3>1 DEF SendFails, AgentLeaves
      <4> QED BY <1>1, <4>1
    <3>2. CASE c # "agent"
      BY <1>1, <1>7, <3>2 DEF SendFails
    <3> QED BY <3>1, <3>2
  <2>6. UNCHANGED <<seq, received, counting, wire, answered, echoed>>
    BY <1>7 DEF SendFails
  <2> QED BY <1>1, <1>2, <2>1, <2>2, <2>3, <2>4, <2>5, <2>6
<1>8. ASSUME NEW t \in Tools, CountSent(t) PROVE PingTypes'
  <2>1. call' \in [Tools -> [Callers -> [at : Places, n : 0..MaxNumber]]]
    BY <1>3, <1>8, GoGoes DEF CountSent
  <2>2. sent' \in [Tools -> Nat]
    BY <1>1, <1>8 DEF CountSent
  <2> QED BY <1>1, <1>2, <1>8, <2>1, <2>2 DEF CountSent
<1>9. ASSUME NEW t \in Tools, PingGone(t) PROVE PingTypes'
  <2>1. call' \in [Tools -> [Callers -> [at : Places, n : 0..MaxNumber]]]
    BY <1>3, <1>9, GoGoes DEF PingGone
  <2> QED BY <1>1, <1>2, <1>9, <2>1 DEF PingGone
<1>10. ASSUME NEW t \in Tools, PingReturns(t) PROVE PingTypes'
  <2>1. call' \in [Tools -> [Callers -> [at : Places, n : 0..MaxNumber]]]
    BY <1>3, <1>10, GoGoes DEF PingReturns
  <2>2. waited' \in [Tools -> Nat] /\ wiped' \in [Tools -> BOOLEAN]
    BY <1>1, <1>10 DEF PingReturns, AgentLeaves
  <2> QED BY <1>1, <1>2, <1>10, <2>1, <2>2 DEF PingReturns
<1>11. ASSUME NEW t \in Tools, NEW m \in wire, OnPing(t, m) PROVE PingTypes'
  <2>1. UNCHANGED <<tracker, threads, answered, wiped, crossed>>
    BY <1>11 DEF OnPing
  <2>2. /\ echoed' \in [Tools -> SUBSET Numbers]
        /\ \A k \in wire' : /\ k.id \in {"ping", "pong"} /\ k.n \in Numbers /\ k.to \in Tools
                            /\ k.id = "ping" => k.by \in Tools
    <3>1. CASE Cast("pong", m.n, "nobody", wire \ {m})
               /\ echoed' = [u \in Tools |-> IF u = t /\ u = m.by THEN echoed[u]
                                             ELSE echoed[u] \cup {m.n}]
      <4>1. m.n \in Numbers
        BY <1>1
      <4>2. echoed' \in [Tools -> SUBSET Numbers]
        BY <1>1, <3>1, <4>1
      <4>3. wire \ {m} \in SUBSET wire
        OBVIOUS
      <4>4. \A k \in wire' : /\ k.id \in {"ping", "pong"} /\ k.n \in Numbers /\ k.to \in Tools
                             /\ k.id = "ping" => k.by \in Tools
        BY <1>4, <3>1, <4>1, <4>3
      <4> QED BY <4>2, <4>4
    <3>2. CASE wire' = wire \ {m} /\ UNCHANGED echoed
      BY <1>1, <3>2
    <3> QED BY <1>11, <3>1, <3>2 DEF OnPing
  <2> QED BY <1>1, <1>2, <2>1, <2>2
<1>12. ASSUME NEW t \in Tools, NEW m \in wire, OnPong(t, m) PROVE PingTypes'
  <2>1. /\ UNCHANGED <<seq, sent, call, waited, echoed, wiped, crossed>>
        /\ wire' \in {wire, wire \ {m}}
    BY <1>12 DEF OnPong
  <2>2. CASE UNCHANGED <<pending, answered, received, counting>>
    BY <1>1, <1>2, <2>1, <2>2
  <2>3. CASE /\ pending' = Without(t, {m.n}) /\ Count(t)
             /\ answered' = [answered EXCEPT ![t] = @ \cup {m.n}]
    <3>1. pending' \in [Tools -> [Numbers -> 0..Absent]]
      BY <2>3, WithoutDrops
    <3>2. answered' \in [Tools -> SUBSET Numbers]
      BY <1>1, <2>3
    <3>3. received' \in [Tools -> Nat] /\ counting' \in [Tools -> BOOLEAN]
      <4>1. CASE t \in Studios
        BY <1>1, <2>3, <4>1 DEF Count
      <4>2. CASE t \notin Studios
        BY <1>1, <2>3, <4>2 DEF Count
      <4> QED BY <4>1, <4>2
    <3> QED BY <1>1, <1>2, <2>1, <3>1, <3>2, <3>3
  <2> QED BY <1>12, <2>2, <2>3 DEF OnPong
<1>13. ASSUME NEW t \in Tools, CountAnswer(t) PROVE PingTypes'
  <2>1. received' \in [Tools -> Nat] /\ counting' \in [Tools -> BOOLEAN]
    BY <1>1, <1>13 DEF CountAnswer
  <2> QED BY <1>1, <1>2, <1>13, <2>1 DEF CountAnswer
<1>14. ASSUME NEW t \in Tools, Refresh(t) \/ DropStale(t) PROVE PingTypes'
  <2>1. pending' \in [Tools -> [Numbers -> 0..Absent]]
    BY <1>14, WithoutDrops DEF Refresh, DropStale
  <2> QED BY <1>1, <1>2, <1>14, <2>1 DEF Refresh, DropStale
<1>15. ASSUME NEW t \in Tools, Reset(t) PROVE PingTypes'
  <2>1. pending' \in [Tools -> [Numbers -> 0..Absent]]
    BY <1>15, WithoutDrops DEF Reset
  <2>2. call' \in [Tools -> [Callers -> [at : Places, n : 0..MaxNumber]]]
    BY <1>1, <1>3, <1>15, GoGoes DEF Reset
  <2>3. crossed' \in [Tools -> BOOLEAN] /\ wiped' \in [Tools -> BOOLEAN]
    BY <1>1, <1>15 DEF Reset
  <2>4. sent' \in [Tools -> Nat] /\ received' \in [Tools -> Nat]
    <3>1. CASE t \in Studios
      <4>1. sent' = [sent EXCEPT ![t] = 0] /\ received' = [received EXCEPT ![t] = 0]
        BY <1>15, <3>1 DEF Reset
      <4> QED BY <1>1, <4>1
    <3>2. CASE t \notin Studios
      BY <1>1, <1>15, <3>2 DEF Reset
    <3> QED BY <3>1, <3>2
  <2> QED BY <1>1, <1>2, <1>15, <2>1, <2>2, <2>3, <2>4 DEF Reset
<1>16. ASSUME NEW t \in Tools, ResetSent(t) PROVE PingTypes'
  <2>1. call' \in [Tools -> [Callers -> [at : Places, n : 0..MaxNumber]]]
    BY <1>3, <1>16, GoGoes DEF ResetSent
  <2>2. sent' \in [Tools -> Nat]
    BY <1>1, <1>16 DEF ResetSent
  <2> QED BY <1>1, <1>2, <1>16, <2>1, <2>2 DEF ResetSent
<1>17. ASSUME NEW t \in Tools, ResetAnswered(t) PROVE PingTypes'
  <2>1. call' \in [Tools -> [Callers -> [at : Places, n : 0..MaxNumber]]]
    BY <1>3, <1>17, GoGoes DEF ResetAnswered
  <2>2. received' \in [Tools -> Nat]
    BY <1>1, <1>17 DEF ResetAnswered
  <2> QED BY <1>1, <1>2, <1>17, <2>1, <2>2 DEF ResetAnswered
<1>18. CASE Tick
  <2>1. \A k \in 0..Absent : Older(k) \in 0..Absent
    BY BoundsAssumption DEF Older, Old, Absent
  <2>2. \A k \in Nat : Older(k) \in Nat
    BY BoundsAssumption DEF Older, Old
  <2> HIDE DEF Older
  <2>3. pending' \in [Tools -> [Numbers -> 0..Absent]]
    BY <1>1, <1>18, <2>1 DEF Tick
  <2>4. waited' \in [Tools -> Nat]
    BY <1>1, <1>18, <2>2 DEF Tick
  <2> QED BY <1>1, <1>2, <1>18, <2>3, <2>4 DEF Tick
<1>19. CASE UNCHANGED vars
  BY <1>1, <1>2, <1>19 DEF vars
<1> QED
  BY <1>5, <1>6, <1>7, <1>8, <1>9, <1>10, <1>11, <1>12, <1>13, <1>14, <1>15, <1>16, <1>17,
     <1>18, <1>19
  DEF Next, Receive
-----------------------------------------------------------------------------
\* Where a caller is once it has gone on.
LEMMA GoesTo ==
  ASSUME NEW t \in Tools, NEW c \in Callers, NEW where, Goes(t, c, where)
  PROVE  /\ At(t, c)' = where /\ (where # "idle" => Its(t, c)' = Its(t, c))
         /\ \A d \in Callers \ {c} : At(t, d)' = At(t, d) /\ Its(t, d)' = Its(t, d)
  BY DEF Goes, At, Its, Idle

\* Which pings are pending after some are dropped.
LEMMA DropsLess ==
  ASSUME NEW t \in Tools, NEW N, Drops(t, N)
  PROVE  Pending(t)' = Pending(t) \ N
  BY DEF Drops, Pending

\* What nobody touches stays as it is.
LEMMA KeptStays ==
  ASSUME NEW u \in Tools, Kept(u)
  PROVE  /\ CallInv(u) => CallInv(u)'
         /\ NumberInv(u) => NumberInv(u)'
         /\ Balance(u) => Balance(u)'
         /\ AgentInv(u) => AgentInv(u)'
<1> USE DEF Kept, CallKept, FiguresKept, PingsKept, AgentKept, CrossedKept
<1>1. \A c \in Callers : At(u, c)' = At(u, c) /\ Its(u, c)' = Its(u, c)
  BY DEF At, Its
<1>2. Pending(u)' = Pending(u)
  BY DEF Pending
<1>3. Sending(u)' = Sending(u)
  BY <1>1 DEF Sending
<1>4. {"ui", "agent"} = Callers
  BY DEF Callers
<1>5. At(u, "ui")' = At(u, "ui") /\ At(u, "agent")' = At(u, "agent")
      /\ Its(u, "ui")' = Its(u, "ui") /\ Its(u, "agent")' = Its(u, "agent")
  BY <1>1, <1>4
<1> HIDE DEF At, Its, Pending, Sending
<1>6. Open(u)' = Open(u)
  BY <1>2, <1>3 DEF Open
<1>7. Counted(u)' = Counted(u) /\ Owed(u)' = Owed(u)
  BY <1>5 DEF Counted, Owed
<1>8. CallInv(u) => CallInv(u)'
  BY <1>1, <1>5 DEF CallInv
<1>9. NumberInv(u) => NumberInv(u)'
  BY <1>2 DEF NumberInv
<1>10. Balance(u) => Balance(u)'
  BY <1>2, <1>5, <1>6, <1>7 DEF Balance
<1>11. AgentInv(u) => AgentInv(u)'
  BY <1>2, <1>5 DEF AgentInv
<1> QED BY <1>8, <1>9, <1>10, <1>11

\* Each caller has a ping of its own.
LEMMA CallStep ==
  ASSUME PingTypes, NEW t \in Tools, CallInv(t), Acts(t)
  PROVE  CallInv(t)'
<1>1. /\ t \in Studios => ~ counting[t] /\ At(t, "ui") \in {"idle", "send"}
                          /\ At(t, "agent") \in {"idle", "send", "wait", "told"}
      /\ t \in Viewers => At(t, "ui") \notin {"wait", "told"} /\ At(t, "agent") = "idle"
      /\ At(t, "ui") \in {"send", "wait", "told"} =>
           Its(t, "ui") \in Numbers /\ Its(t, "ui") <= seq[t]
      /\ At(t, "agent") \in {"send", "wait", "told"} =>
           Its(t, "agent") \in Numbers /\ Its(t, "agent") <= seq[t]
      /\ At(t, "ui") = "send" /\ At(t, "agent") \in {"send", "wait", "told"}
           => Its(t, "ui") # Its(t, "agent")
  BY DEF CallInv, Callers
<1>2. ASSUME t \in Studios => ~ counting'[t] /\ At(t, "ui")' \in {"idle", "send"}
                              /\ At(t, "agent")' \in {"idle", "send", "wait", "told"},
             t \in Viewers => At(t, "ui")' \notin {"wait", "told"} /\ At(t, "agent")' = "idle",
             At(t, "ui")' \in {"send", "wait", "told"} =>
               Its(t, "ui")' \in Numbers /\ Its(t, "ui")' <= seq'[t],
             At(t, "agent")' \in {"send", "wait", "told"} =>
               Its(t, "agent")' \in Numbers /\ Its(t, "agent")' <= seq'[t],
             At(t, "ui")' = "send" /\ At(t, "agent")' \in {"send", "wait", "told"}
               => Its(t, "ui")' # Its(t, "agent")'
      PROVE  CallInv(t)'
  BY <1>2 DEF CallInv, Callers
<1>3. /\ Callers = {"ui", "agent"} /\ t \in Studios \cup Viewers
      /\ ~ (t \in Studios /\ t \in Viewers)
      /\ seq[t] \in Nat
  BY ToolsAssumption, BoundsAssumption DEF Callers, Tools, PingTypes
<1> HIDE DEF CallInv, At, Its, Callers
<1>4. ASSUME CallKept(t), seq'[t] = seq[t], t \in Studios => ~ counting'[t] PROVE CallInv(t)'
  <2>1. /\ At(t, "ui")' = At(t, "ui") /\ Its(t, "ui")' = Its(t, "ui")
        /\ At(t, "agent")' = At(t, "agent") /\ Its(t, "agent")' = Its(t, "agent")
    BY <1>4 DEF CallKept, At, Its
  <2> QED BY <1>1, <1>2, <1>4, <2>1
\* A caller that goes on has the same ping, or none any more.
<1>5. ASSUME NEW c \in Callers, NEW where, Goes(t, c, where), seq'[t] = seq[t],
             counting'[t] <=> counting[t],
             \/ where = "idle"
             \/ where = "count" /\ c = "ui" /\ t \in Viewers
             \/ where \in {"wait", "told"} /\ At(t, c) \in {"send", "wait"}
                /\ c = "agent" /\ t \in Studios
             \/ where \in {"reset sent", "reset answered"} /\ c = "ui" /\ t \in Viewers
      PROVE  CallInv(t)'
  <2>1. /\ At(t, c)' = where /\ (where # "idle" => Its(t, c)' = Its(t, c))
        /\ \A d \in Callers \ {c} : At(t, d)' = At(t, d) /\ Its(t, d)' = Its(t, d)
    BY <1>5, GoesTo
  <2>2. CASE c = "ui"
    <3>1. At(t, "agent")' = At(t, "agent") /\ Its(t, "agent")' = Its(t, "agent")
      BY <1>3, <2>1, <2>2
    <3> QED BY <1>1, <1>2, <1>3, <1>5, <2>1, <2>2, <3>1
  <2>3. CASE c = "agent"
    <3>1. At(t, "ui")' = At(t, "ui") /\ Its(t, "ui")' = Its(t, "ui")
      BY <1>3, <2>1, <2>3
    <3> QED BY <1>1, <1>2, <1>3, <1>5, <2>1, <2>3, <3>1
  <2> QED BY <1>3, <2>2, <2>3
<1>6. ASSUME NEW c \in Callers, BeginPing(t, c) PROVE CallInv(t)'
  <2>1. /\ c = "agent" => t \in Studios
        /\ seq'[t] = seq[t] + 1 /\ seq'[t] \in Numbers /\ (counting'[t] <=> counting[t])
        /\ call'[t][c] = [at |-> "send", n |-> seq'[t]]
        /\ \A d \in Callers \ {c} : call'[t][d] = call[t][d]
    <3>1. /\ c = "agent" => t \in Studios
          /\ seq'[t] = seq[t] + 1 /\ seq'[t] \in Numbers /\ (counting'[t] <=> counting[t])
          /\ Begins(t, c)
      BY <1>6, CallerEffects
    <3> QED BY <3>1 DEF Begins
  <2>2. At(t, c)' = "send" /\ Its(t, c)' = seq[t] + 1
    BY <2>1 DEF At, Its
  <2>3. \A d \in Callers \ {c} : At(t, d)' = At(t, d) /\ Its(t, d)' = Its(t, d)
    BY <2>1 DEF At, Its
  <2>4. CASE c = "ui"
    <3>1. At(t, "agent")' = At(t, "agent") /\ Its(t, "agent")' = Its(t, "agent")
      BY <1>3, <2>3, <2>4
    <3>2. At(t, "agent") \in {"send", "wait", "told"} => Its(t, "agent") \in Nat
      BY <1>1 DEF Numbers
    <3> QED BY <1>1, <1>2, <1>3, <2>1, <2>2, <2>4, <3>1, <3>2
  <2>5. CASE c = "agent"
    <3>1. At(t, "ui")' = At(t, "ui") /\ Its(t, "ui")' = Its(t, "ui")
      BY <1>3, <2>3, <2>5
    <3>2. At(t, "ui") \in {"send", "wait", "told"} => Its(t, "ui") \in Nat
      BY <1>1 DEF Numbers
    <3> QED BY <1>1, <1>2, <1>3, <2>1, <2>2, <2>5, <3>1, <3>2
  <2> QED BY <1>3, <2>4, <2>5
<1>7. ASSUME NEW c \in Callers, SendPing(t, c) PROVE CallInv(t)'
  <2>1. /\ At(t, c) = "send" /\ Goes(t, c, AfterSend(t, c)) /\ seq'[t] = seq[t]
        /\ (counting'[t] <=> counting[t])
    BY <1>7, CallerEffects DEF FiguresKept, PingsKept
  <2>2. \/ t \in Viewers /\ c = "ui" /\ AfterSend(t, c) = "count"
        \/ t \in Studios /\ c = "agent" /\ AfterSend(t, c) = "wait"
        \/ AfterSend(t, c) = "idle"
    BY <1>1, <1>3, <2>1 DEF AfterSend
  <2> HIDE DEF AfterSend
  <2> QED BY <1>5, <2>1, <2>2
<1>8. ASSUME NEW c \in Callers, SendFails(t, c) PROVE CallInv(t)'
  <2>1. Goes(t, c, "idle") /\ seq'[t] = seq[t] /\ (counting'[t] <=> counting[t])
    BY <1>8, CallerEffects DEF Drops
  <2> QED BY <1>5, <2>1
<1>9. ASSUME CountSent(t) \/ ResetAnswered(t) PROVE CallInv(t)'
  <2>1. Goes(t, "ui", "idle") /\ seq'[t] = seq[t] /\ (counting'[t] <=> counting[t])
    BY <1>9, WaitEffects DEF PingsKept
  <2> QED BY <1>3, <1>5, <2>1
<1>10. ASSUME PingGone(t) PROVE CallInv(t)'
  <2>1. /\ At(t, "agent") = "wait" /\ Goes(t, "agent", "told") /\ seq'[t] = seq[t]
        /\ (counting'[t] <=> counting[t])
    BY <1>10, WaitEffects DEF FiguresKept, PingsKept
  <2> QED BY <1>1, <1>3, <1>5, <2>1
<1>11. ASSUME PingReturns(t) PROVE CallInv(t)'
  <2>1. Goes(t, "agent", "idle") /\ seq'[t] = seq[t] /\ (counting'[t] <=> counting[t])
    BY <1>11, WaitEffects DEF FiguresKept, PingsKept
  <2> QED BY <1>3, <1>5, <2>1
<1>12. ASSUME Receive(t) PROVE CallInv(t)'
  <2>1. CallKept(t) /\ seq'[t] = seq[t] /\ (t \in Studios => (counting'[t] <=> counting[t]))
    BY <1>12, ReceiveEffects DEF Receive, Kept, PingsKept, FiguresKept, TakesAnswer
  <2> QED BY <1>1, <1>4, <2>1
<1>13. ASSUME CountAnswer(t) \/ Refresh(t) \/ DropStale(t) PROVE CallInv(t)'
  <2>1. CallKept(t) /\ seq'[t] = seq[t] /\ (counting'[t] => counting[t])
    BY <1>13, WaitEffects DEF PingsKept, FiguresKept, Drops
  <2> QED BY <1>1, <1>4, <2>1
<1>14. ASSUME Reset(t) PROVE CallInv(t)'
  <2>1. /\ seq'[t] = seq[t] /\ (counting'[t] <=> counting[t])
        /\ t \in Studios => CallKept(t)
        /\ t \notin Studios => Goes(t, "ui", "reset sent")
    BY <1>14, WaitEffects DEF Drops
  <2>2. CASE t \in Studios
    BY <1>1, <1>4, <2>1, <2>2
  <2>3. CASE t \notin Studios
    BY <1>3, <1>5, <2>1, <2>3
  <2> QED BY <2>2, <2>3
<1>15. ASSUME ResetSent(t) PROVE CallInv(t)'
  <2>1. /\ At(t, "ui") = "reset sent" /\ Goes(t, "ui", "reset answered") /\ seq'[t] = seq[t]
        /\ (counting'[t] <=> counting[t])
    BY <1>15, WaitEffects DEF PingsKept
  <2> QED BY <1>1, <1>3, <1>5, <2>1
<1> QED
  BY <1>6, <1>7, <1>8, <1>9, <1>10, <1>11, <1>12, <1>13, <1>14, <1>15 DEF Acts

\* Whoever acts, the other tools are not concerned.
LEMMA OneActs ==
  ASSUME PingTypes, NEW t \in Tools, Acts(t)
  PROVE  OthersKept(t)
<1>1. ASSUME NEW m \in wire, OnPing(t, m) \/ OnPong(t, m) PROVE OthersKept(t)
  BY <1>1, ReceiveEffects DEF OthersKept
<1> QED BY <1>1, CallerEffects, WaitEffects DEF Acts, Receive

\* Numbers are given in order, and a ping answered is pending no longer.
LEMMA NumberStep ==
  ASSUME PingTypes, NEW t \in Tools, NumberInv(t), Acts(t)
  PROVE  NumberInv(t)'
<1>1. seq[t] \in Nat /\ \A n \in Numbers : n \in Nat
  BY BoundsAssumption DEF PingTypes, Numbers
<1>2. Pending(t) \subseteq Numbers /\ answered[t] \subseteq Numbers
  BY DEF Pending, PingTypes
<1>3. ASSUME NEW c \in Callers, BeginPing(t, c) PROVE NumberInv(t)'
  <2>1. /\ seq'[t] = seq[t] + 1 /\ seq'[t] \in Numbers /\ answered'[t] = answered[t]
        /\ \A n \in Numbers : pending'[t][n] =
             IF n = seq'[t] THEN 0
             ELSE IF t \in Studios /\ n \in Expired(t) THEN Absent ELSE pending[t][n]
    BY <1>3, CallerEffects
  <2>2. Pending(t)' \subseteq Pending(t) \cup {seq'[t]}
    BY <2>1 DEF Pending
  <2>3. seq'[t] \notin answered[t]
    BY <1>1, <1>2, <2>1 DEF NumberInv
  <2> QED BY <1>1, <1>2, <2>1, <2>2, <2>3 DEF NumberInv
<1>4. ASSUME seq'[t] = seq[t], answered'[t] = answered[t], Pending(t)' \subseteq Pending(t)
      PROVE  NumberInv(t)'
  BY <1>4 DEF NumberInv
<1>5. ASSUME PingsKept(t) PROVE NumberInv(t)'
  BY <1>4, <1>5 DEF PingsKept, Pending
<1>6. ASSUME NEW N, Drops(t, N) PROVE NumberInv(t)'
  BY <1>4, <1>6, DropsLess DEF Drops
<1>7. ASSUME NEW n \in Numbers, TakesAnswer(t, n) PROVE NumberInv(t)'
  <2>1. Pending(t)' = Pending(t) \ {n} /\ answered'[t] = answered[t] \cup {n} /\ n \in Pending(t)
        /\ seq'[t] = seq[t]
    BY <1>7 DEF TakesAnswer, Pending
  <2> QED BY <2>1 DEF NumberInv
<1>8. ASSUME NEW c \in Callers, SendPing(t, c) \/ SendFails(t, c) PROVE NumberInv(t)'
  BY <1>5, <1>6, <1>8, CallerEffects
<1>9. ASSUME NEW m \in wire, OnPing(t, m) \/ OnPong(t, m) PROVE NumberInv(t)'
  <2>1. m.n \in Numbers
    BY DEF PingTypes
  <2>2. Kept(t) \/ TakesAnswer(t, m.n)
    BY <1>9, ReceiveEffects
  <2> QED BY <1>5, <1>7, <2>1, <2>2 DEF Kept
<1>10. ASSUME \/ CountSent(t) \/ PingGone(t) \/ PingReturns(t) \/ CountAnswer(t)
              \/ ResetSent(t) \/ ResetAnswered(t)
       PROVE  NumberInv(t)'
  BY <1>5, <1>10, WaitEffects
<1>11. ASSUME Refresh(t) \/ DropStale(t) \/ Reset(t) PROVE NumberInv(t)'
  BY <1>6, <1>11, WaitEffects
<1> QED BY <1>3, <1>8, <1>9, <1>10, <1>11 DEF Acts, Receive
-----------------------------------------------------------------------------
\* A finite set of numbers, and one with fewer, or with one more or less.
LEMMA Fewer ==
  ASSUME NEW S, IsFiniteSet(S), NEW T, NEW n
  PROVE  /\ Cardinality(S) \in Nat
         /\ T \subseteq S => Cardinality(T) \in Nat /\ Cardinality(T) <= Cardinality(S)
         /\ n \in S /\ T \subseteq S \ {n} =>
              Cardinality(T) \in Nat /\ Cardinality(T) + 1 <= Cardinality(S)
         /\ T \subseteq S \cup {n} =>
              Cardinality(T) \in Nat /\ Cardinality(T) <= Cardinality(S) + 1
<1>1. Cardinality(S) \in Nat
  BY FS_CardinalityType
<1>2. ASSUME T \subseteq S PROVE Cardinality(T) \in Nat /\ Cardinality(T) <= Cardinality(S)
  <2>1. IsFiniteSet(T) /\ Cardinality(T) <= Cardinality(S)
    BY <1>2, FS_Subset
  <2> QED BY <2>1, FS_CardinalityType
<1>3. ASSUME n \in S, T \subseteq S \ {n}
      PROVE  Cardinality(T) \in Nat /\ Cardinality(T) + 1 <= Cardinality(S)
  <2>1. IsFiniteSet(S \ {n}) /\ Cardinality(S \ {n}) = Cardinality(S) - 1
    BY <1>3, FS_RemoveElement
  <2>2. IsFiniteSet(T) /\ Cardinality(T) <= Cardinality(S \ {n})
    BY <1>3, <2>1, FS_Subset
  <2>3. Cardinality(T) \in Nat
    BY <2>2, FS_CardinalityType
  <2> QED BY <1>1, <2>1, <2>2, <2>3
<1>4. ASSUME T \subseteq S \cup {n}
      PROVE  Cardinality(T) \in Nat /\ Cardinality(T) <= Cardinality(S) + 1
  <2>1. IsFiniteSet(S \cup {n})
        /\ Cardinality(S \cup {n}) = IF n \in S THEN Cardinality(S) ELSE Cardinality(S) + 1
    BY FS_AddElement
  <2>2. IsFiniteSet(T) /\ Cardinality(T) <= Cardinality(S \cup {n})
    BY <1>4, <2>1, FS_Subset
  <2>3. Cardinality(T) \in Nat
    BY <2>2, FS_CardinalityType
  <2> QED BY <1>1, <2>1, <2>2, <2>3
<1> QED BY <1>1, <1>2, <1>3, <1>4

\* The pings of a tool that are open are among those it may number.
LEMMA OpenFinite ==
  ASSUME PingTypes, NEW t \in Tools, CallInv(t)
  PROVE  Open(t) \subseteq Numbers /\ IsFiniteSet(Open(t)) /\ IsFiniteSet(Pending(t))
<1>1. IsFiniteSet(Numbers)
  BY BoundsAssumption, FS_Interval DEF Numbers
<1>2. Open(t) \subseteq Numbers /\ Pending(t) \subseteq Numbers
  BY DEF Open, Pending, Sending, CallInv
<1> QED BY <1>1, <1>2, FS_Subset

\* Nothing is lost in counting: a ping counted as sent is counted as received, is
\* still open, or is nobody's any more.
LEMMA BalanceStep ==
  ASSUME PingTypes, NEW t \in Tools, CallInv(t), NumberInv(t), Balance(t), Acts(t)
  PROVE  Balance(t)'
<1>1. /\ t \in Studios => ~ counting[t] /\ At(t, "ui") \in {"idle", "send"}
      /\ t \in Viewers => At(t, "agent") = "idle"
      /\ At(t, "ui") = "send" /\ At(t, "agent") = "send" => Its(t, "ui") # Its(t, "agent")
      /\ t \in Studios \/ t \in Viewers
      /\ ~ (t \in Studios /\ t \in Viewers)
      /\ sent[t] \in Nat /\ received[t] \in Nat
      /\ Callers = {"ui", "agent"}
  BY ToolsAssumption DEF CallInv, PingTypes, Tools, Callers
<1>2. IsFiniteSet(Open(t)) /\ Cardinality(Open(t)) \in Nat
  BY OpenFinite, FS_CardinalityType
<1>3. \A n : n \in Sending(t) <=> \E c \in Callers : At(t, c) = "send" /\ n = Its(t, c)
  BY DEF Sending
<1>4. \A n : n \in Sending(t)' <=> \E c \in Callers : At(t, c)' = "send" /\ n = Its(t, c)'
  BY DEF Sending
<1>5. Counted(t) \in Nat /\ Owed(t) \in Nat
  BY <1>1 DEF Counted, Owed
<1>6. ASSUME At(t, "ui") \notin {"reset sent", "reset answered"},
             At(t, "ui")' \notin {"reset sent", "reset answered"},
             ~ crossed'[t] => ~ crossed[t],
             \/ Open(t)' \subseteq Open(t) /\ Counted(t)' = Counted(t) /\ Owed(t)' = Owed(t)
             \/ /\ \E n : Open(t)' \subseteq Open(t) \cup {n}
                /\ Counted(t)' = Counted(t) /\ Owed(t)' = Owed(t) + 1
             \/ /\ ~ crossed'[t] => \E n \in Open(t) : Open(t)' \subseteq Open(t) \ {n}
                /\ \/ Counted(t)' = Counted(t) /\ Owed(t)' = Owed(t) - 1
                   \/ Counted(t)' = Counted(t) + 1 /\ Owed(t)' = Owed(t)
      PROVE  Balance(t)'
  <2>1. SUFFICES ASSUME ~ crossed'[t]
                 PROVE  Counted(t)' + Cardinality(Open(t)') <= Owed(t)'
    BY <1>6 DEF Balance
  <2>2. Counted(t) + Cardinality(Open(t)) <= Owed(t)
    BY <1>6, <2>1 DEF Balance
  <2>3. CASE Open(t)' \subseteq Open(t) /\ Counted(t)' = Counted(t) /\ Owed(t)' = Owed(t)
    <3>1. Cardinality(Open(t)') \in Nat /\ Cardinality(Open(t)') <= Cardinality(Open(t))
      BY <1>2, <2>3, Fewer
    <3> QED BY <1>2, <1>5, <2>2, <2>3, <3>1
  <2>4. CASE /\ \E n : Open(t)' \subseteq Open(t) \cup {n}
             /\ Counted(t)' = Counted(t) /\ Owed(t)' = Owed(t) + 1
    <3>1. Cardinality(Open(t)') \in Nat /\ Cardinality(Open(t)') <= Cardinality(Open(t)) + 1
      BY <1>2, <2>4, Fewer
    <3> QED BY <1>2, <1>5, <2>2, <2>4, <3>1
  <2>5. CASE /\ \E n \in Open(t) : Open(t)' \subseteq Open(t) \ {n}
             /\ \/ Counted(t)' = Counted(t) /\ Owed(t)' = Owed(t) - 1
                \/ Counted(t)' = Counted(t) + 1 /\ Owed(t)' = Owed(t)
    <3>1. Cardinality(Open(t)') \in Nat /\ Cardinality(Open(t)') + 1 <= Cardinality(Open(t))
      BY <1>2, <2>5, Fewer
    <3> QED BY <1>2, <1>5, <2>2, <2>5, <3>1
  <2> QED BY <1>6, <2>1, <2>3, <2>4, <2>5
<1>7. ASSUME PingsKept(t),
             \A c \in Callers : At(t, c)' = "send" => At(t, c) = "send" /\ Its(t, c)' = Its(t, c)
      PROVE  Open(t)' \subseteq Open(t)
  <2>1. Pending(t)' = Pending(t) /\ answered'[t] = answered[t]
    BY <1>7 DEF PingsKept, Pending
  <2>2. Sending(t)' \subseteq Sending(t)
    BY <1>3, <1>4, <1>7
  <2> QED BY <2>1, <2>2 DEF Open
<1>8. ASSUME CallKept(t)
      PROVE  /\ \A c \in Callers : At(t, c)' = At(t, c) /\ Its(t, c)' = Its(t, c)
             /\ At(t, "ui")' = At(t, "ui")
             /\ Sending(t)' = Sending(t)
  <2>1. \A c \in Callers : At(t, c)' = At(t, c) /\ Its(t, c)' = Its(t, c)
    BY <1>8 DEF CallKept, At, Its
  <2>2. At(t, "ui")' = At(t, "ui")
    BY <1>8 DEF CallKept, At
  <2> QED BY <1>3, <1>4, <2>1, <2>2
<1> HIDE DEF At, Its, Sending
<1>9. ASSUME NEW c \in Callers, BeginPing(t, c) PROVE Balance(t)'
  <2>1. /\ c = "agent" => t \in Studios
        /\ sent'[t] = IF t \in Studios THEN sent[t] + 1 ELSE sent[t]
        /\ received'[t] = received[t] /\ (counting'[t] <=> counting[t])
        /\ answered'[t] = answered[t] /\ CrossedKept(t)
    BY <1>9, CallerEffects
  <2>9. Begins(t, c)
    BY <1>9, CallerEffects
  <2>11. call[t][c] = Idle
    BY <1>9 DEF BeginPing
  <2>10. \A n \in Numbers : pending'[t][n] =
           IF n = seq'[t] THEN 0
           ELSE IF t \in Studios /\ n \in Expired(t) THEN Absent ELSE pending[t][n]
    BY <1>9, CallerEffects
  <2>2. /\ At(t, c) = "idle" /\ At(t, c)' = "send" /\ Its(t, c)' = seq'[t]
        /\ \A d \in Callers \ {c} : At(t, d)' = At(t, d) /\ Its(t, d)' = Its(t, d)
    BY <2>9, <2>11 DEF Begins, At, Its, Idle
  <2>3. Pending(t)' \subseteq Pending(t) \cup {seq'[t]}
    BY <2>10 DEF Pending
  <2>4. Sending(t)' \subseteq Sending(t) \cup {seq'[t]}
    BY <1>3, <1>4, <2>2
  <2>5. Open(t)' \subseteq Open(t) \cup {seq'[t]}
    BY <2>1, <2>3, <2>4 DEF Open
  <2>6. /\ At(t, "ui") \notin {"reset sent", "reset answered"}
        /\ At(t, "ui")' \notin {"reset sent", "reset answered"}
        /\ t \notin Studios => At(t, "ui") = "idle" /\ At(t, "ui")' = "send"
    BY <1>1, <2>1, <2>2
  <2>7. Counted(t)' = Counted(t) /\ Owed(t)' = Owed(t) + 1
    <3>1. Counted(t)' = Counted(t)
      BY <2>1 DEF Counted
    <3>2. CASE t \in Studios
      <4>1. sent'[t] = sent[t] + 1 /\ sent[t] \in Nat /\ t \notin Viewers
        BY <1>1, <2>1, <3>2
      <4>2. Owed(t) = sent[t] /\ Owed(t)' = sent'[t]
        BY <4>1 DEF Owed
      <4> QED BY <3>1, <4>1, <4>2
    <3>3. CASE t \notin Studios
      <4>1. /\ sent'[t] = sent[t] /\ sent[t] \in Nat /\ t \in Viewers
            /\ At(t, "ui") = "idle" /\ At(t, "ui")' = "send"
        BY <1>1, <2>1, <2>6, <3>3
      <4>2. Owed(t) = sent[t] /\ Owed(t)' = sent'[t] + 1
        BY <4>1 DEF Owed
      <4> QED BY <3>1, <4>1, <4>2
    <3> QED BY <3>1, <3>2, <3>3
  <2>8. ~ crossed'[t] => ~ crossed[t]
    BY <2>1 DEF CrossedKept
  <2> QED BY <1>6, <2>5, <2>6, <2>7, <2>8
<1>10. ASSUME NEW c \in Callers, SendPing(t, c) PROVE Balance(t)'
  <2>1. /\ At(t, c) = "send" /\ Goes(t, c, AfterSend(t, c))
        /\ FiguresKept(t) /\ PingsKept(t) /\ CrossedKept(t)
    <3>1. At(t, c) = "send"
      BY <1>10 DEF SendPing
    <3>2. Goes(t, c, AfterSend(t, c))
      BY <1>10, CallerEffects
    <3>3. FiguresKept(t) /\ PingsKept(t) /\ CrossedKept(t)
      BY <1>10, CallerEffects
    <3> QED BY <3>1, <3>2, <3>3
  <2>2. /\ At(t, c)' = AfterSend(t, c)
        /\ \A d \in Callers \ {c} : At(t, d)' = At(t, d) /\ Its(t, d)' = Its(t, d)
    BY <2>1, GoesTo
  <2>3. AfterSend(t, c) \in {"count", "wait", "idle"}
        /\ (t \in Viewers => AfterSend(t, c) = "count")
    BY DEF AfterSend
  <2>4. Open(t)' \subseteq Open(t)
    BY <1>7, <2>1, <2>2, <2>3
  <2>5. /\ At(t, "ui") \notin {"reset sent", "reset answered"}
        /\ At(t, "ui")' \notin {"reset sent", "reset answered"}
        /\ t \in Viewers => At(t, "ui") = "send" /\ At(t, "ui")' = "count"
    BY <1>1, <2>1, <2>2, <2>3
  <2>6. Counted(t)' = Counted(t) /\ Owed(t)' = Owed(t)
    BY <2>1, <2>5 DEF Counted, Owed, FiguresKept
  <2>7. ~ crossed'[t] => ~ crossed[t]
    BY <2>1 DEF CrossedKept
  <2> QED BY <1>6, <2>4, <2>5, <2>6, <2>7
<1>11. ASSUME NEW c \in Callers, SendFails(t, c) PROVE Balance(t)'
  <2>1. /\ At(t, c) = "send" /\ Goes(t, c, "idle") /\ Drops(t, {Its(t, c)})
        /\ sent'[t] = IF t \in Studios /\ sent[t] > 0 THEN sent[t] - 1 ELSE sent[t]
        /\ received'[t] = received[t] /\ (counting'[t] <=> counting[t])
        /\ crossed'[t] <=> crossed[t] \/ Its(t, c) \in answered[t]
    BY <1>11, CallerEffects
  <2>2. /\ At(t, c)' = "idle"
        /\ \A d \in Callers \ {c} : At(t, d)' = At(t, d) /\ Its(t, d)' = Its(t, d)
    BY <2>1, GoesTo
  <2>3. Pending(t)' = Pending(t) \ {Its(t, c)} /\ answered'[t] = answered[t]
    BY <2>1, DropsLess DEF Drops
  <2>4. Sending(t)' \subseteq Sending(t) \ {Its(t, c)}
    <3>1. \A d \in Callers \ {c} : At(t, d) = "send" => Its(t, d) # Its(t, c)
      BY <1>1, <2>1
    <3> QED BY <1>3, <1>4, <2>2, <3>1
  <2>5. Its(t, c) \in Sending(t)
    BY <1>3, <2>1
  <2>6. ~ crossed'[t] => Its(t, c) \in Open(t) /\ Open(t)' \subseteq Open(t) \ {Its(t, c)}
    BY <2>1, <2>3, <2>4, <2>5 DEF Open
  <2>7. /\ At(t, "ui") \notin {"reset sent", "reset answered"}
        /\ At(t, "ui")' \notin {"reset sent", "reset answered"}
        /\ t \in Viewers => At(t, "ui") = "send" /\ At(t, "ui")' = "idle"
    BY <1>1, <2>1, <2>2
  <2>8. Counted(t)' = Counted(t)
    BY <2>1 DEF Counted
  <2>9. ~ crossed'[t] => ~ crossed[t]
    BY <2>1
  <2>10. SUFFICES ASSUME ~ crossed'[t] PROVE Balance(t)'
    BY DEF Balance
  <2>11. CASE t \in Studios
    <3>1. Counted(t) + Cardinality(Open(t)) <= Owed(t)
      BY <2>7, <2>9, <2>10 DEF Balance
    <3>2. 0 < Cardinality(Open(t))
      <4>1. {} \subseteq Open(t) \ {Its(t, c)}
        OBVIOUS
      <4> QED BY <1>2, <2>6, <2>10, <4>1, Fewer
    <3>3. Owed(t) = sent[t] /\ Owed(t)' = sent'[t]
      BY <1>1, <2>1, <2>11 DEF Owed
    <3>4. Owed(t)' = Owed(t) - 1
      BY <1>1, <1>2, <1>5, <2>1, <2>11, <3>1, <3>2, <3>3
    <3> QED BY <1>6, <2>6, <2>7, <2>8, <2>9, <3>4
  <2>12. CASE t \notin Studios
    <3>1. Owed(t)' = Owed(t) - 1
      <4>1. /\ sent'[t] = sent[t] /\ sent[t] \in Nat /\ t \in Viewers
            /\ At(t, "ui") = "send" /\ At(t, "ui")' = "idle"
        BY <1>1, <2>1, <2>7, <2>12
      <4>2. Owed(t) = sent[t] + 1 /\ Owed(t)' = sent'[t]
        BY <4>1 DEF Owed
      <4> QED BY <4>1, <4>2
    <3> QED BY <1>6, <2>6, <2>7, <2>8, <2>9, <3>1
  <2> QED BY <2>11, <2>12
<1>12. ASSUME CountSent(t) PROVE Balance(t)'
  <2>1. /\ At(t, "ui") = "count" /\ Goes(t, "ui", "idle")
        /\ sent'[t] = sent[t] + 1 /\ received'[t] = received[t] /\ (counting'[t] <=> counting[t])
        /\ PingsKept(t) /\ CrossedKept(t)
    BY <1>12, WaitEffects
  <2>2. /\ At(t, "ui")' = "idle"
        /\ \A d \in Callers \ {"ui"} : At(t, d)' = At(t, d) /\ Its(t, d)' = Its(t, d)
    BY <1>1, <2>1, GoesTo
  <2>3. Open(t)' \subseteq Open(t)
    BY <1>7, <2>1, <2>2
  <2>4. Counted(t)' = Counted(t)
    BY <2>1 DEF Counted
  <2>5. Owed(t)' = Owed(t)
    BY <1>1, <2>1, <2>2 DEF Owed
  <2>6. ~ crossed'[t] => ~ crossed[t]
    BY <2>1 DEF CrossedKept
  <2> QED BY <1>6, <2>1, <2>2, <2>3, <2>4, <2>5, <2>6
<1>13. ASSUME PingGone(t) \/ PingReturns(t) PROVE Balance(t)'
  <2>1. /\ At(t, "agent") \in {"wait", "told"}
        /\ \E where \in {"told", "idle"} : Goes(t, "agent", where)
        /\ FiguresKept(t) /\ PingsKept(t) /\ CrossedKept(t)
    BY <1>13, WaitEffects
  <2>2. t \in Studios /\ t \notin Viewers
    BY <1>1, <2>1
  <2>3. /\ At(t, "agent")' \in {"told", "idle"}
        /\ \A d \in Callers \ {"agent"} : At(t, d)' = At(t, d) /\ Its(t, d)' = Its(t, d)
    BY <1>1, <2>1, GoesTo
  <2>4. Open(t)' \subseteq Open(t)
    BY <1>7, <2>1, <2>3
  <2>5. Counted(t)' = Counted(t) /\ Owed(t)' = Owed(t)
    BY <2>1, <2>2 DEF Counted, Owed, FiguresKept
  <2>6. At(t, "ui")' = At(t, "ui") /\ At(t, "ui") \notin {"reset sent", "reset answered"}
    BY <1>1, <2>2, <2>3
  <2>7. ~ crossed'[t] => ~ crossed[t]
    BY <2>1 DEF CrossedKept
  <2> QED BY <1>6, <2>4, <2>5, <2>6, <2>7
<1>14. ASSUME CountAnswer(t) PROVE Balance(t)'
  <2>1. /\ counting[t] /\ ~ counting'[t] /\ received'[t] = received[t] + 1 /\ sent'[t] = sent[t]
        /\ CallKept(t) /\ PingsKept(t) /\ CrossedKept(t)
    BY <1>14, WaitEffects
  <2>2. /\ \A c \in Callers : At(t, c)' = At(t, c) /\ Its(t, c)' = Its(t, c)
        /\ At(t, "ui")' = At(t, "ui")
    BY <1>8, <2>1
  <2>3. Open(t)' \subseteq Open(t)
    BY <1>7, <2>1, <2>2
  <2>4. Counted(t)' = Counted(t)
    BY <1>1, <2>1 DEF Counted
  <2>5. Owed(t)' = Owed(t)
    BY <2>1, <2>2 DEF Owed
  <2>6. ~ crossed'[t] => ~ crossed[t] /\ At(t, "ui") \notin {"reset sent", "reset answered"}
    BY <2>1 DEF CrossedKept, Balance
  <2>7. CASE crossed'[t]
    BY <2>7 DEF Balance
  <2> QED BY <1>6, <2>2, <2>3, <2>4, <2>5, <2>6, <2>7
<1>15. ASSUME Refresh(t) \/ DropStale(t) PROVE Balance(t)'
  <2>1. Drops(t, Expired(t)) /\ CallKept(t) /\ FiguresKept(t) /\ CrossedKept(t)
    BY <1>15, WaitEffects
  <2>2. Pending(t)' \subseteq Pending(t) /\ answered'[t] = answered[t]
    BY <2>1, DropsLess DEF Drops
  <2>3. At(t, "ui")' = At(t, "ui") /\ Sending(t)' = Sending(t)
    BY <1>8, <2>1
  <2>4. Open(t)' \subseteq Open(t)
    BY <2>2, <2>3 DEF Open
  <2>5. Counted(t)' = Counted(t) /\ Owed(t)' = Owed(t)
    BY <2>1, <2>3 DEF Counted, Owed, FiguresKept
  <2>6. ~ crossed'[t] => ~ crossed[t]
    BY <2>1 DEF CrossedKept
  <2>7. CASE At(t, "ui") \in {"reset sent", "reset answered"}
    BY <2>1, <2>2, <2>3, <2>6, <2>7 DEF Balance, FiguresKept
  <2> QED BY <1>6, <2>3, <2>4, <2>5, <2>6, <2>7
\* Nothing is open and nothing counted.
<1>16. ASSUME Pending(t)' = {}, Sending(t)' = {}, ~ counting'[t], received'[t] = 0, sent'[t] = 0,
              At(t, "ui")' = "idle"
       PROVE  Balance(t)'
  <2>1. Open(t)' = {}
    BY <1>16 DEF Open
  <2>2. Cardinality(Open(t)') = 0
    BY <2>1, FS_EmptySet
  <2>3. Counted(t)' = 0 /\ Owed(t)' = 0
    BY <1>16 DEF Counted, Owed
  <2>4. Counted(t)' + Cardinality(Open(t)') <= Owed(t)'
    BY <2>2, <2>3
  <2> QED BY <1>16, <2>4 DEF Balance
<1>17. ASSUME Reset(t) PROVE Balance(t)'
  <2>1. /\ call[t]["ui"] = Idle /\ Drops(t, Numbers)
        /\ counting'[t] <=> counting[t]
        /\ crossed'[t] <=> crossed[t] \/ Busy(t)
        /\ t \in Studios => CallKept(t) /\ sent'[t] = 0 /\ received'[t] = 0
        /\ t \notin Studios => Goes(t, "ui", "reset sent")
    BY <1>17, WaitEffects
  <2>2. Pending(t)' = {}
    BY <2>1, DropsLess DEF Pending
  <2>3. CASE crossed'[t]
    BY <2>3 DEF Balance
  <2>4. ASSUME ~ crossed'[t]
        PROVE  ~ counting'[t] /\ \A c \in Callers : At(t, c) \notin {"send", "count"}
    BY <2>1, <2>4 DEF Busy
  <2>5. CASE ~ crossed'[t] /\ t \in Studios
    <3>1. Sending(t)' = {} /\ At(t, "ui")' = "idle"
      <4>1. Sending(t) = {}
        BY <1>3, <2>4, <2>5
      <4>2. At(t, "ui") = "idle"
        <5>1. call[t]["ui"] = Idle
          BY <1>17 DEF Reset
        <5> QED BY <5>1 DEF At, Idle
      <4> QED BY <1>8, <2>1, <2>5, <4>1, <4>2
    <3> QED BY <1>16, <2>1, <2>2, <2>4, <2>5, <3>1
  <2>6. CASE ~ crossed'[t] /\ t \notin Studios
    <3>1. At(t, "ui")' = "reset sent"
      BY <1>1, <2>1, <2>6, GoesTo
    <3> QED BY <2>2, <2>4, <2>6, <3>1 DEF Balance
  <2> QED BY <2>3, <2>5, <2>6
<1>18. ASSUME ResetSent(t) PROVE Balance(t)'
  <2>1. /\ At(t, "ui") = "reset sent" /\ Goes(t, "ui", "reset answered")
        /\ sent'[t] = 0 /\ (counting'[t] <=> counting[t]) /\ PingsKept(t) /\ CrossedKept(t)
    BY <1>18, WaitEffects
  <2>2. At(t, "ui")' = "reset answered"
    BY <1>1, <2>1, GoesTo
  <2>3. Pending(t)' = Pending(t)
    BY <2>1 DEF PingsKept, Pending
  <2> QED BY <2>1, <2>2, <2>3 DEF Balance, CrossedKept
<1>19. ASSUME ResetAnswered(t) PROVE Balance(t)'
  <2>1. /\ At(t, "ui") = "reset answered" /\ Goes(t, "ui", "idle")
        /\ received'[t] = 0 /\ sent'[t] = sent[t] /\ (counting'[t] <=> counting[t])
        /\ PingsKept(t) /\ CrossedKept(t)
    BY <1>19, WaitEffects
  <2>2. /\ At(t, "ui")' = "idle"
        /\ \A d \in Callers \ {"ui"} : At(t, d)' = At(t, d) /\ Its(t, d)' = Its(t, d)
    BY <1>1, <2>1, GoesTo
  <2>3. At(t, "agent") = "idle"
    BY <1>1, <2>1
  <2>4. Sending(t)' = {}
    BY <1>1, <1>4, <2>2, <2>3
  <2>5. Pending(t)' = Pending(t)
    BY <2>1 DEF PingsKept, Pending
  <2>6. CASE crossed'[t]
    BY <2>6 DEF Balance
  <2>7. CASE ~ crossed'[t]
    <3>1. Pending(t) = {} /\ ~ counting[t] /\ sent[t] = 0
      BY <2>1, <2>7 DEF Balance, CrossedKept
    <3> QED BY <1>16, <2>1, <2>2, <2>4, <2>5, <3>1
  <2> QED BY <2>6, <2>7
<1>20. ASSUME NEW m \in wire, ~ counting[t], TakesAnswer(t, m.n) PROVE Balance(t)'
  <2>1. /\ m.n \in Pending(t)
        /\ Pending(t)' = Pending(t) \ {m.n}
        /\ answered'[t] = answered[t] \cup {m.n} /\ sent'[t] = sent[t]
        /\ IF t \in Studios THEN received'[t] = received[t] + 1 /\ (counting'[t] <=> counting[t])
                            ELSE received'[t] = received[t] /\ counting'[t]
        /\ CallKept(t) /\ CrossedKept(t)
    BY <1>20 DEF TakesAnswer, Pending
  <2>2. At(t, "ui")' = At(t, "ui") /\ Sending(t)' = Sending(t)
    BY <1>8, <2>1
  <2>3. m.n \in Open(t) /\ Open(t)' \subseteq Open(t) \ {m.n}
    BY <2>1, <2>2 DEF Open, NumberInv
  <2>4. Counted(t)' = Counted(t) + 1
    <3>1. CASE t \in Studios
      BY <1>1, <1>20, <2>1, <3>1 DEF Counted
    <3>2. CASE t \notin Studios
      BY <1>1, <1>20, <2>1, <3>2 DEF Counted
    <3> QED BY <3>1, <3>2
  <2>5. Owed(t)' = Owed(t)
    BY <2>1, <2>2 DEF Owed
  <2>6. ~ crossed'[t] => ~ crossed[t] /\ At(t, "ui") \notin {"reset sent", "reset answered"}
    BY <2>1 DEF CrossedKept, Balance
  <2>7. CASE crossed'[t]
    BY <2>7 DEF Balance
  <2> QED BY <1>6, <2>2, <2>3, <2>4, <2>5, <2>6, <2>7
<1>21. ASSUME Receive(t) PROVE Balance(t)'
  <2>1. PICK m \in wire : ~ counting[t] /\ (OnPing(t, m) \/ OnPong(t, m))
    BY <1>21 DEF Receive
  <2>2. Kept(t) \/ TakesAnswer(t, m.n)
    BY <2>1, ReceiveEffects
  <2> QED BY <1>20, <2>1, <2>2, KeptStays
<1> QED
  BY <1>9, <1>10, <1>11, <1>12, <1>13, <1>14, <1>15, <1>17, <1>18, <1>19, <1>21 DEF Acts
-----------------------------------------------------------------------------
\* What an agent was told stays true: a ping of its own is pending, answered or
\* overdue, whatever its studio does.
LEMMA AgentStep ==
  ASSUME PingTypes, NEW t \in Tools, CallInv(t), NumberInv(t), AgentInv(t), Acts(t)
  PROVE  AgentInv(t)'
<1> SUFFICES ASSUME t \in Studios PROVE AgentInv(t)'
  BY DEF AgentInv
<1>1. /\ Callers = {"ui", "agent"}
      /\ At(t, "agent") \in {"send", "wait", "told"} =>
           Its(t, "agent") \in Numbers /\ Its(t, "agent") <= seq[t]
      /\ At(t, "ui") = "send" /\ At(t, "agent") \in {"send", "wait", "told"}
           => Its(t, "ui") # Its(t, "agent")
      /\ At(t, "ui") \in {"idle", "send"}
  BY DEF CallInv, Callers
<1>2. /\ waited[t] \in Nat /\ seq[t] \in Nat /\ PingTimeout \in Nat
      /\ \A n \in Numbers : pending[t][n] \in Nat /\ n \in Nat
  BY BoundsAssumption DEF PingTypes, Numbers
<1>3. \A n : n \in Pending(t) <=> n \in Numbers /\ pending[t][n] # Absent
  BY DEF Pending
<1>4. \A n : n \in Pending(t)' <=> n \in Numbers /\ pending'[t][n] # Absent
  BY DEF Pending
<1>5. \A n \in Expired(t) : n \in Pending(t) /\ pending[t][n] > PingTimeout
  BY <1>2, <1>3 DEF Expired, Old
<1> HIDE DEF At, Its, Pending, Expired
<1>6. ASSUME At(t, "agent")' = "idle" PROVE AgentInv(t)'
  BY <1>6 DEF AgentInv
\* An agent's ping goes from the map only when it is answered or overdue.
<1>7. ASSUME At(t, "agent")' \in {"send", "wait", "told"} => Its(t, "agent")' = Its(t, "agent"),
             At(t, "agent")' \in {"send", "wait"} => At(t, "agent") \in {"send", "wait"},
             At(t, "agent")' = "told" => At(t, "agent") = "told",
             AgentKept(t), answered[t] \subseteq answered'[t],
             ASSUME NEW n \in Numbers, n <= seq[t], n = Its(t, "agent")
             PROVE  /\ n \in Pending(t)' => n \in Pending(t) /\ pending'[t][n] = pending[t][n]
                    /\ n \in Pending(t) /\ n \notin Pending(t)' =>
                         n \in answered'[t] \/ pending[t][n] > PingTimeout
      PROVE  AgentInv(t)'
  <2>1. SUFFICES ASSUME ~ wiped'[t], Its(t, "agent")' \notin answered'[t]
                 PROVE  /\ At(t, "agent")' \in {"send", "wait"} /\ Its(t, "agent")' \in Pending(t)'
                             => pending'[t][Its(t, "agent")'] <= waited'[t]
                        /\ At(t, "agent")' \in {"send", "wait"}
                           /\ Its(t, "agent")' \notin Pending(t)'
                             => waited'[t] > PingTimeout
                        /\ At(t, "agent")' = "told" => waited'[t] > PingTimeout
    BY DEF AgentInv
  <2>2. waited'[t] = waited[t] /\ ~ wiped[t]
    BY <1>7, <2>1 DEF AgentKept
  <2>3. CASE At(t, "agent")' \in {"send", "wait", "told"}
    <3>1. /\ Its(t, "agent")' = Its(t, "agent") /\ At(t, "agent") \in {"send", "wait", "told"}
          /\ Its(t, "agent") \notin answered[t]
      BY <1>7, <2>1, <2>3
    <3>2. Its(t, "agent") \in Numbers /\ Its(t, "agent") <= seq[t]
      BY <1>1, <3>1
    <3>3. PICK n \in Numbers : n = Its(t, "agent")
      BY <3>2
    <3>4. /\ n \in Pending(t)' => n \in Pending(t) /\ pending'[t][n] = pending[t][n]
          /\ n \in Pending(t) /\ n \notin Pending(t)' => pending[t][n] > PingTimeout
      BY <1>7, <2>1, <3>1, <3>2, <3>3
    <3>5. /\ At(t, "agent") \in {"send", "wait"} /\ n \in Pending(t) => pending[t][n] <= waited[t]
          /\ At(t, "agent") \in {"send", "wait"} /\ n \notin Pending(t) => waited[t] > PingTimeout
          /\ At(t, "agent") = "told" => waited[t] > PingTimeout
      BY <2>2, <3>1, <3>3 DEF AgentInv
    <3>6. CASE At(t, "agent")' = "told"
      BY <1>7, <2>2, <3>5, <3>6
    <3>7. CASE At(t, "agent")' \in {"send", "wait"}
      <4>1. At(t, "agent") \in {"send", "wait"}
        BY <1>7, <3>7
      <4>2. n \in Pending(t)' => pending'[t][n] <= waited'[t]
        BY <2>2, <3>4, <3>5, <4>1
      <4>3. n \notin Pending(t)' => waited'[t] > PingTimeout
        BY <1>2, <2>2, <3>4, <3>5, <4>1
      <4> QED BY <3>1, <3>3, <3>7, <4>2, <4>3
    <3> QED BY <2>3, <3>6, <3>7
  <2>4. CASE At(t, "agent")' \notin {"send", "wait", "told"}
    BY <2>4
  <2> QED BY <2>3, <2>4
<1>8. ASSUME AgentKept(t), PingsKept(t),
             At(t, "agent")' \in {"send", "wait", "told"} => Its(t, "agent")' = Its(t, "agent"),
             At(t, "agent")' \in {"send", "wait"} => At(t, "agent") \in {"send", "wait"},
             At(t, "agent")' = "told" => At(t, "agent") = "told"
      PROVE  AgentInv(t)'
  <2>1. answered'[t] = answered[t] /\ pending'[t] = pending[t]
    BY <1>8 DEF PingsKept
  <2>2. \A n : n \in Pending(t)' <=> n \in Pending(t)
    BY <1>3, <1>4, <2>1
  <2> QED BY <1>7, <1>8, <2>1, <2>2
<1>9. ASSUME CallKept(t) \/ \E where : Goes(t, "ui", where)
      PROVE  At(t, "agent")' = At(t, "agent") /\ Its(t, "agent")' = Its(t, "agent")
  <2>1. CASE CallKept(t)
    BY <2>1 DEF CallKept, At, Its
  <2>2. CASE \E where : Goes(t, "ui", where)
    BY <1>1, <2>2, GoesTo
  <2> QED BY <1>9, <2>1, <2>2
<1>10. ASSUME BeginPing(t, "ui") PROVE AgentInv(t)'
  <2>1. Begins(t, "ui")
    BY <1>1, <1>10, CallerEffects
  <2>2. seq'[t] = seq[t] + 1 /\ answered'[t] = answered[t] /\ AgentKept(t)
    BY <1>1, <1>10, CallerEffects
  <2>3. \A n \in Numbers : pending'[t][n] =
          IF n = seq'[t] THEN 0
          ELSE IF t \in Studios /\ n \in Expired(t) THEN Absent ELSE pending[t][n]
    BY <1>1, <1>10, CallerEffects
  <2>4. At(t, "agent")' = At(t, "agent") /\ Its(t, "agent")' = Its(t, "agent")
    BY <1>1, <2>1 DEF Begins, At, Its
  <2>5. ASSUME NEW n \in Numbers, n <= seq[t]
        PROVE  /\ n \in Pending(t)' => n \in Pending(t) /\ pending'[t][n] = pending[t][n]
               /\ n \in Pending(t) /\ n \notin Pending(t)' => pending[t][n] > PingTimeout
    <3>1. n # seq'[t]
      BY <1>2, <2>2, <2>5
    <3>2. pending'[t][n] = IF n \in Expired(t) THEN Absent ELSE pending[t][n]
      BY <2>3, <3>1
    <3> QED BY <1>3, <1>4, <1>5, <3>2
  <2> QED BY <1>7, <2>2, <2>4, <2>5
<1>11. ASSUME BeginPing(t, "agent") PROVE AgentInv(t)'
  <2>1. Begins(t, "agent")
    BY <1>1, <1>11, CallerEffects
  <2>2. seq'[t] \in Numbers /\ AgentKept(t)
    BY <1>1, <1>11, CallerEffects
  <2>3. \A n \in Numbers : pending'[t][n] =
          IF n = seq'[t] THEN 0
          ELSE IF t \in Studios /\ n \in Expired(t) THEN Absent ELSE pending[t][n]
    BY <1>1, <1>11, CallerEffects
  <2>4. At(t, "agent")' = "send" /\ Its(t, "agent")' = seq'[t]
    BY <2>1 DEF Begins, At, Its
  <2>5. pending'[t][seq'[t]] = 0
    BY <2>2, <2>3
  <2>6. 0 # Absent /\ 0 <= waited[t] /\ waited'[t] = waited[t]
    BY <1>2, <2>2 DEF Absent, AgentKept
  <2>7. seq'[t] \in Pending(t)' /\ pending'[t][seq'[t]] <= waited'[t]
    BY <1>4, <2>2, <2>5, <2>6
  <2> QED BY <2>4, <2>7 DEF AgentInv
<1>12. ASSUME SendPing(t, "ui") PROVE AgentInv(t)'
  <2>1. Goes(t, "ui", AfterSend(t, "ui"))
    BY <1>1, <1>12, CallerEffects
  <2>2. PingsKept(t) /\ AgentKept(t)
    BY <1>1, <1>12, CallerEffects
  <2> QED BY <1>8, <1>9, <2>1, <2>2
<1>13. ASSUME SendPing(t, "agent") PROVE AgentInv(t)'
  <2>1. Goes(t, "agent", AfterSend(t, "agent"))
    BY <1>1, <1>13, CallerEffects
  <2>2. PingsKept(t) /\ AgentKept(t)
    BY <1>1, <1>13, CallerEffects
  <2>3. At(t, "agent") = "send"
    BY <1>13 DEF SendPing
  <2>4. AfterSend(t, "agent") = "wait"
    BY ToolsAssumption DEF AfterSend
  <2>5. At(t, "agent")' = "wait" /\ Its(t, "agent")' = Its(t, "agent")
    BY <1>1, <2>1, <2>4, GoesTo
  <2> QED BY <1>8, <2>2, <2>3, <2>5
<1>14. ASSUME SendFails(t, "ui") PROVE AgentInv(t)'
  <2>1. Goes(t, "ui", "idle") /\ Drops(t, {Its(t, "ui")})
    BY <1>1, <1>14, CallerEffects
  <2>2. AgentKept(t)
    BY <1>1, <1>14, CallerEffects
  <2>3. At(t, "ui") = "send"
    BY <1>14 DEF SendFails
  <2>4. At(t, "agent")' = At(t, "agent") /\ Its(t, "agent")' = Its(t, "agent")
    BY <1>9, <2>1
  <2>5. answered'[t] = answered[t]
        /\ \A n \in Numbers : n # Its(t, "ui") => pending'[t][n] = pending[t][n]
    BY <2>1 DEF Drops
  <2>6. CASE At(t, "agent") \in {"send", "wait", "told"}
    <3>1. Its(t, "ui") # Its(t, "agent")
      BY <1>1, <2>3, <2>6
    <3> QED BY <1>3, <1>4, <1>7, <2>2, <2>4, <2>5, <3>1
  <2>7. CASE At(t, "agent") \notin {"send", "wait", "told"}
    BY <2>4, <2>7 DEF AgentInv
  <2> QED BY <2>6, <2>7
<1>15. ASSUME SendFails(t, "agent") \/ PingReturns(t) PROVE AgentInv(t)'
  <2>1. Goes(t, "agent", "idle")
    BY <1>1, <1>15, CallerEffects, WaitEffects
  <2> QED BY <1>1, <1>6, <2>1, GoesTo
<1>16. ASSUME PingGone(t) PROVE AgentInv(t)'
  <2>1. Goes(t, "agent", "told")
    BY <1>16, WaitEffects
  <2>2. PingsKept(t) /\ AgentKept(t)
    BY <1>16, WaitEffects
  <2>3. At(t, "agent") = "wait" /\ Its(t, "agent") \notin Pending(t)
    BY <1>16 DEF PingGone
  <2>4. At(t, "agent")' = "told" /\ Its(t, "agent")' = Its(t, "agent")
    BY <1>1, <2>1, GoesTo
  <2>5. answered'[t] = answered[t] /\ waited'[t] = waited[t] /\ (wiped'[t] <=> wiped[t])
    BY <2>2 DEF PingsKept, AgentKept
  <2> QED BY <2>3, <2>4, <2>5 DEF AgentInv
<1>17. ASSUME CountSent(t) \/ CountAnswer(t) \/ ResetSent(t) \/ ResetAnswered(t)
       PROVE  AgentInv(t)'
  <2>1. CallKept(t) \/ \E where : Goes(t, "ui", where)
    BY <1>17, WaitEffects
  <2>2. PingsKept(t) /\ AgentKept(t)
    BY <1>17, WaitEffects
  <2> QED BY <1>8, <1>9, <2>1, <2>2
<1>18. ASSUME Refresh(t) \/ DropStale(t) PROVE AgentInv(t)'
  <2>1. Drops(t, Expired(t)) /\ CallKept(t) /\ AgentKept(t)
    BY <1>18, WaitEffects
  <2>2. answered'[t] = answered[t] /\ \A n \in Numbers :
          pending'[t][n] = IF n \in Expired(t) THEN Absent ELSE pending[t][n]
    BY <2>1 DEF Drops
  <2>3. ASSUME NEW n \in Numbers
        PROVE  /\ n \in Pending(t)' => n \in Pending(t) /\ pending'[t][n] = pending[t][n]
               /\ n \in Pending(t) /\ n \notin Pending(t)' => pending[t][n] > PingTimeout
    BY <1>3, <1>4, <1>5, <2>2
  <2> QED BY <1>7, <1>9, <2>1, <2>2, <2>3
<1>19. ASSUME Reset(t) PROVE AgentInv(t)'
  <2>1. CallKept(t)
    BY <1>19, WaitEffects
  <2>2. wiped'[t] <=> call[t]["agent"] # Idle
    BY <1>19, WaitEffects
  <2>3. CASE wiped'[t]
    BY <2>3 DEF AgentInv
  <2>4. CASE ~ wiped'[t]
    <3>1. call'[t]["agent"] = Idle
      BY <2>1, <2>2, <2>4 DEF CallKept
    <3>2. At(t, "agent")' = "idle"
      BY <3>1 DEF At, Idle
    <3> QED BY <1>6, <3>2
  <2> QED BY <2>3, <2>4
<1>20. ASSUME NEW n \in Numbers, TakesAnswer(t, n) PROVE AgentInv(t)'
  <2>1. /\ answered'[t] = answered[t] \cup {n}
        /\ \A k \in Numbers : pending'[t][k] = IF k = n THEN Absent ELSE pending[t][k]
        /\ CallKept(t) /\ AgentKept(t)
    BY <1>20 DEF TakesAnswer
  <2>2. ASSUME NEW k \in Numbers
        PROVE  /\ k \in Pending(t)' => k \in Pending(t) /\ pending'[t][k] = pending[t][k]
               /\ k \in Pending(t) /\ k \notin Pending(t)' => k \in answered'[t]
    BY <1>3, <1>4, <2>1
  <2> QED BY <1>7, <1>9, <2>1, <2>2
<1>21. ASSUME Receive(t) PROVE AgentInv(t)'
  <2>1. PICK m \in wire : OnPing(t, m) \/ OnPong(t, m)
    BY <1>21 DEF Receive
  <2>2. Kept(t) \/ TakesAnswer(t, m.n)
    BY <2>1, ReceiveEffects
  <2>3. m.n \in Numbers
    BY DEF PingTypes
  <2> QED BY <1>20, <2>2, <2>3, KeptStays
<1> QED
  BY <1>1, <1>10, <1>11, <1>12, <1>13, <1>14, <1>15, <1>16, <1>17, <1>18, <1>19, <1>21
  DEF Acts

\* The clock makes pings older, and none of them comes or goes.
LEMMA TickStep ==
  ASSUME PingTypes, NEW t \in Tools, CallInv(t), NumberInv(t), Balance(t), AgentInv(t), Tick
  PROVE  CallInv(t)' /\ NumberInv(t)' /\ Balance(t)' /\ AgentInv(t)' /\ Pending(t)' = Pending(t)
<1>1. /\ \A k \in 0..Absent : Older(k) = Absent <=> k = Absent
      /\ \A j, k \in Nat : j <= k => Older(j) <= Older(k)
      /\ \A k \in Nat : k > PingTimeout => Older(k) > PingTimeout
      /\ PingTimeout \in Nat
  BY BoundsAssumption DEF Older, Old, Absent
<1>2. /\ \A n \in Numbers : pending'[t][n] = Older(pending[t][n])
      /\ waited'[t] = IF At(t, "agent") \in {"send", "wait"} THEN Older(waited[t]) ELSE waited[t]
      /\ UNCHANGED <<seq, sent, received, call, counting, wire, history>>
  BY DEF Tick
<1>3. /\ \A n \in Numbers : pending[t][n] \in 0..Absent /\ pending[t][n] \in Nat
      /\ waited[t] \in Nat
  BY BoundsAssumption DEF PingTypes, Absent
<1> HIDE DEF Older
<1>4. Pending(t)' = Pending(t)
  BY <1>1, <1>2, <1>3 DEF Pending
<1>5. \A c \in Callers : At(t, c)' = At(t, c) /\ Its(t, c)' = Its(t, c)
  BY <1>2 DEF At, Its
<1>6. At(t, "ui")' = At(t, "ui") /\ At(t, "agent")' = At(t, "agent")
      /\ Its(t, "ui")' = Its(t, "ui") /\ Its(t, "agent")' = Its(t, "agent")
  BY <1>5 DEF Callers
<1>7. Sending(t)' = Sending(t)
  BY <1>5 DEF Sending
<1>8. \A n \in Pending(t) : n \in Numbers
  BY DEF Pending
<1>14. UNCHANGED <<answered, wiped, crossed>>
  BY <1>2 DEF history
<1> HIDE DEF At, Its, Pending, Sending
<1>9. Open(t)' = Open(t) /\ Counted(t)' = Counted(t) /\ Owed(t)' = Owed(t)
  BY <1>2, <1>4, <1>6, <1>7, <1>14 DEF Open, Counted, Owed
<1>10. CallInv(t)'
  BY <1>2, <1>5, <1>6 DEF CallInv
<1>11. NumberInv(t)'
  BY <1>2, <1>4, <1>14 DEF NumberInv
<1>12. Balance(t)'
  BY <1>2, <1>4, <1>6, <1>9, <1>14 DEF Balance
<1>13. AgentInv(t)'
  <2>1. SUFFICES ASSUME t \in Studios, ~ wiped[t], Its(t, "agent") \notin answered[t]
                 PROVE  /\ At(t, "agent") \in {"send", "wait"} /\ Its(t, "agent") \in Pending(t)
                             => pending'[t][Its(t, "agent")] <= waited'[t]
                        /\ At(t, "agent") \in {"send", "wait"} /\ Its(t, "agent") \notin Pending(t)
                             => waited'[t] > PingTimeout
                        /\ At(t, "agent") = "told" => waited'[t] > PingTimeout
    BY <1>4, <1>6, <1>14 DEF AgentInv
  <2>2. ASSUME At(t, "agent") \in {"send", "wait"}, Its(t, "agent") \in Pending(t)
        PROVE  pending'[t][Its(t, "agent")] <= waited'[t]
    <3>1. pending[t][Its(t, "agent")] <= waited[t]
      BY <2>1, <2>2 DEF AgentInv
    <3>2. Its(t, "agent") \in Numbers
      BY <1>8, <2>2
    <3> QED BY <1>1, <1>2, <1>3, <2>2, <3>1, <3>2
  <2>3. ASSUME At(t, "agent") \in {"send", "wait"}, Its(t, "agent") \notin Pending(t)
        PROVE  waited'[t] > PingTimeout
    BY <1>1, <1>2, <1>3, <2>1, <2>3 DEF AgentInv
  <2>4. ASSUME At(t, "agent") = "told" PROVE waited'[t] > PingTimeout
    BY <1>2, <2>1, <2>4 DEF AgentInv
  <2> QED BY <2>2, <2>3, <2>4
<1> QED BY <1>4, <1>10, <1>11, <1>12, <1>13
-----------------------------------------------------------------------------
\* Numbers are given in order, so that a ping that is closed stays closed.
Onward(u) ==
  /\ seq'[u] \in Nat /\ seq[u] <= seq'[u]
  /\ \A n \in Numbers : n <= seq[u] /\ n \notin Pending(u) => n \notin Pending(u)'

\* Whoever acts, every tool goes onward.
LEMMA OnwardStep ==
  ASSUME PingTypes, NEW t \in Tools, Acts(t), NEW u \in Tools
  PROVE  Onward(u)
<1>1. seq[u] \in Nat /\ \A n \in Numbers : n \in Nat
  BY BoundsAssumption DEF PingTypes, Numbers
<1>2. ASSUME seq'[u] = seq[u], Pending(u)' \subseteq Pending(u) PROVE Onward(u)
  BY <1>1, <1>2 DEF Onward
<1>3. ASSUME PingsKept(u) PROVE Onward(u)
  BY <1>2, <1>3 DEF PingsKept, Pending
<1>4. CASE u # t
  <2>1. Kept(u)
    BY <1>4, OneActs DEF OthersKept
  <2> QED BY <1>3, <2>1 DEF Kept
<1>5. ASSUME NEW c \in Callers, BeginPing(u, c) PROVE Onward(u)
  <2>1. seq'[u] = seq[u] + 1
    BY <1>5, CallerEffects
  <2>2. \A n \in Numbers : pending'[u][n] =
          IF n = seq'[u] THEN 0
          ELSE IF u \in Studios /\ n \in Expired(u) THEN Absent ELSE pending[u][n]
    BY <1>5, CallerEffects
  <2>3. Pending(u)' \subseteq Pending(u) \cup {seq'[u]}
    BY <2>2 DEF Pending
  <2> QED BY <1>1, <2>1, <2>3 DEF Onward
<1>6. ASSUME NEW N, Drops(u, N) PROVE Onward(u)
  BY <1>2, <1>6, DropsLess DEF Drops
<1>7. ASSUME NEW n \in Numbers, TakesAnswer(u, n) PROVE Onward(u)
  <2>1. seq'[u] = seq[u]
    BY <1>7 DEF TakesAnswer
  <2>2. Pending(u)' \subseteq Pending(u)
    BY <1>7 DEF TakesAnswer, Pending
  <2> QED BY <1>2, <2>1, <2>2
<1>8. CASE u = t
  <2>1. ASSUME NEW c \in Callers, SendPing(u, c) \/ SendFails(u, c) PROVE Onward(u)
    BY <1>3, <1>6, <2>1, CallerEffects
  <2>2. ASSUME NEW m \in wire, OnPing(u, m) \/ OnPong(u, m) PROVE Onward(u)
    <3>1. m.n \in Numbers
      BY DEF PingTypes
    <3>2. Kept(u) \/ TakesAnswer(u, m.n)
      BY <2>2, ReceiveEffects
    <3> QED BY <1>3, <1>7, <3>1, <3>2 DEF Kept
  <2>3. ASSUME \/ CountSent(u) \/ PingGone(u) \/ PingReturns(u) \/ CountAnswer(u)
               \/ ResetSent(u) \/ ResetAnswered(u)
        PROVE  Onward(u)
    BY <1>3, <2>3, WaitEffects
  <2>4. ASSUME Refresh(u) \/ DropStale(u) \/ Reset(u) PROVE Onward(u)
    BY <1>6, <2>4, WaitEffects
  <2> QED BY <1>5, <1>8, <2>1, <2>2, <2>3, <2>4 DEF Acts, Receive
<1> QED BY <1>4, <1>8

\* A studio takes for an answer only what another tool echoed: the echoes on their
\* way to it are those, or of pings of its own that are closed.
LEMMA WireStep ==
  ASSUME PingTypes, WireInv, NotByItself, \A u \in Tools : CallInv(u) /\ Onward(u),
         \/ \E t \in Tools : Acts(t)
         \/ UNCHANGED <<wire, answered, echoed>>
  PROVE  WireInv' /\ NotByItself'
<1>1. /\ \A m \in wire : m.id = "ping" => m.n <= seq[m.by]
      /\ \A m \in wire : m.id = "pong" /\ m.to \in Studios =>
           m.n \in echoed[m.to] \/ (m.n <= seq[m.to] /\ m.n \notin Pending(m.to))
      /\ \A t \in Studios, n \in Numbers : n \in answered[t] => n \in echoed[t]
  BY DEF WireInv, NotByItself
<1>2. /\ Studios \subseteq Tools
      /\ \A m \in wire : m.n \in Numbers /\ m.n \in Nat /\ m.to \in Tools
                         /\ (m.id = "ping" => m.by \in Tools)
      /\ \A u \in Tools : seq[u] \in Nat /\ answered[u] \subseteq Numbers
  BY BoundsAssumption DEF PingTypes, Tools, Numbers
<1>3. /\ \A u \in Tools : seq'[u] \in Nat /\ seq[u] <= seq'[u]
      /\ \A u \in Tools, n \in Numbers :
           n <= seq[u] /\ n \notin Pending(u) => n \notin Pending(u)'
  BY DEF Onward
<1> HIDE DEF Pending
\* What was under way stays right.
<1>4. ASSUME \A u \in Tools : echoed[u] \subseteq echoed'[u], NEW m \in wire
      PROVE  /\ m.id = "ping" => m.n <= seq'[m.by]
             /\ m.id = "pong" /\ m.to \in Studios =>
                  m.n \in echoed'[m.to] \/ (m.n <= seq'[m.to] /\ m.n \notin Pending(m.to)')
  <2>1. m.id = "ping" => m.n <= seq'[m.by]
    BY <1>1, <1>2, <1>3
  <2>2. ASSUME m.id = "pong", m.to \in Studios
        PROVE  m.n \in echoed'[m.to] \/ (m.n <= seq'[m.to] /\ m.n \notin Pending(m.to)')
    <3>1. CASE m.n \in echoed[m.to]
      BY <1>2, <1>4, <3>1
    <3>2. CASE m.n <= seq[m.to] /\ m.n \notin Pending(m.to)
      <4>1. m.to \in Tools /\ m.n \in Numbers /\ m.n \in Nat /\ seq[m.to] \in Nat
        BY <1>2
      <4>2. seq'[m.to] \in Nat /\ seq[m.to] <= seq'[m.to] /\ m.n \notin Pending(m.to)'
        BY <1>3, <3>2, <4>1
      <4> QED BY <3>2, <4>1, <4>2
    <3> QED BY <1>1, <2>2, <3>1, <3>2
  <2> QED BY <2>1, <2>2
<1>5. ASSUME wire' \subseteq wire, \A u \in Tools : echoed[u] \subseteq echoed'[u] PROVE WireInv'
  <2>1. \A m \in wire' : m.id = "ping" => m.n <= seq'[m.by]
    BY <1>4, <1>5
  <2>2. \A m \in wire' : m.id = "pong" /\ m.to \in Studios =>
          m.n \in echoed'[m.to] \/ (m.n <= seq'[m.to] /\ m.n \notin Pending(m.to)')
    BY <1>4, <1>5
  <2> QED BY <2>1, <2>2 DEF WireInv
<1>6. ASSUME answered' = answered, \A u \in Tools : echoed[u] \subseteq echoed'[u]
      PROVE  NotByItself'
  BY <1>1, <1>2, <1>6 DEF NotByItself
<1>7. CASE UNCHANGED <<wire, answered, echoed>>
  BY <1>5, <1>6, <1>7
<1>8. ASSUME NEW t \in Tools, NEW c \in Callers, SendPing(t, c) PROVE WireInv' /\ NotByItself'
  <2>1. /\ At(t, c) = "send" /\ Cast("ping", Its(t, c), t, wire)
        /\ UNCHANGED <<tracker, history>>
    BY <1>8 DEF SendPing
  <2>2. PICK R \in SUBSET Tools :
          wire' = wire \cup {[id |-> "ping", n |-> Its(t, c), by |-> t, to |-> r] : r \in R}
    BY <2>1 DEF Cast
  <2>3. Its(t, c) <= seq'[t] /\ UNCHANGED <<answered, echoed>>
    BY <2>1 DEF CallInv, tracker, history
  <2>4. \A m \in wire' : \/ m \in wire
                         \/ m.id = "ping" /\ m.n = Its(t, c) /\ m.by = t
    BY <2>2
  <2>5. \A m \in wire' : m.id = "ping" => m.n <= seq'[m.by]
    BY <1>4, <2>3, <2>4
  <2>6. \A m \in wire' : m.id = "pong" /\ m.to \in Studios =>
          m.n \in echoed'[m.to] \/ (m.n <= seq'[m.to] /\ m.n \notin Pending(m.to)')
    BY <1>4, <2>3, <2>4
  <2> QED BY <1>6, <2>3, <2>5, <2>6 DEF WireInv
<1>9. ASSUME NEW t \in Tools, NEW m \in wire, OnPing(t, m) PROVE WireInv' /\ NotByItself'
  <2>1. m.id = "ping" /\ UNCHANGED <<tracker, answered>>
    BY <1>9 DEF OnPing
  <2>2. CASE wire' = wire \ {m} /\ UNCHANGED echoed
    BY <1>5, <1>6, <2>1, <2>2
  <2>3. CASE /\ MayEcho(t, m) /\ Cast("pong", m.n, "nobody", wire \ {m})
             /\ echoed' = [u \in Tools |-> IF u = t /\ u = m.by THEN echoed[u]
                                           ELSE echoed[u] \cup {m.n}]
    <3>1. PICK R \in SUBSET Tools :
            wire' = (wire \ {m})
                      \cup {[id |-> "pong", n |-> m.n, by |-> "nobody", to |-> r] : r \in R}
      BY <2>3 DEF Cast
    <3>2. \A u \in Tools : echoed[u] \subseteq echoed'[u]
      BY <2>3
    <3>3. \A k \in wire' : \/ k \in wire
                           \/ k.id = "pong" /\ k.n = m.n /\ k.to \in Tools
      BY <3>1
    <3>4. \A k \in wire' : k.id = "ping" => k.n <= seq'[k.by]
      BY <1>4, <3>2, <3>3
    <3>5. ASSUME NEW r \in Studios
          PROVE  m.n \in echoed'[r] \/ (m.n <= seq'[r] /\ m.n \notin Pending(r)')
      <4>1. CASE r = t /\ r = m.by
        <5>1. m.n \notin Pending(r) /\ m.n <= seq[r]
          BY <1>1, <2>1, <2>3, <4>1 DEF MayEcho
        <5>2. /\ m.n \in Numbers /\ m.n \in Nat /\ seq[r] \in Nat
              /\ seq'[r] \in Nat /\ seq[r] <= seq'[r]
          BY <1>2, <1>3
        <5> QED BY <1>2, <1>3, <5>1, <5>2
      <4>2. CASE ~ (r = t /\ r = m.by)
        BY <1>2, <2>3, <4>2
      <4> QED BY <4>1, <4>2
    <3>6. \A k \in wire' : k.id = "pong" /\ k.to \in Studios =>
            k.n \in echoed'[k.to] \/ (k.n <= seq'[k.to] /\ k.n \notin Pending(k.to)')
      BY <1>4, <3>2, <3>3, <3>5
    <3> QED BY <1>6, <2>1, <3>2, <3>4, <3>6 DEF WireInv
  <2> QED BY <1>9, <2>2, <2>3 DEF OnPing
<1>10. ASSUME NEW t \in Tools, NEW m \in wire, m.to = t, OnPong(t, m) PROVE WireInv' /\ NotByItself'
  <2>1. wire' \subseteq wire /\ UNCHANGED echoed /\ m.id = "pong"
    BY <1>10 DEF OnPong
  <2>2. WireInv'
    BY <1>5, <2>1
  <2>3. CASE m.n \notin Pending(t)
    BY <1>6, <1>10, <2>1, <2>2, <2>3 DEF OnPong
  <2>4. CASE m.n \in Pending(t)
    <3>1. answered' = [answered EXCEPT ![t] = @ \cup {m.n}]
      BY <1>10, <2>4 DEF OnPong
    <3>2. t \in Studios => m.n \in echoed[t]
      BY <1>1, <1>10, <2>1, <2>4
    <3>3. \A u \in Tools : \/ answered'[u] = answered[u]
                           \/ u = t /\ answered'[u] = answered[u] \cup {m.n}
      BY <3>1 DEF PingTypes
    <3>4. \A u \in Studios, n \in Numbers : n \in answered'[u] => n \in echoed'[u]
      BY <1>1, <1>2, <2>1, <3>2, <3>3
    <3> QED BY <2>2, <3>4 DEF NotByItself
  <2> QED BY <2>3, <2>4
<1>11. ASSUME NEW t \in Tools,
              \/ \E c \in Callers : BeginPing(t, c) \/ SendFails(t, c)
              \/ CountSent(t) \/ PingGone(t) \/ PingReturns(t) \/ CountAnswer(t)
              \/ Refresh(t) \/ DropStale(t) \/ Reset(t) \/ ResetSent(t) \/ ResetAnswered(t)
       PROVE  UNCHANGED <<wire, answered, echoed>>
  BY <1>11
  DEF BeginPing, SendFails, CountSent, PingGone, PingReturns, CountAnswer, Refresh, DropStale,
      Reset, ResetSent, ResetAnswered, history
<1>12. ASSUME NEW t \in Tools, Acts(t) PROVE WireInv' /\ NotByItself'
  BY <1>5, <1>6, <1>8, <1>9, <1>10, <1>11, <1>12 DEF Acts, Receive
<1> QED BY <1>7, <1>12
-----------------------------------------------------------------------------
\* Nobody has sent anything at first.
LEMMA PingInit == Init => PingInv
<1> SUFFICES ASSUME Init PROVE PingInv
  OBVIOUS
<1>1. /\ \A t \in Tools : /\ seq[t] = 0 /\ sent[t] = 0 /\ received[t] = 0 /\ ~ counting[t]
                          /\ answered[t] = {} /\ ~ wiped[t]
                          /\ \A n \in Numbers : pending[t][n] = Absent
                          /\ \A c \in Callers : call[t][c] = Idle
      /\ wire = {}
  BY DEF Init
<1>2. PingTypes
  <2>1. Absent \in 0..Absent /\ 0 \in 0..MaxNumber
    BY BoundsAssumption DEF Absent
  <2>2. call \in [Tools -> [Callers -> [at : Places, n : 0..MaxNumber]]]
    BY IdleRecord DEF Init
  <2>3. pending \in [Tools -> [Numbers -> 0..Absent]]
    BY <2>1 DEF Init
  <2>4. seq \in [Tools -> 0..MaxNumber]
    BY <2>1 DEF Init
  <2> QED BY <1>1, <2>2, <2>3, <2>4 DEF PingTypes, Init
<1>3. WireInv
  BY <1>1 DEF WireInv
<1>4. NotByItself
  BY <1>1 DEF NotByItself, Tools
<1>5. ASSUME NEW t \in Tools PROVE CallInv(t) /\ NumberInv(t) /\ Balance(t) /\ AgentInv(t)
  <2>1. \A c \in Callers : At(t, c) = "idle"
    BY <1>1 DEF At, Idle
  <2>2. At(t, "ui") = "idle" /\ At(t, "agent") = "idle"
    BY <2>1 DEF Callers
  <2>3. Pending(t) = {}
    BY <1>1 DEF Pending
  <2> HIDE DEF At, Pending
  <2>4. Sending(t) = {}
    BY <2>1 DEF Sending
  <2>5. Cardinality(Open(t)) = 0
    BY <1>1, <2>3, <2>4, FS_EmptySet DEF Open
  <2>6. Counted(t) = 0 /\ Owed(t) = 0
    BY <1>1, <2>2 DEF Counted, Owed
  <2>7. Counted(t) + Cardinality(Open(t)) <= Owed(t)
    BY <2>5, <2>6
  <2>8. Balance(t)
    BY <2>2, <2>7 DEF Balance
  <2>9. CallInv(t)
    BY <1>1, <2>1, <2>2 DEF CallInv
  <2>10. NumberInv(t)
    BY <1>1, <2>3 DEF NumberInv
  <2>11. AgentInv(t)
    BY <2>2 DEF AgentInv
  <2> QED BY <2>8, <2>9, <2>10, <2>11
<1> QED BY <1>2, <1>3, <1>4, <1>5 DEF PingInv

\* Every step is one tool's or the clock's.
LEMMA Steps == Next => (\E t \in Tools : Acts(t)) \/ Tick
  BY DEF Next, Acts

\* The invariant holds from step to step.
LEMMA PingStep == PingInv /\ [Next]_vars => PingInv'
<1> SUFFICES ASSUME PingInv, [Next]_vars PROVE PingInv'
  OBVIOUS
<1>1. /\ PingTypes /\ WireInv /\ NotByItself
      /\ \A u \in Tools : CallInv(u) /\ NumberInv(u) /\ Balance(u) /\ AgentInv(u)
  BY DEF PingInv
<1>2. PingTypes'
  BY <1>1, PingTypesStep
<1>3. ASSUME NEW t \in Tools, Acts(t) PROVE PingInv'
  <2>1. \A u \in Tools : Onward(u)
    BY <1>1, <1>3, OnwardStep
  <2>2. WireInv' /\ NotByItself'
    BY <1>1, <1>3, <2>1, WireStep
  <2>3. ASSUME NEW u \in Tools PROVE CallInv(u)' /\ NumberInv(u)' /\ Balance(u)' /\ AgentInv(u)'
    <3>1. CASE u = t
      BY <1>1, <1>3, <3>1, CallStep, NumberStep, BalanceStep, AgentStep
    <3>2. CASE u # t
      <4>1. Kept(u)
        BY <1>1, <1>3, <3>2, OneActs DEF OthersKept
      <4> QED BY <1>1, <4>1, KeptStays
    <3> QED BY <3>1, <3>2
  <2> QED BY <1>2, <2>2, <2>3 DEF PingInv
<1>4. ASSUME UNCHANGED <<seq, wire, answered, echoed>>,
             \A u \in Tools : /\ CallInv(u)' /\ NumberInv(u)' /\ Balance(u)' /\ AgentInv(u)'
                              /\ Pending(u)' = Pending(u)
      PROVE  PingInv'
  <2>1. \A u \in Tools : seq[u] \in Nat
    BY <1>1, BoundsAssumption DEF PingTypes
  <2>2. \A u \in Tools : Onward(u)
    BY <1>4, <2>1 DEF Onward
  <2>3. WireInv' /\ NotByItself'
    BY <1>1, <1>4, <2>2, WireStep
  <2> QED BY <1>2, <1>4, <2>3 DEF PingInv
<1>5. CASE Tick
  <2>1. UNCHANGED <<seq, wire, answered, echoed>>
    BY <1>5 DEF Tick, history
  <2> QED BY <1>1, <1>4, <1>5, <2>1, TickStep
<1>6. CASE UNCHANGED vars
  <2>1. UNCHANGED <<seq, pending, wire, answered, echoed>> /\ \A u \in Tools : Kept(u)
    BY <1>6
    DEF vars, tracker, threads, history, Kept, CallKept, FiguresKept, PingsKept, AgentKept,
        CrossedKept
  <2>2. \A u \in Tools : Pending(u)' = Pending(u)
    BY <2>1 DEF Pending
  <2> QED BY <1>1, <1>4, <2>1, <2>2, KeptStays
<1> QED BY <1>3, <1>5, <1>6, Steps

\* The figures shown are within what was sent: what is pending and unanswered is
\* among the open pings, which the counters cover.
LEMMA CountsFollow == PingInv => CountsAgree
<1>1. ASSUME PingInv, NEW t \in Tools, ~ crossed[t] /\ ~ counting[t],
             At(t, "ui") \notin {"send", "count", "reset sent", "reset answered"}
      PROVE  received[t] + Cardinality(Pending(t)) <= sent[t]
  <2>1. /\ PingTypes /\ CallInv(t) /\ NumberInv(t) /\ Balance(t)
    BY <1>1 DEF PingInv
  <2>2. sent[t] \in Nat /\ received[t] \in Nat
    BY <2>1 DEF PingTypes
  <2>3. Counted(t) + Cardinality(Open(t)) <= Owed(t)
    BY <1>1, <2>1 DEF Balance
  <2>4. Counted(t) = received[t] /\ Owed(t) = sent[t]
    <3>1. ~ counting[t] /\ At(t, "ui") \notin {"send", "count"}
      BY <1>1
    <3>2. Counted(t) = received[t]
      BY <2>2, <3>1 DEF Counted
    <3>3. Owed(t) = sent[t]
      BY <2>2, <3>1 DEF Owed
    <3> QED BY <3>2, <3>3
  <2>5. Pending(t) \subseteq Open(t)
    BY <2>1 DEF NumberInv, Open
  <2>6. IsFiniteSet(Open(t)) /\ Cardinality(Open(t)) \in Nat
    BY <2>1, OpenFinite, FS_CardinalityType
  <2>7. Cardinality(Pending(t)) \in Nat /\ Cardinality(Pending(t)) <= Cardinality(Open(t))
    BY <2>5, <2>6, Fewer
  <2> QED BY <2>2, <2>3, <2>4, <2>6, <2>7
<1> QED BY <1>1 DEF CountsAgree

\* What an agent is told of its ping is so.
LEMMA SuccessFollows == PingInv => SuccessMeansAnswered
<1> SUFFICES ASSUME PingInv, NEW t \in Studios, At(t, "agent") = "told",
                    waited[t] <= PingTimeout, ~ wiped[t], Its(t, "agent") \notin answered[t]
             PROVE  FALSE
  BY DEF SuccessMeansAnswered
<1>1. t \in Tools /\ AgentInv(t) /\ waited[t] \in Nat
  BY DEF PingInv, PingTypes, Tools
<1>2. waited[t] > PingTimeout
  BY <1>1 DEF AgentInv
<1> QED BY <1>1, <1>2, BoundsAssumption

\* Every state a run of the program reaches has the invariant.
LEMMA PingAlways == Spec => []PingInv
<1>1. PingInv /\ [Next]_vars => PingInv'
  BY PingStep
<1> QED BY PingInit, <1>1, PTL DEF Spec

\* The loss shown is never made up, a studio never answers itself, and an agent
\* that is told of an answer had one: whatever the network does with the frames,
\* and however the threads of either program interleave.
THEOREM FiguresHold == Spec => []FiguresAreTrue
<1>1. PingInv => FiguresAreTrue
  BY CountsFollow, SuccessFollows DEF FiguresAreTrue, PingInv
<1> QED BY PingAlways, <1>1, PTL
-----------------------------------------------------------------------------
(* The tracker of either program keeps the ledger. *)
Outcome(t, n) ==
  IF n \in answered[t] THEN "answered"
  ELSE IF n \in Pending(t) THEN "open"
  ELSE IF n > seq[t] THEN "none" ELSE "dropped"

Outcomes == [t \in Tools |-> [n \in Numbers |-> Outcome(t, n)]]
Counts == [t \in Tools |-> Counted(t)]

\* What a step makes of one tool's pings, the other tools' staying as they are.
Becomes(t, F) == /\ \A n \in Numbers : Outcome(t, n)' = F[n]
                 /\ \A u \in Tools \ {t}, n \in Numbers : Outcome(u, n)' = Outcome(u, n)
CountsTo(t, k) == Counted(t)' = k /\ \A u \in Tools \ {t} : Counted(u)' = Counted(u)

\* A tool that nothing was done to has the pings it had.
LEMMA KeptOutcome ==
  ASSUME NEW u \in Tools, Kept(u)
  PROVE  (\A n \in Numbers : Outcome(u, n)' = Outcome(u, n)) /\ Counted(u)' = Counted(u)
  BY DEF Kept, PingsKept, FiguresKept, Outcome, Pending, Counted

\* The ledger's figures are made of the tracker's.
LEMMA LedgerFigures ==
  ASSUME NEW t \in Tools
  PROVE  /\ \A F : Becomes(t, F) => Outcomes' = [Outcomes EXCEPT ![t] = [n \in Numbers |-> F[n]]]
         /\ \A k : CountsTo(t, k) => Counts' = [Counts EXCEPT ![t] = k]
         /\ \A n \in Numbers : Outcomes[t][n] = Outcome(t, n)
         /\ Counts[t] = Counted(t)
<1> DEFINE D(u) == [n \in Numbers |-> Outcome(u, n)]
<1>1. ASSUME NEW F, Becomes(t, F)
      PROVE  Outcomes' = [Outcomes EXCEPT ![t] = [n \in Numbers |-> F[n]]]
  <2>1. D(t)' = [n \in Numbers |-> F[n]]
    BY <1>1 DEF Becomes
  <2>2. \A u \in Tools \ {t} : D(u)' = D(u)
    BY <1>1 DEF Becomes
  <2>3. Outcomes = [u \in Tools |-> D(u)] /\ Outcomes' = [u \in Tools |-> D(u)']
    BY DEF Outcomes
  <2> HIDE DEF D
  <2> QED BY <2>1, <2>2, <2>3
<1>2. ASSUME NEW k, CountsTo(t, k) PROVE Counts' = [Counts EXCEPT ![t] = k]
  BY <1>2 DEF CountsTo, Counts
<1> QED BY <1>1, <1>2 DEF Outcomes, Counts

\* Pings given up are dropped from the ledger.
LEMMA LedgerDrops ==
  ASSUME NEW t \in Tools, NEW N \in SUBSET Numbers, \A n \in N : Outcome(t, n) = "open",
         Becomes(t, [n \in Numbers |-> IF n \in N THEN "dropped" ELSE Outcome(t, n)]),
         CountsTo(t, Counted(t)) \/ CountsTo(t, 0)
  PROVE  Ledger!Drop(t, N)
<1>1. \A n \in N : Outcomes[t][n] = "open"
  BY LedgerFigures
<1>2. Outcomes' = [Outcomes EXCEPT ![t] =
                     [n \in Numbers |-> IF n \in N THEN "dropped" ELSE Outcomes[t][n]]]
  BY LedgerFigures
<1>3. Counts' = Counts \/ Counts' = [Counts EXCEPT ![t] = 0]
  <2>1. CASE CountsTo(t, 0)
    BY <2>1, LedgerFigures
  <2>2. CASE CountsTo(t, Counted(t))
    <3>1. Counts' = [Counts EXCEPT ![t] = Counted(t)]
      BY <2>2, LedgerFigures
    <3> QED BY <3>1, LedgerFigures DEF Counts
  <2> QED BY <2>1, <2>2
<1> QED BY <1>1, <1>2, <1>3 DEF Ledger!Drop, Outcomes, Counts, Outcome, Counted

\* A ping with a number above all before is opened, and those overdue are dropped.
LEMMA LedgerOpens ==
  ASSUME NEW t \in Tools, NEW n \in Numbers, NEW N \in SUBSET Numbers,
         \A m \in Numbers : m >= n => Outcome(t, m) = "none",
         \A m \in N : Outcome(t, m) = "open",
         Becomes(t, [m \in Numbers |-> IF m = n THEN "open"
                                       ELSE IF m \in N THEN "dropped" ELSE Outcome(t, m)]),
         CountsTo(t, Counted(t))
  PROVE  Ledger!Open(t, n, N)
<1>1. Outcomes[t][n] = "none" /\ \A m \in Numbers : m > n => Outcomes[t][m] = "none"
  <2>1. n >= n /\ \A m \in Numbers : m > n => m >= n
    BY DEF Numbers
  <2> QED BY <2>1, LedgerFigures
<1>2. \A m \in N : Outcomes[t][m] = "open"
  BY LedgerFigures
<1>3. Outcomes' = [Outcomes EXCEPT ![t] =
                     [m \in Numbers |-> IF m = n THEN "open"
                                        ELSE IF m \in N THEN "dropped" ELSE Outcomes[t][m]]]
  BY LedgerFigures
<1>4. Counts' = Counts
  <2>1. Counts' = [Counts EXCEPT ![t] = Counted(t)]
    BY LedgerFigures
  <2> QED BY <2>1, LedgerFigures DEF Counts
<1> QED BY <1>1, <1>2, <1>3, <1>4 DEF Ledger!Open, Outcomes, Counts, Outcome, Counted

\* An open ping is answered, and counted.
LEMMA LedgerAnswers ==
  ASSUME NEW t \in Tools, NEW n \in Numbers, Outcome(t, n) = "open",
         Becomes(t, [m \in Numbers |-> IF m = n THEN "answered" ELSE Outcome(t, m)]),
         CountsTo(t, Counted(t) + 1)
  PROVE  Ledger!Answer(t, n)
<1>1. Outcomes[t][n] = "open"
  BY LedgerFigures
<1>2. Outcomes' = [Outcomes EXCEPT ![t][n] = "answered"]
  <2>1. Outcomes' = [Outcomes EXCEPT ![t] =
                       [m \in Numbers |-> IF m = n THEN "answered" ELSE Outcomes[t][m]]]
    BY LedgerFigures
  <2>2. [m \in Numbers |-> IF m = n THEN "answered" ELSE Outcomes[t][m]]
          = [Outcomes[t] EXCEPT ![n] = "answered"]
    BY DEF Outcomes
  <2> QED BY <2>1, <2>2
<1>3. Counts' = [Counts EXCEPT ![t] = Counts[t] + 1]
  BY LedgerFigures
<1> QED BY <1>1, <1>2, <1>3 DEF Ledger!Answer, Outcomes, Counts, Outcome, Counted

\* The counters are reset, and no ping with them.
LEMMA LedgerRestarts ==
  ASSUME NEW t \in Tools, NEW k \in {0, 1}, k <= Counted(t), CountsTo(t, k),
         \A u \in Tools, n \in Numbers : Outcome(u, n)' = Outcome(u, n)
  PROVE  Ledger!Restart(t)
<1>1. Outcomes' = Outcomes
  BY DEF Outcomes
<1>2. Counts' = [Counts EXCEPT ![t] = k]
  BY LedgerFigures
<1>3. Counts'[t] <= Counts[t]
  BY <1>2, LedgerFigures DEF Counts
<1> QED BY <1>1, <1>2, <1>3 DEF Ledger!Restart, Outcomes, Counts, Outcome, Counted

\* The ledger does not see what changes neither an outcome nor a count.
LEMMA LedgerStutters ==
  ASSUME \A u \in Tools : /\ \A n \in Numbers : Outcome(u, n)' = Outcome(u, n)
                          /\ Counted(u)' = Counted(u)
  PROVE  UNCHANGED Ledger!vars
<1>1. Outcomes' = Outcomes /\ Counts' = Counts
  BY DEF Outcomes, Counts
<1> QED BY <1>1 DEF Ledger!vars, Outcomes, Counts, Outcome, Counted

\* Each tool's step is one of the ledger's, or none.
LEMMA LedgerActs ==
  ASSUME PingInv, NEW t \in Tools, Acts(t)
  PROVE  Ledger!Next \/ UNCHANGED Ledger!vars
<1>1. PingTypes /\ CallInv(t) /\ NumberInv(t)
  BY DEF PingInv
<1>2. /\ seq[t] \in Nat /\ received[t] \in Nat /\ Counted(t) \in Nat
      /\ answered[t] \subseteq Numbers /\ Pending(t) \subseteq Numbers
      /\ \A n \in Numbers : n \in Nat
      /\ Callers = {"ui", "agent"}
  <2>1. seq[t] \in Nat /\ received[t] \in Nat /\ answered[t] \subseteq Numbers
    BY <1>1, BoundsAssumption DEF PingTypes
  <2>2. Counted(t) \in Nat
    BY <2>1 DEF Counted
  <2> QED BY <2>1, <2>2 DEF Pending, Numbers, Callers
<1>3. /\ \A u \in Tools \ {t}, n \in Numbers : Outcome(u, n)' = Outcome(u, n)
      /\ \A u \in Tools \ {t} : Counted(u)' = Counted(u)
  BY <1>1, OneActs, KeptOutcome DEF OthersKept
<1>4. \A n \in Pending(t) \cup answered[t] : n <= seq[t]
  BY <1>1 DEF NumberInv
<1>5. Pending(t) \cap answered[t] = {}
  BY <1>1 DEF NumberInv
<1>6. \A n \in Pending(t) : Outcome(t, n) = "open"
  BY <1>5 DEF Outcome
<1>7. ASSUME received'[t] = received[t], counting'[t] <=> counting[t]
      PROVE  Counted(t)' = Counted(t)
  BY <1>7 DEF Counted
<1>8. ASSUME PingsKept(t) PROVE \A u \in Tools, n \in Numbers : Outcome(u, n)' = Outcome(u, n)
  <2>1. \A n \in Numbers : Outcome(t, n)' = Outcome(t, n)
    BY <1>8 DEF PingsKept, Outcome, Pending
  <2> QED BY <1>3, <2>1
<1>9. ASSUME PingsKept(t), Counted(t)' = Counted(t) PROVE UNCHANGED Ledger!vars
  <2>1. \A u \in Tools : Counted(u)' = Counted(u)
    BY <1>3, <1>9
  <2> QED BY <1>8, <1>9, <2>1, LedgerStutters
<1>10. ASSUME NEW M, Drops(t, M), Counted(t)' \in {Counted(t), 0} PROVE Ledger!Next
  <2>1. PICK N \in SUBSET Numbers : N = M \cap Pending(t)
    BY <1>2
  <2>2. /\ Pending(t)' = Pending(t) \ N /\ N \subseteq Pending(t)
        /\ seq'[t] = seq[t] /\ answered'[t] = answered[t]
    BY <1>10, <2>1, DropsLess DEF Drops
  <2>3. ASSUME NEW n \in Numbers
        PROVE  Outcome(t, n)' = IF n \in N THEN "dropped" ELSE Outcome(t, n)
    <3>1. n \in N => n \notin answered'[t] /\ n \notin Pending(t)' /\ ~ (n > seq'[t])
      BY <1>2, <1>4, <1>5, <2>2
    <3>2. n \notin N => (n \in Pending(t)' <=> n \in Pending(t))
      BY <2>2
    <3> QED BY <2>2, <3>1, <3>2 DEF Outcome
  <2>4. Becomes(t, [n \in Numbers |-> IF n \in N THEN "dropped" ELSE Outcome(t, n)])
    BY <1>3, <2>3 DEF Becomes
  <2>5. CountsTo(t, Counted(t)) \/ CountsTo(t, 0)
    BY <1>3, <1>10 DEF CountsTo
  <2>6. \A n \in N : Outcome(t, n) = "open"
    BY <1>6, <2>2
  <2>7. Ledger!Drop(t, N)
    BY <2>4, <2>5, <2>6, LedgerDrops
  <2> QED BY <2>7 DEF Ledger!Next
<1>11. ASSUME NEW c \in Callers, BeginPing(t, c) PROVE Ledger!Next
  <2>1. seq'[t] = seq[t] + 1 /\ seq'[t] \in Numbers /\ answered'[t] = answered[t]
    BY <1>1, <1>11, CallerEffects
  <2>2. \A n \in Numbers : pending'[t][n] =
          IF n = seq'[t] THEN 0
          ELSE IF t \in Studios /\ n \in Expired(t) THEN Absent ELSE pending[t][n]
    BY <1>1, <1>11, CallerEffects
  <2>3. received'[t] = received[t] /\ (counting'[t] <=> counting[t])
    BY <1>1, <1>11, CallerEffects
  <2>4. PICK n \in Numbers : n = seq'[t]
    BY <2>1
  <2>5. PICK N \in SUBSET Numbers : N = IF t \in Studios THEN Expired(t) ELSE {}
    <3>1. Expired(t) \subseteq Numbers
      BY DEF Expired, Pending
    <3> QED BY <3>1
  <2>6. N \subseteq Pending(t)
    BY <2>5 DEF Expired
  <2>7. Pending(t)' = (Pending(t) \ N) \cup {n}
    <3>1. 0 # Absent
      BY BoundsAssumption DEF Absent
    <3>2. \A m \in Numbers : pending'[t][m] =
            IF m = n THEN 0 ELSE IF m \in N THEN Absent ELSE pending[t][m]
      BY <2>2, <2>4, <2>5
    <3> QED BY <2>4, <3>1, <3>2 DEF Pending
  <2> HIDE DEF Pending, Expired
  <2>8. ASSUME NEW m \in Numbers, m >= n PROVE Outcome(t, m) = "none"
    <3>1. m > seq[t] /\ m \notin Pending(t) /\ m \notin answered[t]
      BY <1>2, <1>4, <2>1, <2>4, <2>8
    <3> QED BY <3>1 DEF Outcome
  <2>9. ASSUME NEW m \in Numbers
        PROVE  Outcome(t, m)' =
                 IF m = n THEN "open" ELSE IF m \in N THEN "dropped" ELSE Outcome(t, m)
    <3>1. CASE m = n
      <4>1. m \in Pending(t)' /\ m \notin answered'[t]
        BY <1>2, <1>4, <2>1, <2>4, <2>7, <3>1
      <4> QED BY <3>1, <4>1 DEF Outcome
    <3>2. CASE m # n /\ m \in N
      <4>1. m \notin Pending(t)' /\ m \notin answered'[t]
        BY <1>5, <2>1, <2>6, <2>7, <3>2
      <4>2. ~ (m > seq'[t])
        BY <1>2, <1>4, <2>1, <2>6, <3>2
      <4> QED BY <3>2, <4>1, <4>2 DEF Outcome
    <3>3. CASE m # n /\ m \notin N
      <4>1. (m \in Pending(t)' <=> m \in Pending(t)) /\ (m \in answered'[t] <=> m \in answered[t])
        BY <2>1, <2>7, <3>3
      <4>2. m > seq'[t] <=> m > seq[t]
        BY <1>2, <2>1, <2>4, <3>3
      <4> QED BY <3>3, <4>1, <4>2 DEF Outcome
    <3> QED BY <3>1, <3>2, <3>3
  <2>10. Becomes(t, [m \in Numbers |-> IF m = n THEN "open"
                                       ELSE IF m \in N THEN "dropped" ELSE Outcome(t, m)])
    BY <1>3, <2>9 DEF Becomes
  <2>11. CountsTo(t, Counted(t))
    BY <1>3, <1>7, <2>3 DEF CountsTo
  <2>12. \A m \in N : Outcome(t, m) = "open"
    BY <1>6, <2>6
  <2>13. Ledger!Open(t, n, N)
    BY <2>8, <2>10, <2>11, <2>12, LedgerOpens
  <2> QED BY <2>13 DEF Ledger!Next
<1>12. ASSUME NEW n \in Numbers, TakesAnswer(t, n), ~ counting[t] PROVE Ledger!Next
  <2>1. /\ n \in Pending(t) /\ seq'[t] = seq[t] /\ answered'[t] = answered[t] \cup {n}
        /\ Pending(t)' = Pending(t) \ {n}
    BY <1>12 DEF TakesAnswer, Pending
  <2>2. IF t \in Studios THEN received'[t] = received[t] + 1 /\ (counting'[t] <=> counting[t])
                         ELSE received'[t] = received[t] /\ counting'[t]
    BY <1>12 DEF TakesAnswer
  <2>3. Counted(t)' = Counted(t) + 1
    <3>1. CASE t \in Studios
      BY <1>2, <1>12, <2>2, <3>1 DEF Counted
    <3>2. CASE t \notin Studios
      BY <1>2, <1>12, <2>2, <3>2 DEF Counted
    <3> QED BY <3>1, <3>2
  <2>4. \A m \in Numbers : Outcome(t, m)' = IF m = n THEN "answered" ELSE Outcome(t, m)
    BY <2>1 DEF Outcome
  <2>5. Becomes(t, [m \in Numbers |-> IF m = n THEN "answered" ELSE Outcome(t, m)])
    BY <1>3, <2>4 DEF Becomes
  <2>6. CountsTo(t, Counted(t) + 1)
    BY <1>3, <2>3 DEF CountsTo
  <2>7. Ledger!Answer(t, n)
    BY <1>6, <2>1, <2>5, <2>6, LedgerAnswers
  <2> QED BY <2>7 DEF Ledger!Next
<1>13. ASSUME Receive(t) PROVE Ledger!Next \/ UNCHANGED Ledger!vars
  <2>1. PICK m \in wire : ~ counting[t] /\ (OnPing(t, m) \/ OnPong(t, m))
    BY <1>13 DEF Receive
  <2>2. Kept(t) \/ TakesAnswer(t, m.n)
    BY <1>1, <2>1, ReceiveEffects
  <2>3. m.n \in Numbers
    BY <1>1 DEF PingTypes
  <2>4. CASE Kept(t)
    <3>1. PingsKept(t) /\ Counted(t)' = Counted(t)
      BY <2>4, KeptOutcome DEF Kept
    <3> QED BY <1>9, <3>1
  <2> QED BY <1>12, <2>1, <2>2, <2>3, <2>4
<1>14. ASSUME NEW c \in Callers, SendPing(t, c) PROVE UNCHANGED Ledger!vars
  <2>1. PingsKept(t) /\ FiguresKept(t)
    BY <1>1, <1>14, CallerEffects
  <2> QED BY <1>7, <1>9, <2>1 DEF FiguresKept
<1>15. ASSUME NEW c \in Callers, SendFails(t, c) PROVE Ledger!Next
  <2>1. Drops(t, {Its(t, c)})
    BY <1>1, <1>15, CallerEffects
  <2>2. received'[t] = received[t] /\ (counting'[t] <=> counting[t])
    BY <1>1, <1>15, CallerEffects
  <2> QED BY <1>7, <1>10, <2>1, <2>2
<1>16. ASSUME CountSent(t) \/ PingGone(t) \/ PingReturns(t) \/ ResetSent(t)
       PROVE  UNCHANGED Ledger!vars
  <2>1. PingsKept(t) /\ received'[t] = received[t] /\ (counting'[t] <=> counting[t])
    BY <1>1, <1>16, WaitEffects DEF FiguresKept
  <2> QED BY <1>7, <1>9, <2>1
<1>17. ASSUME CountAnswer(t) PROVE UNCHANGED Ledger!vars
  <2>1. PingsKept(t)
    BY <1>1, <1>17, WaitEffects
  <2>2. counting[t] /\ ~ counting'[t] /\ received'[t] = received[t] + 1
    BY <1>1, <1>17, WaitEffects
  <2>3. Counted(t)' = Counted(t)
    BY <1>2, <2>2 DEF Counted
  <2> QED BY <1>9, <2>1, <2>3
<1>18. ASSUME Refresh(t) \/ DropStale(t) PROVE Ledger!Next
  <2>1. Drops(t, Expired(t)) /\ FiguresKept(t)
    BY <1>1, <1>18, WaitEffects
  <2> QED BY <1>7, <1>10, <2>1 DEF FiguresKept
<1>19. ASSUME Reset(t) PROVE Ledger!Next
  <2>1. Drops(t, Numbers) /\ (counting'[t] <=> counting[t])
    BY <1>1, <1>19, WaitEffects
  <2>2. t \in Studios => received'[t] = 0
    BY <1>1, <1>19, WaitEffects
  <2>3. t \notin Studios => received'[t] = received[t]
    BY <1>1, <1>19, WaitEffects
  <2>4. CASE t \in Studios
    <3>1. ~ counting'[t] /\ received'[t] = 0
      BY <1>1, <2>1, <2>2, <2>4 DEF CallInv
    <3>2. Counted(t)' = 0
      BY <3>1 DEF Counted
    <3> QED BY <1>10, <2>1, <3>2
  <2>5. CASE t \notin Studios
    BY <1>7, <1>10, <2>1, <2>3, <2>5
  <2> QED BY <2>4, <2>5
<1>20. ASSUME ResetAnswered(t) PROVE Ledger!Next
  <2>1. PingsKept(t)
    BY <1>1, <1>20, WaitEffects
  <2>2. received'[t] = 0 /\ (counting'[t] <=> counting[t])
    BY <1>1, <1>20, WaitEffects
  <2>3. PICK k \in {0, 1} : k = IF counting[t] THEN 1 ELSE 0
    OBVIOUS
  <2>4. Counted(t)' = k
    BY <2>2, <2>3 DEF Counted
  <2>5. k <= Counted(t)
    BY <1>2, <2>3 DEF Counted
  <2>6. CountsTo(t, k)
    BY <1>3, <2>4 DEF CountsTo
  <2>7. Ledger!Restart(t)
    BY <1>8, <2>1, <2>5, <2>6, LedgerRestarts
  <2> QED BY <2>7 DEF Ledger!Next
<1> QED
  BY <1>11, <1>13, <1>14, <1>15, <1>16, <1>17, <1>18, <1>19, <1>20 DEF Acts

\* The clock and nothing at all are no steps of the ledger's.
LEMMA LedgerIdles ==
  ASSUME PingInv, Tick \/ UNCHANGED vars
  PROVE  UNCHANGED Ledger!vars
<1>1. ASSUME NEW u \in Tools
      PROVE  /\ seq'[u] = seq[u] /\ answered'[u] = answered[u] /\ Pending(u)' = Pending(u)
             /\ received'[u] = received[u] /\ (counting'[u] <=> counting[u])
  <2>1. CASE Tick
    <3>1. Pending(u)' = Pending(u)
      BY <2>1, TickStep DEF PingInv
    <3> QED BY <2>1, <3>1 DEF Tick, history
  <2>2. CASE UNCHANGED vars
    BY <2>2 DEF vars, tracker, threads, history, Pending
  <2> QED BY <2>1, <2>2
<1>2. ASSUME NEW u \in Tools
      PROVE  (\A n \in Numbers : Outcome(u, n)' = Outcome(u, n)) /\ Counted(u)' = Counted(u)
  BY <1>1 DEF Outcome, Counted
<1> QED BY <1>2, LedgerStutters

\* At first no tool has opened a ping.
LEMMA LedgerInit == Init => Ledger!Init
<1> SUFFICES ASSUME Init PROVE Ledger!Init
  OBVIOUS
<1>1. ASSUME NEW t \in Tools
      PROVE  (\A n \in Numbers : Outcome(t, n) = "none") /\ Counted(t) = 0
  <2>1. seq[t] = 0 /\ answered[t] = {} /\ received[t] = 0 /\ ~ counting[t] /\ Pending(t) = {}
    BY DEF Init, Pending
  <2>2. Counted(t) = 0
    BY <2>1 DEF Counted
  <2>3. \A n \in Numbers : n > seq[t]
    BY <2>1 DEF Numbers
  <2> QED BY <2>1, <2>2, <2>3 DEF Outcome
<1>2. Outcomes = [t \in Tools |-> [n \in Numbers |-> "none"]]
  BY <1>1 DEF Outcomes
<1>3. Counts = [t \in Tools |-> 0]
  BY <1>1 DEF Counts
<1> QED BY <1>2, <1>3 DEF Ledger!Init, Outcomes, Counts, Outcome, Counted

\* The trackers of both programs implement the ledger: a ping answered, expired,
\* withdrawn or reset is never answered again, and the count moves with the answers.
THEOREM LedgerIsKept == Spec => LedgerKept
<1>1. PingInv /\ [Next]_vars => Ledger!Next \/ UNCHANGED Ledger!vars
  BY LedgerActs, LedgerIdles, Steps
<1> QED BY LedgerInit, PingAlways, <1>1, PTL DEF Spec, LedgerKept, Ledger!Spec
=============================================================================
