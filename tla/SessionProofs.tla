---------------------------- MODULE SessionProofs ----------------------------
(* What may be relied on of a diagnostic session, whatever its constants are: *)
(* by the threads that share one ELM327 session, whatever they call and       *)
(* however often the adapter is late; by the caller of a native CAN session's *)
(* _request, for any ECUs, windows, extensions and lengths of a request; and  *)
(* by the J1979 client's, for any vehicle, however late its answers are.      *)
EXTENDS ElmSession, NativeCollect, ObdSession, TLAPS

\* Where a thread can be inside each of its calls.
InPlace(t) ==
  \/ job[t] = "none" /\ pc[t] = "idle"
  \/ job[t] = "open" /\ pc[t] \in {"connect", "reset", "write", "read"}
  \/ job[t] = "request" /\ pc[t] \in {"queued", "reset", "write", "read"}
  \/ job[t] = "voltage" /\ pc[t] \in {"reset", "write", "read"}
  \/ job[t] = "close" /\ pc[t] \in {"reset", "write", "read", "release", "disconnect",
                                    "stop", "clear"}

ThreadTypes == /\ job \in [Threads -> {"none", "open", "request", "voltage", "close"}]
               /\ pc \in [Threads -> {"idle", "connect", "queued", "reset", "write", "read",
                                      "release", "disconnect", "stop", "clear"}]
               /\ lock \in Threads \cup {NoOne}

LockInv == ThreadTypes /\ (\A t \in Threads : InPlace(t)) /\ LockFollowsRequest

\* A session is opened once, and while it is nobody can call more than
\* read_voltage(): the flag is not up yet.
OpenInv ==
  /\ openFlag \in BOOLEAN
  /\ loop = "none" => ~ openFlag /\ \A t \in Threads : job[t] = "none"
  /\ \A t \in Threads : job[t] = "open" =>
       ~ openFlag /\ closers = {} /\ \A u \in Threads : u # t => job[u] \in {"none", "voltage"}
  /\ \A t \in Threads : job[t] = "close" => t \in closers
  /\ closers # {} => loop # "none"

\* How far the one close has come.
CloseInv ==
  /\ client \in BOOLEAN /\ peer \in BOOLEAN /\ undone \in BOOLEAN
  /\ closers = {} =>
       /\ openFlag => client /\ loop = "running"
       /\ \A t \in Threads : job[t] = "open" =>
            loop = "running" /\ (pc[t] # "connect" => client)
  /\ \A t \in Threads : closers = {t} =>
       /\ pc[t] \in {"reset", "write", "read", "release"} /\ job[t] = "close" =>
            client /\ loop = "running"
       /\ pc[t] = "disconnect" => ~ client /\ loop = "running"
       /\ pc[t] = "stop" => ~ client /\ (peer => undone)
       /\ pc[t] = "clear" => ~ client /\ (peer => undone) /\ loop = "stopped"
       /\ job[t] # "close" =>
            ~ client /\ (peer => undone) /\ loop = "stopped" /\ ~ openFlag

\* What is under way between the adapter and the one that reads.
OnItsWay(n) == \/ adapter = <<n>> /\ unread = <<>>
               \/ adapter = <<>> /\ unread = <<n>>
               \/ adapter = <<>> /\ unread = <<>>

WireTypes == /\ sent \in [Threads -> Nat] /\ written \in Nat
             /\ answer \in [Threads -> Seq(Nat)]
             /\ adapter \in Seq(Nat) /\ unread \in Seq(Nat)
             /\ lost \in BOOLEAN /\ bypassed \in BOOLEAN

Orderly == timedOut = {} /\ ~ bypassed

WireInv ==
  /\ WireTypes
  /\ Orderly =>
       /\ closers = {}
       /\ \A t \in Threads : /\ job[t] \in {"none", "open", "request"}
                             /\ job[t] = "request" => openFlag
                             /\ pc[t] = "read" => OnItsWay(sent[t])
                             /\ answer[t] # <<>> => answer[t] = <<sent[t]>>
       /\ ~ lost /\ (\A t \in Threads : pc[t] # "read") => adapter = <<>> /\ unread = <<>>
\* A session not opened yet has all threads idle and the lock free.
LEMMA InitInv == Init => LockInv /\ OpenInv /\ CloseInv /\ WireInv
<1> SUFFICES ASSUME Init PROVE LockInv /\ OpenInv /\ CloseInv /\ WireInv
  OBVIOUS
<1>1. LockInv
  BY ThreadsAssumption DEF Init, LockInv, ThreadTypes, InPlace, LockFollowsRequest, Exchanging
<1>2. OpenInv
  BY DEF Init, OpenInv
<1>3. CloseInv
  BY DEF Init, CloseInv
<1>4. WireInv
  <2>1. <<>> \in Seq(Nat)
    OBVIOUS
  <2> QED BY <2>1 DEF Init, WireInv, WireTypes, Orderly
<1> QED BY <1>1, <1>2, <1>3, <1>4

\* Of the other parts of the state, and of other threads, the lock's holder
\* depends on nothing.
LEMMA LockStep == LockInv /\ [Next]_vars => LockInv'
<1> SUFFICES ASSUME LockInv, [Next]_vars PROVE LockInv'
  OBVIOUS
<1> USE ThreadsAssumption
<1> USE DEF LockInv, ThreadTypes, InPlace, LockFollowsRequest, Exchanging, Goes, Enter
<1>1. ASSUME NEW t \in Threads, Open(t) \/ Request(t) \/ ReadVoltage(t) \/ Close(t)
      PROVE  LockInv'
  BY <1>1 DEF Open, Request, ReadVoltage, Close
<1>2. ASSUME NEW t \in Threads, Connect(t) \/ ConnectFails(t) PROVE LockInv'
  BY <1>2 DEF Connect, ConnectFails
<1>3. ASSUME NEW t \in Threads, TakeLock(t) PROVE LockInv'
  BY <1>3 DEF TakeLock
<1>4. ASSUME NEW t \in Threads, ResetInput(t) \/ Write(t) PROVE LockInv'
  BY <1>4 DEF ResetInput, Write
<1>5. ASSUME NEW t \in Threads, NEW ok \in BOOLEAN, pc[t] \in {"write", "read"}, Leave(t, ok)
      PROVE  LockInv'
  BY <1>5 DEF Leave
<1>6. ASSUME NEW t \in Threads, Read(t) \/ GiveUp(t) \/ Fail(t) PROVE LockInv'
  BY <1>5, <1>6 DEF Read, GiveUp, Fail, DeadlineSeen, SetUpGoesOn, SetUpRefused
<1>7. ASSUME NEW t \in Threads,
             TakeClient(t) \/ Disconnect(t) \/ StopLoop(t) \/ ClearBuffer(t)
      PROVE  LockInv'
  BY <1>7 DEF TakeClient, Disconnect, StopLoop, ClearBuffer
<1>8. CASE AdapterAnswers \/ AdapterGone \/ OnDisconnect \/ UNCHANGED vars
  BY <1>8 DEF AdapterAnswers, AdapterGone, OnDisconnect, vars, threadVars
<1> QED
  BY <1>1, <1>2, <1>3, <1>4, <1>6, <1>7, <1>8 DEF Next, Step
\* Opening, and nothing else, raises the flag for the first time; a close is
\* known as one from its beginning.
LEMMA OpenStep == LockInv /\ OpenInv /\ [Next]_vars => OpenInv'
<1> SUFFICES ASSUME LockInv, OpenInv, [Next]_vars PROVE OpenInv'
  OBVIOUS
<1> USE DEF LockInv, ThreadTypes, InPlace, OpenInv, Goes, Enter
<1>1. ASSUME NEW t \in Threads, Open(t) PROVE OpenInv'
  BY <1>1 DEF Open
<1>2. ASSUME NEW t \in Threads, Request(t) \/ ReadVoltage(t) \/ Close(t) PROVE OpenInv'
  BY <1>2 DEF Request, ReadVoltage, Close, linkVars
<1>3. ASSUME NEW t \in Threads, Connect(t) \/ ConnectFails(t) PROVE OpenInv'
  BY <1>3 DEF Connect, ConnectFails, history
<1>4. ASSUME NEW t \in Threads, TakeLock(t) \/ ResetInput(t) \/ Write(t) PROVE OpenInv'
  BY <1>4 DEF TakeLock, ResetInput, Write, linkVars, history
<1>5. ASSUME NEW t \in Threads, NEW ok \in BOOLEAN, pc[t] \in {"write", "read"}, Leave(t, ok),
             UNCHANGED <<loop, closers>>
      PROVE  OpenInv'
  BY <1>5 DEF Leave
<1>6. ASSUME NEW t \in Threads, Read(t) \/ GiveUp(t) \/ Fail(t) PROVE OpenInv'
  <2>1. UNCHANGED <<loop, closers>> /\ pc[t] \in {"write", "read"}
    BY <1>6 DEF Read, GiveUp, Fail, DeadlineSeen, history
  <2>2. SetUpGoesOn(t) \/ Leave(t, TRUE) \/ Leave(t, FALSE)
    BY <1>6 DEF Read, GiveUp, Fail, SetUpRefused
  <2>3. CASE SetUpGoesOn(t)
    BY <2>1, <2>3 DEF SetUpGoesOn
  <2> QED BY <1>5, <2>1, <2>2, <2>3
<1>7. ASSUME NEW t \in Threads,
             TakeClient(t) \/ Disconnect(t) \/ StopLoop(t) \/ ClearBuffer(t)
      PROVE  OpenInv'
  BY <1>7 DEF TakeClient, Disconnect, StopLoop, ClearBuffer, history
<1>8. CASE AdapterAnswers \/ AdapterGone \/ OnDisconnect \/ UNCHANGED vars
  BY <1>8 DEF AdapterAnswers, AdapterGone, OnDisconnect, vars, threadVars, linkVars, history
<1> QED
  BY <1>1, <1>2, <1>3, <1>4, <1>6, <1>7, <1>8 DEF Next, Step

\* Only the steps of a close take the client and the adapter away, and they
\* come one after the other.
LEMMA CloseStep == LockInv /\ OpenInv /\ CloseInv /\ [Next]_vars => CloseInv'
<1> SUFFICES ASSUME LockInv, OpenInv, CloseInv, [Next]_vars PROVE CloseInv'
  OBVIOUS
<1> USE DEF LockInv, ThreadTypes, InPlace, OpenInv, CloseInv, Goes, Enter
<1>1. ASSUME NEW t \in Threads, Open(t) PROVE CloseInv'
  BY <1>1 DEF Open
<1>2. ASSUME NEW t \in Threads, Request(t) \/ ReadVoltage(t) PROVE CloseInv'
  BY <1>2 DEF Request, ReadVoltage, linkVars
<1>3. ASSUME NEW t \in Threads, Close(t) PROVE CloseInv'
  BY <1>3 DEF Close, linkVars
<1>4. ASSUME NEW t \in Threads, Connect(t) \/ ConnectFails(t) PROVE CloseInv'
  <2>1. CASE Connect(t)
    BY <2>1 DEF Connect, history
  <2>2. CASE ConnectFails(t)
    BY <2>2 DEF ConnectFails, history
  <2> QED BY <1>4, <2>1, <2>2
<1>5. ASSUME NEW t \in Threads, TakeLock(t) \/ ResetInput(t) \/ Write(t) PROVE CloseInv'
  BY <1>5 DEF TakeLock, ResetInput, Write, linkVars, history
<1>6. ASSUME NEW t \in Threads, NEW ok \in BOOLEAN, pc[t] \in {"write", "read"}, Leave(t, ok),
             UNCHANGED <<client, loop, peer, closers, undone>>
      PROVE  CloseInv'
  BY <1>6 DEF Leave
<1>7. ASSUME NEW t \in Threads, Read(t) \/ GiveUp(t) \/ Fail(t) PROVE CloseInv'
  <2>1. UNCHANGED <<client, loop, peer, closers, undone>> /\ pc[t] \in {"write", "read"}
    BY <1>7 DEF Read, GiveUp, Fail, DeadlineSeen, history
  <2>2. SetUpGoesOn(t) \/ Leave(t, TRUE) \/ Leave(t, FALSE)
    BY <1>7 DEF Read, GiveUp, Fail, SetUpRefused
  <2>3. CASE SetUpGoesOn(t)
    BY <2>1, <2>3 DEF SetUpGoesOn
  <2> QED BY <1>6, <2>1, <2>2, <2>3
<1>8. ASSUME NEW t \in Threads,
             TakeClient(t) \/ Disconnect(t) \/ StopLoop(t) \/ ClearBuffer(t)
      PROVE  CloseInv'
  <2>1. CASE TakeClient(t)
    BY <2>1 DEF TakeClient, history
  <2>2. CASE Disconnect(t)
    BY <2>2 DEF Disconnect, history
  <2>3. CASE StopLoop(t)
    BY <2>3 DEF StopLoop, history
  <2>4. CASE ClearBuffer(t)
    BY <2>4 DEF ClearBuffer, history
  <2> QED BY <1>8, <2>1, <2>2, <2>3, <2>4
<1>9. CASE AdapterAnswers \/ AdapterGone \/ OnDisconnect \/ UNCHANGED vars
  <2>1. UNCHANGED <<job, pc, openFlag, client, loop, closers, undone>>
    BY <1>9 DEF AdapterAnswers, AdapterGone, OnDisconnect, vars, threadVars, linkVars, history
  <2>2. CASE peer' = peer
    BY <2>1, <2>2
  <2>3. CASE peer' = FALSE
    BY <2>1, <2>3
  <2> QED
    BY <1>9, <2>2, <2>3
    DEF AdapterAnswers, AdapterGone, OnDisconnect, vars, linkVars
<1> QED
  BY <1>1, <1>2, <1>3, <1>4, <1>5, <1>7, <1>8, <1>9 DEF Next, Step
\* With the lock and the opening in order, one thread at a time has a command out.
LEMMA OneExchanging ==
  ASSUME LockInv, OpenInv, WireInv, Orderly, NEW t \in Threads, NEW u \in Threads,
         Exchanging(t), Exchanging(u)
  PROVE  t = u
BY DEF LockInv, ThreadTypes, InPlace, LockFollowsRequest, Exchanging, OpenInv, WireInv

\* A queue of one.
LEMMA OneItem ==
  ASSUME NEW n \in Nat
  PROVE  /\ <<n>> \in Seq(Nat) /\ Append(<<>>, n) = <<n>>
         /\ Head(<<n>>) = n /\ Tail(<<n>>) = <<>> /\ <<n>> # <<>>
OBVIOUS

\* A command is written when nothing is left of the ones before, and what is read
\* is what its caller wrote; timeouts and the calls without the lock excepted.
LEMMA WireStep ==
  LockInv /\ OpenInv /\ CloseInv /\ WireInv /\ [Next]_vars => WireInv'
<1> SUFFICES ASSUME LockInv, OpenInv, CloseInv, WireInv, [Next]_vars PROVE WireInv'
  OBVIOUS
<1> USE DEF LockInv, ThreadTypes, InPlace, WireInv, WireTypes, Orderly, OnItsWay, Goes
<1>0. <<>> \in Seq(Nat)
  OBVIOUS
<1>1. ASSUME NEW t \in Threads, NEW what \in {"open", "request", "voltage", "close"},
             NEW where \in {"connect", "queued", "reset"}, Enter(t, what, where),
             UNCHANGED lost, what # "close" => openFlag' = openFlag,
             what = "request" => openFlag
      PROVE  WireInv'
  <2>1. WireTypes'
    BY <1>0, <1>1 DEF Enter, wireVars
  <2>2. UNCHANGED <<adapter, unread, timedOut>> /\ (bypassed => bypassed')
    BY <1>1 DEF Enter, wireVars
  <2>3. Orderly' => Orderly /\ what \notin {"voltage", "close"} /\ closers' = closers
    BY <1>1, <2>2 DEF Enter
  <2>4. \A u \in Threads : u # t => /\ job'[u] = job[u] /\ pc'[u] = pc[u]
                                    /\ sent'[u] = sent[u] /\ answer'[u] = answer[u]
    BY <1>1 DEF Enter
  <2>5. job'[t] = what /\ pc'[t] = where /\ pc[t] = "idle" /\ answer'[t] = <<>>
    BY <1>1 DEF Enter
  <2>6. ASSUME Orderly'
        PROVE  /\ closers' = {}
               /\ \A u \in Threads : /\ job'[u] \in {"none", "open", "request"}
                                     /\ job'[u] = "request" => openFlag'
                                     /\ pc'[u] = "read" => OnItsWay(sent[u])'
                                     /\ answer'[u] # <<>> => answer'[u] = <<sent'[u]>>
               /\ ~ lost' /\ (\A u \in Threads : pc'[u] # "read") =>
                    adapter' = <<>> /\ unread' = <<>>
    <3>1. Orderly /\ what \in {"open", "request"} /\ openFlag' = openFlag
      BY <1>1, <2>3, <2>6
    <3>2. (\A u \in Threads : pc'[u] # "read") => \A u \in Threads : pc[u] # "read"
      BY <2>4, <2>5
    <3>3. ASSUME NEW u \in Threads, u # t
          PROVE  /\ job'[u] \in {"none", "open", "request"}
                 /\ job'[u] = "request" => openFlag'
                 /\ pc'[u] = "read" => OnItsWay(sent[u])'
                 /\ answer'[u] # <<>> => answer'[u] = <<sent'[u]>>
      BY <2>2, <2>4, <3>1, <3>3
    <3>4. /\ job'[t] \in {"none", "open", "request"} /\ (job'[t] = "request" => openFlag')
          /\ pc'[t] # "read" /\ answer'[t] = <<>>
      BY <1>1, <2>5, <3>1
    <3> QED BY <1>1, <2>2, <2>3, <2>6, <3>1, <3>2, <3>3, <3>4
  <2> QED BY <2>1, <2>6
<1>2. ASSUME NEW t \in Threads, Open(t) \/ Request(t) \/ ReadVoltage(t) \/ Close(t)
      PROVE  WireInv'
  BY <1>1, <1>2 DEF Open, Request, ReadVoltage, Close, linkVars
<1>3. ASSUME NEW t \in Threads, Connect(t) \/ ConnectFails(t) PROVE WireInv'
  BY <1>3 DEF Connect, ConnectFails, wireVars, history
<1>4. ASSUME NEW t \in Threads, TakeLock(t) \/ ResetInput(t) PROVE WireInv'
  <2>1. CASE TakeLock(t)
    BY <2>1 DEF TakeLock, linkVars, wireVars, history
  <2>2. CASE ResetInput(t)
    <3>1. /\ UNCHANGED <<job, openFlag, lost, sent, answer, written, adapter, timedOut,
                         bypassed, closers>>
          /\ unread' = <<>> /\ pc' = [pc EXCEPT ![t] = "write"] /\ pc[t] = "reset"
      BY <2>2 DEF ResetInput, linkVars, history
    <3>2. WireTypes'
      BY <1>0, <3>1
    <3>3. \A u \in Threads : pc'[u] = "read" <=> pc[u] = "read"
      BY <3>1
    <3>4. ASSUME Orderly, NEW u \in Threads, pc[u] = "read" PROVE OnItsWay(sent[u])'
      BY <3>1, <3>4
    <3> QED BY <3>1, <3>2, <3>3, <3>4
  <2> QED BY <1>4, <2>1, <2>2
<1>5. ASSUME NEW t \in Threads, Write(t) PROVE WireInv'
  <2>1. WireTypes'
    BY <1>0, <1>5 DEF Write, linkVars, history
  <2>2. UNCHANGED <<lock, job, openFlag, lost, unread, timedOut, bypassed, closers>>
    BY <1>5 DEF Write, linkVars, history
  <2>3. \A u \in Threads : u # t => /\ pc'[u] = pc[u] /\ sent'[u] = sent[u]
                                    /\ answer'[u] = answer[u]
    BY <1>5 DEF Write
  <2>4. pc[t] = "write" /\ pc'[t] = "read" /\ answer'[t] = <<>> /\ sent'[t] = written + 1
    BY <1>5 DEF Write
  <2>5. Orderly => \A u \in Threads : pc[u] # "read"
    BY <2>4, OneExchanging DEF Exchanging
  <2>6. Orderly => adapter = <<>> /\ unread = <<>>
    BY <1>5, <2>5 DEF Write, Usable
  <2>7. Orderly => adapter' = <<sent'[t]>>
    BY <1>5, <2>4, <2>6, OneItem DEF Write
  <2> QED BY <2>1, <2>2, <2>3, <2>4, <2>5, <2>6, <2>7
<1>6. ASSUME NEW t \in Threads, Read(t) PROVE WireInv'
  <2>1. WireTypes'
    BY <1>6 DEF Read, history
  <2>2. UNCHANGED <<sent, lost, adapter, timedOut, bypassed, closers>> /\ unread' = <<>>
    BY <1>6 DEF Read, history
  <2>3. \A u \in Threads : u # t => /\ job'[u] = job[u] /\ pc'[u] = pc[u]
                                    /\ answer'[u] = answer[u]
    BY <1>6 DEF Read, Leave, SetUpGoesOn, SetUpRefused
  <2>4. /\ pc[t] = "read" /\ unread # <<>> /\ answer'[t] = unread
        /\ SetUpGoesOn(t) \/ Leave(t, FALSE) \/ Leave(t, TRUE)
    BY <1>6 DEF Read, SetUpRefused
  <2>5. /\ pc'[t] # "read" /\ job'[t] \in {job[t], "none"}
        /\ (openFlag => openFlag' \/ job[t] = "close")
    <3>1. CASE SetUpGoesOn(t)
      BY <3>1 DEF SetUpGoesOn
    <3>2. ASSUME NEW ok \in BOOLEAN, Leave(t, ok)
          PROVE  /\ pc'[t] # "read" /\ job'[t] \in {job[t], "none"}
                 /\ openFlag => openFlag' \/ job[t] = "close"
      BY <3>2 DEF Leave
    <3> QED BY <2>4, <3>1, <3>2
  <2>6. Orderly => unread = <<sent[t]>> /\ adapter = <<>>
    BY <2>4
  <2>7. Orderly => \A u \in Threads : u # t => pc[u] # "read"
    BY <2>4, OneExchanging DEF Exchanging
  <2> QED BY <2>1, <2>2, <2>3, <2>4, <2>5, <2>6, <2>7
<1>7. ASSUME NEW t \in Threads, GiveUp(t) PROVE WireInv'
  BY <1>7 DEF GiveUp, DeadlineSeen, history, Leave
<1>8. ASSUME NEW t \in Threads, Fail(t) PROVE WireInv'
  <2>1. WireTypes'
    BY <1>8 DEF Fail, wireVars, history
  <2>2. UNCHANGED <<sent, answer, lost, adapter, unread, timedOut, bypassed, closers>>
    BY <1>8 DEF Fail, wireVars, history
  <2>3. \A u \in Threads : u # t => job'[u] = job[u] /\ pc'[u] = pc[u]
    BY <1>8 DEF Fail, Leave
  <2>4. /\ pc'[t] # "read" /\ job'[t] \in {job[t], "none"}
        /\ (openFlag => openFlag' \/ job[t] = "close")
    BY <1>8 DEF Fail, Leave
  <2>5. Orderly /\ pc[t] = "read" => lost
    BY <1>8 DEF Fail, Usable, CloseInv
  <2> QED BY <2>1, <2>2, <2>3, <2>4, <2>5
<1>9. ASSUME NEW t \in Threads,
             TakeClient(t) \/ Disconnect(t) \/ StopLoop(t) \/ ClearBuffer(t)
      PROVE  WireInv'
  BY <1>0, <1>9 DEF TakeClient, Disconnect, StopLoop, ClearBuffer, history, wireVars, OpenInv
<1>10. CASE AdapterAnswers
  <2>1. /\ UNCHANGED <<threadVars, openFlag, lost, written, timedOut, bypassed, closers>>
        /\ adapter # <<>> /\ unread' = Append(unread, Head(adapter))
        /\ adapter' = Tail(adapter)
    BY <1>10 DEF AdapterAnswers, linkVars, history
  <2>2. WireTypes'
    BY <2>1 DEF threadVars
  <2>3. Orderly => \A t \in Threads : pc[t] = "read" =>
                     adapter' = <<>> /\ unread' = <<sent[t]>>
    BY <2>1, OneItem
  <2> QED BY <2>1, <2>2, <2>3 DEF threadVars
<1>11. CASE AdapterGone
  BY <1>11 DEF AdapterGone, threadVars, linkVars, history
<1>12. CASE OnDisconnect
  BY <1>12 DEF OnDisconnect, threadVars, linkVars, wireVars, history
<1>13. CASE UNCHANGED vars
  BY <1>13 DEF vars, threadVars, linkVars, wireVars, history
<1> QED
  BY <1>2, <1>3, <1>4, <1>5, <1>6, <1>7, <1>8, <1>9, <1>10, <1>11, <1>12, <1>13
  DEF Next, Step
\* Types, the lock and the wire: what every state of a session satisfies.
LEMMA SessionInv == Spec => [](LockInv /\ OpenInv /\ CloseInv /\ WireInv)
BY InitInv, LockStep, OpenStep, CloseStep, WireStep, PTL DEF Spec

\* Sharing a session over its lock (interface.py, request): see ExchangesKeepApart.
THEOREM SharingIsSafe == Spec => []ExchangesKeepApart
<1>1. LockInv => RequestsTakeTurns /\ LockFollowsRequest
  BY DEF LockInv, RequestsTakeTurns, LockFollowsRequest
<1>2. WireInv => MatchedUntilTimeout
  BY DEF WireInv, Orderly, MatchedUntilTimeout
<1>3. LockInv /\ WireInv => ExchangesKeepApart
  BY <1>1, <1>2 DEF ExchangesKeepApart
<1> QED BY <1>3, SessionInv, PTL

\* A close by itself leaves nothing of the connection behind (transports, close):
\* see AdapterLetGo.
THEOREM CloseLetsGo == Spec => []AdapterLetGo
<1>1. CloseInv => AdapterLetGo
  BY DEF CloseInv, AdapterLetGo
<1> QED BY <1>1, SessionInv, PTL

------------------------------------------------------------------------------
\* What may be queued or returned after the queue was cleared for request n.
Answers(n, kinds) == [src : Senders, kind : kinds, req : Nat, heardIn : {n}]
Heard(n) == Answers(n, {"pending", "answer"}) \cup [kind : {"flow"}, heardIn : {n}]

CollectTypes ==
  /\ phase \in {"idle", "cleared", "held", "sending", "collecting", "failed"}
  /\ request \in Nat /\ deadline \in Nat /\ waited \in Nat
  /\ settle \in Off..Settle /\ pendingSeen \in 0..(MaxPending + 1)
  /\ promised \in [Senders -> Nat]
  /\ owes \in [Senders -> SUBSET Nat]

\* A new request drops what the last one left.
HeardInv == queue \in Seq(Heard(request)) /\ responses \in Seq(Answers(request, {"answer"}))

\* The time a request may take that has been granted k extensions.
Budget(k) == (k + 1) * Timeout
Granted == IF pendingSeen <= MaxPending THEN pendingSeen ELSE MaxPending

\* What has been waited and what is left of the window come out of the budget.
BudgetInv ==
  /\ phase = "held" => waited + deadline = FlowTimeout
  /\ phase = "sending" => waited <= FlowTimeout /\ (leave = request \/ waited = FlowTimeout)
  /\ phase = "cleared" => waited = 0
  /\ phase = "failed" => waited <= FlowTimeout \/ waited <= Budget(MaxPending)
  /\ phase = "collecting" => waited + deadline <= Budget(Granted)
  /\ phase = "idle" => waited <= Budget(MaxPending)

\* Without an answer there is no settle window, and the deadline covers a full
\* timeout and every window that was promised.
SilenceInv ==
  /\ phase \in {"cleared", "held", "sending"} => \A e \in Senders : promised[e] = 0
  /\ phase = "collecting" /\ responses = <<>> =>
       /\ settle = Off /\ waited + deadline >= Timeout /\ deadline <= Timeout
       /\ \A e \in Senders : promised[e] <= deadline
  /\ EmptyMeansWaitedOut

CollectInv == CollectTypes /\ HeardInv /\ BudgetInv /\ SilenceInv
\* One extension buys one more timeout; a wait within a smaller budget is within
\* a larger one.
LEMMA BudgetGrows ==
  ASSUME NEW k \in Nat
  PROVE  Budget(k) \in Nat /\ Budget(k + 1) = Budget(k) + Timeout
<1>1. (k + 1) * Timeout \in Nat
  BY TimesAssumption
<1>2. ((k + 1) + 1) * Timeout = (k + 1) * Timeout + Timeout
  BY TimesAssumption
<1> QED BY <1>1, <1>2 DEF Budget

\* No request is granted more than MaxPending extensions.
LEMMA GrantedWithin ==
  ASSUME CollectTypes
  PROVE  Granted \in Nat /\ Granted <= MaxPending /\ Budget(Granted) <= Budget(MaxPending)
<1>1. Granted \in Nat /\ Granted <= MaxPending
  BY TimesAssumption DEF CollectTypes, Granted
<1>2. ASSUME NEW k \in Nat, k <= MaxPending PROVE Budget(k) <= Budget(MaxPending)
  BY <1>2, TimesAssumption DEF Budget
<1> QED BY <1>1, <1>2

\* Before the first request nothing is queued, and nothing has been waited.
LEMMA InitCollect == CollectInit => CollectInv
<1> SUFFICES ASSUME CollectInit PROVE CollectInv
  OBVIOUS
<1>1. CollectTypes
  BY TimesAssumption DEF CollectInit, CollectTypes, Off
<1>2. HeardInv
  BY DEF CollectInit, HeardInv
<1>3. BudgetInv
  BY BudgetGrows, TimesAssumption DEF CollectInit, BudgetInv
<1>4. SilenceInv
  BY DEF CollectInit, SilenceInv, EmptyMeansWaitedOut
<1> QED BY <1>1, <1>2, <1>3, <1>4 DEF CollectInv

\* The types hold whatever is done.
LEMMA TypesStep == CollectTypes /\ HeardInv /\ [CollectNext]_collectVars => CollectTypes'
<1> SUFFICES ASSUME CollectTypes, HeardInv, [CollectNext]_collectVars PROVE CollectTypes'
  OBVIOUS
<1> USE TimesAssumption DEF CollectTypes, Off
<1>1. CASE SendRequest
  BY <1>1 DEF SendRequest, Listen
<1>2. CASE Begin \/ CannotSend \/ CollectFails
  BY <1>2 DEF Begin, CannotSend, CollectFails
<1>3. CASE Held \/ SendAnyway
  BY <1>3 DEF Held, SendAnyway
<1>4. CASE SendNext
  BY <1>4 DEF SendNext, Listen
<1>5. CASE Receive
  <2>1. CASE Head(queue).kind = "pending"
    <3>1. Head(queue).src \in Senders
      BY <1>5, <2>1 DEF Receive, HeardInv, Heard, Answers
    <3>2. /\ TakePending(Head(queue).src)
          /\ UNCHANGED <<phase, request, unsent, owes, waited, leave>>
      BY <1>5, <2>1 DEF Receive
    <3>3. promised' \in [Senders -> Nat] /\ deadline' \in Nat /\ settle' \in Off..Settle
      BY <3>1, <3>2 DEF TakePending
    <3>4. pendingSeen' \in 0..(MaxPending + 1)
      BY <3>2 DEF TakePending
    <3> QED BY <3>2, <3>3, <3>4
  <2>2. CASE Head(queue).kind = "answer"
    BY <1>5, <2>2 DEF Receive, TakeAnswer
  <2>3. CASE Head(queue).kind \notin {"pending", "answer"}
    BY <1>5, <2>3 DEF Receive
  <2> QED BY <2>1, <2>2, <2>3
<1>6. CASE Tick
  BY <1>6 DEF Tick, Expired
<1>7. CASE Return \/ FlowControlComes \/ UNCHANGED collectVars
  BY <1>7 DEF Return, FlowControlComes, collectVars
<1>8. ASSUME NEW e \in Senders, EcuAsksForTime(e) \/ EcuAnswers(e) PROVE CollectTypes'
  BY <1>8 DEF EcuAsksForTime, EcuAnswers
<1> QED
  BY <1>1, <1>2, <1>3, <1>4, <1>5, <1>6, <1>7, <1>8 DEF CollectNext

\* What is heard now is heard after the request that is the last one now.
LEMMA ReplyHeard ==
  ASSUME CollectTypes, NEW e \in Senders, NEW r \in owes[e],
         NEW kind \in {"pending", "answer"}
  PROVE  ReplyOf(e, kind, r) \in Heard(request)
BY DEF CollectTypes, ReplyOf, Heard, Answers

\* Only answers are returned, of what was heard since the request.
LEMMA HeardStep == CollectTypes /\ HeardInv /\ [CollectNext]_collectVars => HeardInv'
<1> SUFFICES ASSUME CollectTypes, HeardInv, [CollectNext]_collectVars PROVE HeardInv'
  OBVIOUS
<1>1. CASE Begin
  <2>1. queue' = <<>> /\ responses' = <<>>
    BY <1>1 DEF Begin
  <2> QED BY <2>1 DEF HeardInv
<1>2. CASE SendRequest \/ SendNext \/ CannotSend \/ CollectFails
  <2>1. UNCHANGED <<queue, request>> /\ responses' \in {responses, <<>>}
    BY <1>2 DEF SendRequest, SendNext, CannotSend, CollectFails, Listen
  <2>2. CASE responses' = responses
    BY <2>1, <2>2 DEF HeardInv
  <2>3. CASE responses' = <<>>
    BY <2>1, <2>3 DEF HeardInv
  <2> QED BY <2>1, <2>2, <2>3
<1>3. CASE Held
  <2>1. UNCHANGED <<request, responses>> /\ queue # <<>> /\ queue' = Tail(queue)
    BY <1>3 DEF Held
  <2>2. Tail(queue) \in Seq(Heard(request))
    BY <2>1 DEF HeardInv
  <2> QED BY <2>1, <2>2 DEF HeardInv
<1>4. CASE Receive
  <2>1. UNCHANGED request /\ queue # <<>> /\ queue' = Tail(queue)
    BY <1>4 DEF Receive
  <2>2. Head(queue) \in Heard(request)
    BY <2>1 DEF HeardInv
  <2>3. responses' \in Seq(Answers(request, {"answer"}))
    <3>1. CASE Head(queue).kind = "answer"
      <4>1. Head(queue) \in Answers(request, {"answer"})
        BY <2>2, <3>1 DEF Heard, Answers
      <4>2. responses' = Append(responses, Head(queue))
        BY <1>4, <3>1 DEF Receive, TakeAnswer
      <4> QED BY <4>1, <4>2 DEF HeardInv
    <3>2. CASE Head(queue).kind # "answer"
      BY <1>4, <3>2 DEF Receive, TakePending, HeardInv
    <3> QED BY <3>1, <3>2
  <2> QED BY <2>1, <2>3 DEF HeardInv
<1>5. CASE FlowControlComes
  <2>1. [kind |-> "flow", heardIn |-> request] \in Heard(request)
    BY DEF Heard
  <2> QED BY <1>5, <2>1 DEF FlowControlComes, HeardInv
<1>6. ASSUME NEW e \in Senders, EcuAsksForTime(e) \/ EcuAnswers(e) PROVE HeardInv'
  <2>1. PICK r \in owes[e], kind \in {"pending", "answer"} :
          queue' = Append(queue, ReplyOf(e, kind, r))
    BY <1>6 DEF EcuAsksForTime, EcuAnswers
  <2>2. UNCHANGED <<request, responses>>
    BY <1>6 DEF EcuAsksForTime, EcuAnswers
  <2> QED BY <2>1, <2>2, ReplyHeard DEF HeardInv
<1>7. CASE SendAnyway \/ Return \/ Tick \/ UNCHANGED collectVars
  BY <1>7 DEF SendAnyway, Return, Tick, collectVars, HeardInv
<1> QED
  BY <1>1, <1>2, <1>3, <1>4, <1>5, <1>6, <1>7 DEF CollectNext
\* The clock takes from the window what it adds to the wait, and only an
\* extension that is granted adds a window.
LEMMA BudgetStep == CollectTypes /\ HeardInv /\ BudgetInv /\ [CollectNext]_collectVars => BudgetInv'
<1> SUFFICES ASSUME CollectTypes, HeardInv, BudgetInv, [CollectNext]_collectVars PROVE BudgetInv'
  OBVIOUS
<1> USE TimesAssumption
<1>0. Timeout <= Budget(0) /\ Budget(MaxPending) \in Nat
  BY BudgetGrows DEF Budget
<1>1. CASE SendRequest
  <2>1. PICK n \in Lengths : IF n = 1 THEN Listen
                             ELSE phase' = "held" /\ deadline' = FlowTimeout /\ waited' = 0
    <3>1. waited = 0
      BY <1>1 DEF SendRequest, BudgetInv
    <3>2. UNCHANGED waited \/ waited' = 0
      BY <1>1 DEF SendRequest, Listen
    <3> QED BY <1>1, <3>1, <3>2 DEF SendRequest
  <2>2. CASE n = 1
    <3>1. phase' = "collecting" /\ waited' = 0 /\ deadline' = Timeout /\ pendingSeen' = 0
      BY <2>1, <2>2 DEF Listen
    <3> QED BY <1>0, <3>1 DEF BudgetInv, Granted
  <2>3. CASE n # 1
    <3>1. phase' = "held" /\ deadline' = FlowTimeout /\ waited' = 0
      BY <2>1, <2>3
    <3> QED BY <3>1 DEF BudgetInv
  <2> QED BY <2>2, <2>3
<1>2. CASE Begin \/ CannotSend
  BY <1>0, <1>2 DEF Begin, CannotSend, BudgetInv
<1>11. CASE CollectFails
  <2>1. waited' <= Budget(MaxPending)
    <3>1. waited' = waited /\ waited + deadline <= Budget(Granted)
      BY <1>11 DEF CollectFails, BudgetInv
    <3>2. waited \in Nat /\ deadline \in Nat
      BY DEF CollectTypes
    <3>3. /\ Budget(Granted) \in Nat /\ Budget(MaxPending) \in Nat
          /\ Budget(Granted) <= Budget(MaxPending)
      BY <1>0, GrantedWithin, BudgetGrows
    <3> QED BY <3>1, <3>2, <3>3
  <2> QED BY <1>11, <2>1 DEF CollectFails, BudgetInv
<1>3. CASE Held
  <2>1. queue # <<>> /\ Head(queue).heardIn = request
    BY <1>3 DEF Held, HeardInv, Heard, Answers
  <2> QED BY <1>3, <2>1 DEF Held, CollectTypes, BudgetInv
<1>4. CASE SendAnyway
  BY <1>4 DEF SendAnyway, CollectTypes, BudgetInv
<1>5. CASE SendNext
  <2>1. CASE unsent = 1 /\ Listen
    <3>1. phase' = "collecting" /\ waited' = 0 /\ deadline' = Timeout /\ pendingSeen' = 0
      BY <2>1 DEF Listen
    <3> QED BY <1>0, <3>1 DEF BudgetInv, Granted
  <2>2. CASE phase' \in {"sending", "failed"} /\ UNCHANGED <<waited, leave, request>>
    BY <1>5, <2>2 DEF SendNext, BudgetInv
  <2> QED BY <1>5, <2>1, <2>2 DEF SendNext
<1>6. CASE Receive
  <2>1. phase = "collecting" /\ UNCHANGED <<phase, request, waited, leave>>
    BY <1>6 DEF Receive
  <2>2. CASE TakePending(Head(queue).src) /\ pendingSeen + 1 <= MaxPending
    <3>1. deadline' = Timeout /\ pendingSeen' = pendingSeen + 1
      BY <2>2 DEF TakePending, CollectTypes
    <3>2. Budget(Granted)' = Budget(Granted) + Timeout
      BY <2>2, <3>1, BudgetGrows DEF Granted, CollectTypes
    <3>3. Budget(Granted) \in Nat
      BY GrantedWithin, BudgetGrows
    <3>4. waited + deadline <= Budget(Granted)
      BY <2>1 DEF BudgetInv
    <3>5. waited' + deadline' <= Budget(Granted)'
      BY <2>1, <3>1, <3>2, <3>3, <3>4 DEF CollectTypes
    <3> QED BY <2>1, <3>5 DEF BudgetInv
  <2>3. CASE deadline' = deadline /\ (pendingSeen' = pendingSeen \/
                                     (pendingSeen >= MaxPending /\ pendingSeen' \in Nat
                                        /\ pendingSeen' >= MaxPending))
    <3>1. Granted' = Granted
      BY <2>3 DEF Granted, CollectTypes
    <3> QED BY <2>1, <2>3, <3>1 DEF BudgetInv
  <2>4. ASSUME TakePending(Head(queue).src), ~ (pendingSeen + 1 <= MaxPending)
        PROVE  deadline' = deadline /\ pendingSeen >= MaxPending /\ pendingSeen' \in Nat
               /\ pendingSeen' >= MaxPending
    BY <2>4 DEF TakePending, CollectTypes
  <2> QED BY <1>6, <2>2, <2>3, <2>4 DEF Receive, TakeAnswer
<1>7. CASE Return
  <2>1. waited <= Budget(Granted)
    BY <1>7, GrantedWithin, BudgetGrows DEF Return, BudgetInv, CollectTypes
  <2> QED BY <1>7, <2>1, GrantedWithin, BudgetGrows DEF Return, BudgetInv, CollectTypes
<1>8. CASE Tick
  <2>1. deadline' = deadline - 1 /\ waited' = waited + 1 /\ UNCHANGED <<phase, pendingSeen>>
    BY <1>8 DEF Tick
  <2>2. phase \in {"collecting", "held"} /\ Granted' = Granted
    BY <1>8, <2>1 DEF Tick, Granted
  <2>3. Budget(Granted) \in Nat
    BY GrantedWithin, BudgetGrows
  <2> QED BY <2>1, <2>2, <2>3 DEF BudgetInv, CollectTypes
<1>9. CASE FlowControlComes \/ UNCHANGED collectVars
  BY <1>9 DEF FlowControlComes, collectVars, BudgetInv, Granted
<1>10. ASSUME NEW e \in Senders, EcuAsksForTime(e) \/ EcuAnswers(e) PROVE BudgetInv'
  BY <1>10 DEF EcuAsksForTime, EcuAnswers, BudgetInv, Granted
<1> QED
  BY <1>1, <1>2, <1>3, <1>4, <1>5, <1>6, <1>7, <1>8, <1>9, <1>10, <1>11 DEF CollectNext

\* An answer ends the silence; until there is one, only the deadline can end the
\* wait, and whoever asked for time is still within it.
LEMMA SilenceStep ==
  CollectTypes /\ HeardInv /\ SilenceInv /\ [CollectNext]_collectVars => SilenceInv'
<1> SUFFICES ASSUME CollectTypes, HeardInv, SilenceInv, [CollectNext]_collectVars PROVE SilenceInv'
  OBVIOUS
<1> USE TimesAssumption DEF SilenceInv, EmptyMeansWaitedOut
<1>1. CASE SendRequest
  BY <1>1 DEF SendRequest, Listen, Off
<1>2. CASE Begin \/ CannotSend \/ CollectFails
  BY <1>2 DEF Begin, CannotSend, CollectFails
<1>3. CASE Held \/ SendAnyway
  BY <1>3 DEF Held, SendAnyway
<1>4. CASE SendNext
  BY <1>4 DEF SendNext, Listen
<1>5. CASE Receive
  <2>1. /\ phase = "collecting" /\ UNCHANGED <<phase, waited>>
        /\ Head(queue) \in Heard(request)
    BY <1>5 DEF Receive, HeardInv
  <2>2. CASE Head(queue).kind = "pending"
    <3>1. TakePending(Head(queue).src)
      BY <1>5, <2>2 DEF Receive
    <3>2. CASE pendingSeen + 1 <= MaxPending
      <4>1. /\ deadline' = Timeout /\ settle' = Off /\ UNCHANGED responses
            /\ promised' = [promised EXCEPT ![Head(queue).src] = Timeout]
        BY <3>1, <3>2 DEF TakePending
      <4> QED BY <2>1, <4>1 DEF CollectTypes
    <3>3. CASE ~ (pendingSeen + 1 <= MaxPending)
      BY <2>1, <3>1, <3>3 DEF TakePending
    <3> QED BY <3>2, <3>3
  <2>3. CASE Head(queue).kind = "answer"
    <3>1. /\ responses' = Append(responses, Head(queue))
          /\ Head(queue) \in Answers(request, {"answer"})
      BY <1>5, <2>1, <2>3 DEF Receive, TakeAnswer, Heard, Answers
    <3>2. responses' # <<>>
      BY <3>1 DEF HeardInv
    <3> QED BY <2>1, <3>2
  <2>4. CASE Head(queue).kind \notin {"pending", "answer"}
    BY <1>5, <2>1, <2>4 DEF Receive
  <2> QED BY <2>2, <2>3, <2>4
<1>6. CASE Return
  BY <1>6 DEF Return, Expired, Off, CollectTypes
<1>7. CASE Tick
  BY <1>7 DEF Tick, Expired, Off, CollectTypes
<1>8. CASE FlowControlComes \/ UNCHANGED collectVars
  BY <1>8 DEF FlowControlComes, collectVars
<1>9. ASSUME NEW e \in Senders, EcuAsksForTime(e) \/ EcuAnswers(e) PROVE SilenceInv'
  BY <1>9 DEF EcuAsksForTime, EcuAnswers
<1> QED
  BY <1>1, <1>2, <1>3, <1>4, <1>5, <1>6, <1>7, <1>8, <1>9 DEF CollectNext

\* What every state of a session satisfies.
LEMMA CollectInvariant == CollectSpec => []CollectInv
<1>1. CollectInv /\ [CollectNext]_collectVars => CollectInv'
  BY TypesStep, HeardStep, BudgetStep, SilenceStep DEF CollectInv
<1> QED BY <1>1, InitCollect, PTL DEF CollectSpec

\* _collect and _await_flow_control come back in bounded time, whatever the ECUs
\* ask for: see WaitIsBounded.
THEOREM WaitEnds == CollectSpec => []WaitIsBounded
<1>1. CollectInv => WaitIsBounded
  <2> SUFFICES ASSUME CollectInv PROVE WaitIsBounded
    OBVIOUS
  <2>1. CASE phase \in {"held", "sending", "cleared", "failed"}
    BY <2>1, BudgetGrows, TimesAssumption
       DEF CollectInv, CollectTypes, BudgetInv, WaitIsBounded, Budget
  <2>2. CASE phase \in {"idle", "collecting"}
    <3>1. waited <= Budget(MaxPending)
      BY <2>2, GrantedWithin, BudgetGrows, TimesAssumption
         DEF CollectInv, CollectTypes, BudgetInv
    <3> QED BY <2>2, <3>1 DEF WaitIsBounded, Budget
  <2> QED BY <2>1, <2>2 DEF CollectInv, CollectTypes
<1> QED BY <1>1, CollectInvariant, PTL

\* What _request returns means what it says: see AnswerIsHonest.
THEOREM AnswersAreHonest == CollectSpec => []AnswerIsHonest
<1>1. CollectInv => RepliesHeardSinceCleared
  <2> SUFFICES ASSUME CollectInv, NEW i \in DOMAIN responses
               PROVE  responses[i].heardIn = request /\ responses[i].kind = "answer"
    BY DEF RepliesHeardSinceCleared
  <2>1. responses[i] \in Answers(request, {"answer"})
    BY DEF CollectInv, HeardInv
  <2> QED BY <2>1 DEF Answers
<1>2. CollectInv => EmptyMeansWaitedOut /\ RestGoesOnLeave
  BY DEF CollectInv, SilenceInv, BudgetInv, RestGoesOnLeave
<1> QED BY <1>1, <1>2, CollectInvariant, PTL DEF AnswerIsHonest

------------------------------------------------------------------------------
\* What can be believed of an answer, however late: it is an ECU's, of this vehicle.
Honest(r) ==
  /\ r.ecu \in Ecus /\ r.of \in EcuState
  /\ r.of.pids = car[r.ecu].pids /\ r.of.diesel = car[r.ecu].diesel
  /\ r.mode = 1 => r.pid = 0 \/ r.pid \in r.of.pids

VehicleInv ==
  /\ car \in [Ecus -> EcuState] /\ \A e \in Ecus : Announced(car[e].pids)
  /\ \A r \in late : Honest(r)
  /\ gaps \in BOOLEAN

\* Where a call can be; nothing has been returned yet.
Places ==
  {<<"supported", "walk">>, <<"identify", "walk">>, <<"identify", "vin">>, <<"vin", "vin">>,
   <<"text", "text">>, <<"pid", "ask">>, <<"freeze", "trigger">>, <<"freeze", "walk">>,
   <<"freeze", "values">>, <<"readiness", "status">>, <<"readiness", "ignition">>,
   <<"dtcs", "ask">>, <<"clear", "send">>}

CallInv ==
  \/ call = Idle
  \/ /\ result.op = "none" /\ DOMAIN call = {"op", "at", "arg"}
     /\ <<call.op, call.at>> \in Places
     /\ call.op = "readiness" => call.arg \in {PidStatus, PidThisCycle}
     /\ call.op = "dtcs" => call.arg \in {3, 7, 10}

\* A walk has claimed nothing false, and missed nothing before the block it is at.
Covers(e, b) == {0} \cup {p \in car[e].pids : p <= b} \subseteq PidsOf(found, e)

WalkInv ==
  call.at = "walk" =>
    /\ base \in SupportPids \cup {0} /\ DOMAIN found \subseteq Ecus
    /\ \A e \in DOMAIN found : found[e] \subseteq Nat
    /\ call.op # "freeze" => \A e \in DOMAIN found : found[e] \subseteq Truth(e)
    /\ ~ gaps /\ base # 0 => \A e \in Ecus : Covers(e, base)

TriggerInv == call.at = "trigger" => base = 0 /\ found = Nobody

\* The readings of a freeze frame so far, those of the ECUs that hold one.
HeldInv == \A e \in DOMAIN held : \A v \in held[e] : v.of = <<2, v.pid, v.frame>>

Reads(e, p) == \E v \in held[e] : v.pid = p /\ v.ecu = e

FrozenInv ==
  call.at \in {"walk", "values"} /\ call.op = "freeze" =>
    /\ HeldInv
    /\ ~ gaps => \A e \in Ecus : car[e].frozen => e \in DOMAIN held

ValuesInv ==
  call.at = "values" =>
    /\ base \in Nat /\ \A e \in DOMAIN found : found[e] \subseteq Nat
    /\ ~ gaps => \A e \in Ecus : car[e].pids \subseteq PidsOf(found, e)
    /\ ~ gaps => \A e \in DOMAIN held \cap Ecus, p \in Wanted :
                   p < base /\ p \in car[e].pids => Reads(e, p)

\* The answers that wait for the engine's controller to name their monitors.
AllAnswered(R, pid) ==
  \A e \in Ecus : pid \in car[e].pids => \E r \in R : r.ecu = e /\ r.of = car[e]

IgnitionInv ==
  call.at = "ignition" =>
    /\ answers # {}
    /\ \A r \in answers : r.pid = call.arg
    /\ ~ gaps => AllAnswered(answers, call.arg)

SupportedInv == \A e \in DOMAIN supported : e \in Ecus /\ supported[e] \subseteq Truth(e)

\* The induction hypothesis.
ObdInv ==
  /\ VehicleInv /\ CallInv /\ WalkInv /\ TriggerInv /\ FrozenInv /\ ValuesInv /\ IgnitionInv
  /\ SupportedInv /\ DiscoveryExact /\ ReadingsBelong /\ ReadinessRight /\ DtcsAsSent

\* The parts of an ECU's state that the calls look at.
LEMMA StateTypes ==
  ASSUME NEW s \in EcuState
  PROVE  /\ s.pids \subseteq Nat \ {0} /\ s.diesel \in BOOLEAN /\ s.counts \in BOOLEAN
         /\ s.dtcs \in [{3, 7, 10} -> Seq(Code)] /\ s.padding \in Seq({0})
BY DEF EcuState

\* A reply is honest when it is sent.
LEMMA RepliesHonest ==
  ASSUME car \in [Ecus -> EcuState], NEW q, NEW r \in Replies(q)
  PROVE  /\ Honest(r) /\ r.mode = q.mode /\ r.pid = q.pid /\ r.frame = q.frame
         /\ r.of = car[r.ecu]
<1>1. PICK e \in Ecus : Implements(e, q) /\ r = Reply(e, q)
  BY DEF Replies
<1>2. /\ r.ecu = e /\ r.mode = q.mode /\ r.pid = q.pid /\ r.frame = q.frame /\ r.of = car[e]
  BY <1>1 DEF Reply
<1>3. q.mode = 1 => q.pid = 0 \/ q.pid \in car[e].pids
  BY <1>1 DEF Implements
<1> QED BY <1>2, <1>3 DEF Honest

\* What is heard of a request: answers of this vehicle, late ones included; and if none
\* was lost, those of every ECU that has what is asked for.
LEMMA HeardOfRequest ==
  ASSUME VehicleInv, NEW q, NEW R \in SUBSET (Replies(q) \cup late), Hears(q, R), car' = car
  PROVE  /\ VehicleInv'
         /\ \A r \in R : Honest(r)
         /\ \A r \in Kept(q, R) : /\ r \in R /\ Honest(r)
                                  /\ r.mode = q.mode /\ r.pid = q.pid /\ r.frame = q.frame
         /\ ~ gaps' => /\ ~ gaps
                       /\ \A e \in Ecus : Implements(e, q) =>
                            \E r \in Kept(q, R) : r.ecu = e /\ r.of = car[e]
<1>1. \A r \in Replies(q) \cup late : Honest(r)
  BY RepliesHonest DEF VehicleInv
<1>2. late' \subseteq Replies(q) \cup late /\ gaps' = (gaps \/ ~ Replies(q) \subseteq R)
  BY DEF Hears
<1>3. VehicleInv'
  <2>1. \A r \in late' : Honest(r)
    BY <1>1, <1>2
  <2> QED BY <1>2, <2>1 DEF VehicleInv, Honest
<1>4. \A r \in Kept(q, R) : /\ r \in R /\ r.mode = q.mode /\ r.pid = q.pid /\ r.frame = q.frame
  BY DEF Kept, Positive, Echoes
<1>5. ASSUME ~ gaps', NEW e \in Ecus, Implements(e, q)
      PROVE  \E r \in Kept(q, R) : r.ecu = e /\ r.of = car[e]
  <2>1. Reply(e, q) \in Replies(q)
    BY <1>5 DEF Replies
  <2>2. Reply(e, q) \in R
    BY <1>2, <1>5, <2>1
  <2>3. Reply(e, q) \in Kept(q, R)
    BY <2>1, <2>2, RepliesHonest DEF Kept, Positive, Echoes, VehicleInv
  <2>4. Reply(e, q).ecu = e /\ Reply(e, q).of = car[e]
    BY DEF Reply
  <2> QED BY <2>3, <2>4
<1> QED BY <1>1, <1>2, <1>3, <1>4, <1>5

\* A call that has returned, or has failed, leaves nothing under way.
LEMMA Ended ==
  ASSUME VehicleInv', call' = Idle, SupportedInv',
         DiscoveryExact', ReadingsBelong', ReadinessRight', DtcsAsSent'
  PROVE  ObdInv'
<1>1. call'.at = "idle" /\ call'.op = "idle"
  BY DEF Idle
<1> QED BY <1>1 DEF ObdInv, CallInv, WalkInv, TriggerInv, FrozenInv, ValuesInv, IgnitionInv

\* What is claimed of a result is claimed of a call of one name each.
LEMMA ClaimsNothing ==
  ASSUME SupportedInv'
  PROVE  /\ result'.op # "supported" => DiscoveryExact'
         /\ result'.op \notin {"pid", "freeze"} => ReadingsBelong'
         /\ result'.op # "readiness" => ReadinessRight'
         /\ result'.op # "dtcs" => DtcsAsSent'
BY DEF SupportedInv, DiscoveryExact, ReadingsBelong, ReadinessRight, DtcsAsSent

\* A call begins.
LEMMA CallBegins ==
  ASSUME ObdInv, NEW op, NEW at, NEW arg, Call(op, at, arg), <<op, at>> \in Places,
         op = "readiness" => arg \in {PidStatus, PidThisCycle},
         op = "dtcs" => arg \in {3, 7, 10},
         at \notin {"values", "ignition"}, op = "freeze" => at = "trigger"
  PROVE  ObdInv'
<1>1. /\ call' = [op |-> op, at |-> at, arg |-> arg]
      /\ base' = 0 /\ found' = Nobody /\ gaps' = FALSE /\ result' = NoResult
      /\ car' = car /\ late' = late /\ supported' = supported
  BY DEF Call
<1>2. call'.op = op /\ call'.at = at /\ call'.arg = arg /\ DOMAIN call' = {"op", "at", "arg"}
  BY <1>1
<1>3. VehicleInv' /\ SupportedInv'
  BY <1>1 DEF ObdInv, VehicleInv, SupportedInv, Honest, Truth
<1>4. result'.op = "none"
  BY <1>1 DEF NoResult
<1>5. CallInv'
  BY <1>2, <1>4 DEF CallInv
<1>6. WalkInv' /\ TriggerInv'
  BY <1>1 DEF WalkInv, TriggerInv, Nobody
<1> QED BY <1>2, <1>3, <1>4, <1>5, <1>6, ClaimsNothing
        DEF ObdInv, FrozenInv, ValuesInv, IgnitionInv

\* One block of a walk: what it adds is true, and when nothing was lost it covers one
\* block more, or all there is if no ECU says that there is more.
LEMMA BlockWalked ==
  ASSUME VehicleInv, WalkInv, call.at = "walk", NEW mode \in {1, 2}, NEW frame,
         NEW q, q = Q(mode, base, frame),
         NEW R \in SUBSET (Replies(q) \cup late), Hears(q, R), car' = car,
         found' = Found(base, Kept(q, R)), mode = 1 => call.op # "freeze"
  PROVE  /\ DOMAIN found' \subseteq Ecus
         /\ \A e \in DOMAIN found' : found'[e] \subseteq Nat
         /\ mode = 1 => \A e \in DOMAIN found' : found'[e] \subseteq Truth(e)
         /\ ~ gaps' => \A e \in Ecus :
              {0} \cup {p \in car[e].pids : p <= base + BlockSize} \subseteq PidsOf(found', e)
         /\ ~ gaps' /\ ~ (Continues(base, Kept(q, R)) /\ base + BlockSize \in SupportPids) =>
              \A e \in Ecus : {0} \cup car[e].pids \subseteq PidsOf(found', e)
<1> DEFINE K == Kept(q, R)
           Adds(e) == UNION {{base} \cup Mask(r, base) : r \in {r \in K : r.ecu = e}}
<1>1. /\ \A r \in K : /\ r \in R /\ Honest(r)
                      /\ r.mode = q.mode /\ r.pid = q.pid /\ r.frame = q.frame
      /\ ~ gaps' => /\ ~ gaps
                    /\ \A e \in Ecus : Implements(e, q) => \E r \in K : r.ecu = e /\ r.of = car[e]
  BY HeardOfRequest
<1>2. q.mode = mode /\ q.pid = base
  BY DEF Q
<1>3. /\ base \in SupportPids \cup {0} /\ base \in Nat /\ BlockSize \in Nat \ {0}
      /\ \A e \in Ecus : car[e].pids \subseteq Nat \ {0}
  <2>1. base \in SupportPids \cup {0} /\ SupportPids \subseteq Nat
    BY CarsAssumption DEF WalkInv
  <2>2. \A e \in Ecus : car[e] \in EcuState
    BY DEF VehicleInv
  <2>3. \A e \in Ecus : car[e].pids \subseteq Nat \ {0}
    BY <2>2, StateTypes
  <2> QED BY <2>1, <2>3, BoundsAssumption
<1>4. ASSUME NEW e \in Ecus, NEW b \in SupportPids \cup {0}, NEW p \in car[e].pids
       PROVE  /\ 0 < b /\ b < p => b \in car[e].pids
              /\ b + BlockSize < p => b + BlockSize \in SupportPids
  BY DEF VehicleInv, Announced
<1>5. \A r \in K : /\ r.ecu \in Ecus /\ r.of.pids = car[r.ecu].pids
                   /\ mode = 1 => base = 0 \/ base \in car[r.ecu].pids
                   /\ Mask(r, base) \subseteq car[r.ecu].pids
  BY <1>1, <1>2 DEF Honest, Mask
<1>6. /\ DOMAIN found' = DOMAIN found \cup {r.ecu : r \in K}
      /\ \A e \in DOMAIN found' : found'[e] = PidsOf(found, e) \cup Adds(e)
  BY DEF Found
<1>7. \A e \in DOMAIN found' : Adds(e) \subseteq {base} \cup car[e].pids
  BY <1>5
<1>8. \A e \in DOMAIN found' : mode = 1 => Adds(e) \subseteq Truth(e)
  <2> SUFFICES ASSUME NEW e \in DOMAIN found', mode = 1, NEW p \in Adds(e) PROVE p \in Truth(e)
    OBVIOUS
  <2>1. PICK r \in K : r.ecu = e /\ p \in {base} \cup Mask(r, base)
    OBVIOUS
  <2> QED BY <1>5, <2>1 DEF Truth
<1>9. DOMAIN found' \subseteq Ecus
  BY <1>5, <1>6 DEF WalkInv
<1>10. \A e \in DOMAIN found' : PidsOf(found, e) \subseteq Nat
  BY DEF WalkInv, PidsOf
<1>11. \A e \in DOMAIN found' : mode = 1 => PidsOf(found, e) \subseteq Truth(e)
  BY DEF WalkInv, PidsOf
<1>12. ASSUME ~ gaps', NEW e \in Ecus, Implements(e, q)
       PROVE  /\ \E r \in K : r.ecu = e /\ r.of = car[e]
              /\ e \in DOMAIN found' /\ base \in found'[e]
              /\ \A p \in car[e].pids : base < p /\ p <= base + BlockSize => p \in found'[e]
  <2>1. PICK r \in K : r.ecu = e /\ r.of = car[e]
    BY <1>1, <1>12
  <2>2. {base} \cup Mask(r, base) \subseteq Adds(e)
    BY <2>1
  <2>3. \A p \in car[e].pids : base < p /\ p <= base + BlockSize => p \in Mask(r, base)
    BY <2>1 DEF Mask
  <2>4. e \in DOMAIN found'
    BY <1>6, <2>1
  <2> HIDE DEF Adds, K
  <2> QED BY <1>6, <2>1, <2>2, <2>3, <2>4
<1>13. ASSUME NEW e \in Ecus, base = 0 \/ base \in car[e].pids PROVE Implements(e, q)
  BY <1>2, <1>13 DEF Implements
<1> HIDE DEF Adds, K
<1>14. ASSUME ~ gaps', NEW e \in Ecus
       PROVE  {0} \cup {p \in car[e].pids : p <= base + BlockSize} \subseteq PidsOf(found', e)
  <2>1. CASE base = 0
    <3>1. e \in DOMAIN found' /\ 0 \in found'[e]
      BY <1>12, <1>13, <1>14, <2>1
    <3>2. \A p \in car[e].pids : p <= base + BlockSize => p \in found'[e]
      BY <1>3, <1>12, <1>13, <1>14, <2>1
    <3> QED BY <3>1, <3>2 DEF PidsOf
  <2>2. CASE base # 0
    <3>1. {0} \cup {p \in car[e].pids : p <= base} \subseteq PidsOf(found, e)
      BY <1>1, <1>14, <2>2 DEF WalkInv, Covers
    <3>2. e \in DOMAIN found'
      BY <1>6, <3>1 DEF PidsOf
    <3>3. {0} \cup {p \in car[e].pids : p <= base} \subseteq found'[e]
      BY <1>6, <3>1, <3>2
    <3>4. ASSUME NEW p \in car[e].pids, base < p, p <= base + BlockSize PROVE p \in found'[e]
      <4>1. base \in car[e].pids
        BY <1>3, <1>4, <2>2, <3>4
      <4> QED BY <1>12, <1>13, <1>14, <3>4, <4>1
    <3>5. \A p \in car[e].pids : p <= base + BlockSize => p \in found'[e]
      BY <1>3, <3>3, <3>4
    <3> QED BY <3>2, <3>3, <3>5 DEF PidsOf
  <2> QED BY <2>1, <2>2
<1>15. ASSUME ~ gaps', NEW e \in Ecus, NEW p \in car[e].pids, base + BlockSize < p
       PROVE  Continues(base, K) /\ base + BlockSize \in SupportPids
  <2>1. base + BlockSize \in SupportPids /\ base + BlockSize \in Nat
    BY <1>3, <1>15, <1>4
  <2>2. base = 0 \/ base \in car[e].pids
    BY <1>3, <1>15, <1>4
  <2>3. base + BlockSize = 0 \/ base + BlockSize \in car[e].pids
    BY <1>3, <1>15, <1>4, <2>1
  <2>4. PICK r \in K : r.ecu = e /\ r.of = car[e]
    BY <1>12, <1>13, <1>15, <2>2
  <2>5. base + BlockSize \in Mask(r, base)
    BY <1>3, <2>3, <2>4 DEF Mask
  <2> QED BY <2>1, <2>4, <2>5 DEF Continues
<1>16. ASSUME ~ gaps', ~ (Continues(base, K) /\ base + BlockSize \in SupportPids), NEW e \in Ecus
       PROVE  {0} \cup car[e].pids \subseteq PidsOf(found', e)
  <2>1. \A p \in car[e].pids : p <= base + BlockSize
    BY <1>3, <1>15, <1>16
  <2> QED BY <1>14, <1>16, <2>1
<1>17. \A e \in DOMAIN found' : found'[e] \subseteq Nat
  BY <1>3, <1>6, <1>7, <1>9, <1>10
<1>18. mode = 1 => \A e \in DOMAIN found' : found'[e] \subseteq Truth(e)
  BY <1>6, <1>8, <1>11
<1> QED BY <1>9, <1>14, <1>16, <1>17, <1>18 DEF K

\* A walk goes on to the next block.
LEMMA WalkGoesOn ==
  ASSUME ObdInv, call.at = "walk", NEW mode \in {1, 2}, NEW frame,
         NEW q, q = Q(mode, base, frame),
         NEW R \in SUBSET (Replies(q) \cup late), Hears(q, R),
         found' = Found(base, Kept(q, R)), mode = 1 => call.op # "freeze",
         mode = 2 => call.op = "freeze",
         base + BlockSize \in SupportPids, base' = base + BlockSize,
         UNCHANGED <<call, result, supported, car, held, answers>>
  PROVE  ObdInv'
<1>1. /\ DOMAIN found' \subseteq Ecus
      /\ \A e \in DOMAIN found' : found'[e] \subseteq Nat
      /\ mode = 1 => \A e \in DOMAIN found' : found'[e] \subseteq Truth(e)
      /\ ~ gaps' => \A e \in Ecus :
           {0} \cup {p \in car[e].pids : p <= base + BlockSize} \subseteq PidsOf(found', e)
  BY BlockWalked DEF ObdInv
<1>2. VehicleInv' /\ (~ gaps' => ~ gaps)
  BY HeardOfRequest DEF ObdInv
<1>3. result'.op = "none" /\ call # Idle /\ CallInv'
  BY DEF ObdInv, CallInv, Idle
<1>4. WalkInv'
  BY <1>1 DEF WalkInv, Covers, Truth
<1>5. FrozenInv'
  BY <1>2 DEF ObdInv, FrozenInv, HeldInv
<1>6. ValuesInv' /\ IgnitionInv' /\ TriggerInv'
  BY DEF ValuesInv, IgnitionInv, TriggerInv
<1>7. SupportedInv'
  BY DEF ObdInv, SupportedInv, Truth
<1> QED BY <1>2, <1>3, <1>4, <1>5, <1>6, <1>7, ClaimsNothing DEF ObdInv

\* supported_pids: the walk of mode 01, which the client keeps and returns.
LEMMA DiscoverKeeps == ASSUME ObdInv, Discover PROVE ObdInv'
<1> DEFINE q == Q(1, base, 0)
<1>1. call.op = "supported" /\ call.at = "walk"
  BY DEF Discover, ObdInv, CallInv, Idle, Places
<1>2. PICK R \in SUBSET (Replies(q) \cup late) :
        /\ Hears(q, R) /\ found' = Found(base, Kept(q, R))
        /\ IF Continues(base, Kept(q, R)) /\ base + BlockSize \in SupportPids
           THEN base' = base + BlockSize /\ UNCHANGED <<call, result, supported>>
           ELSE supported' = found' /\ Returns(found') /\ UNCHANGED base
        /\ UNCHANGED <<car, held, answers, calls, cleared>>
  BY DEF Discover, Walk
<1>3. CASE Continues(base, Kept(q, R)) /\ base + BlockSize \in SupportPids
  BY <1>1, <1>2, <1>3, WalkGoesOn
<1>4. CASE ~ (Continues(base, Kept(q, R)) /\ base + BlockSize \in SupportPids)
  <2>1. /\ supported' = found' /\ call' = Idle /\ car' = car
        /\ result' = [op |-> "supported", value |-> found']
    BY <1>1, <1>2, <1>4 DEF Returns
  <2>2. /\ DOMAIN found' \subseteq Ecus
        /\ \A e \in DOMAIN found' : found'[e] \subseteq Truth(e)
        /\ ~ gaps' => \A e \in Ecus : {0} \cup car[e].pids \subseteq PidsOf(found', e)
    BY <1>1, <1>2, <1>4, BlockWalked DEF ObdInv
  <2>3. VehicleInv'
    BY <1>2, HeardOfRequest DEF ObdInv
  <2>4. SupportedInv' /\ \A e \in DOMAIN supported' : supported'[e] \subseteq Truth(e)'
    BY <2>1, <2>2 DEF SupportedInv, Truth
  <2>5. ASSUME ~ gaps' PROVE found' = [e \in Ecus |-> Truth(e)]
    <3>1. \A e \in Ecus : e \in DOMAIN found' /\ found'[e] = Truth(e)
      BY <2>2, <2>5 DEF PidsOf, Truth
    <3>2. found' = [e \in DOMAIN found' |-> found'[e]]
      BY <1>2 DEF Found
    <3> QED BY <2>2, <3>1, <3>2
  <2>6. ASSUME ~ gaps' PROVE result'.value = [e \in Ecus |-> Truth(e)']
    BY <2>1, <2>5, <2>6 DEF Truth
  <2>7. DiscoveryExact'
    BY <2>4, <2>6 DEF DiscoveryExact
  <2> QED BY <2>1, <2>3, <2>4, <2>7, Ended, ClaimsNothing
<1> QED BY <1>3, <1>4

\* identify: the same walk, and then the VIN.
LEMMA DiscoverFirstKeeps == ASSUME ObdInv, DiscoverFirst PROVE ObdInv'
<1> DEFINE q == Q(1, base, 0)
<1>1. /\ call.op = "identify" /\ call.at = "walk" /\ result.op = "none"
      /\ DOMAIN call = {"op", "at", "arg"}
  BY DEF DiscoverFirst, ObdInv, CallInv, Idle
<1>2. PICK R \in SUBSET (Replies(q) \cup late) :
        /\ Hears(q, R) /\ found' = Found(base, Kept(q, R))
        /\ IF Continues(base, Kept(q, R)) /\ base + BlockSize \in SupportPids
           THEN base' = base + BlockSize /\ UNCHANGED <<call, result, supported>>
           ELSE supported' = found' /\ MovesTo("vin") /\ UNCHANGED <<base, result>>
        /\ UNCHANGED <<car, held, answers, calls, cleared>>
  BY DEF DiscoverFirst, Walk
<1>3. CASE Continues(base, Kept(q, R)) /\ base + BlockSize \in SupportPids
  BY <1>1, <1>2, <1>3, WalkGoesOn
<1>4. CASE ~ (Continues(base, Kept(q, R)) /\ base + BlockSize \in SupportPids)
  <2>1. supported' = found' /\ call' = [call EXCEPT !.at = "vin"] /\ result' = result /\ car' = car
    BY <1>2, <1>4 DEF MovesTo
  <2>2. call'.op = "identify" /\ call'.at = "vin" /\ DOMAIN call' = {"op", "at", "arg"}
    BY <1>1, <2>1
  <2>3. /\ DOMAIN found' \subseteq Ecus
        /\ \A e \in DOMAIN found' : found'[e] \subseteq Truth(e)
    BY <1>1, <1>2, BlockWalked DEF ObdInv
  <2>4. VehicleInv'
    BY <1>2, HeardOfRequest DEF ObdInv
  <2>5. SupportedInv'
    BY <2>1, <2>3 DEF SupportedInv, Truth
  <2>6. CallInv'
    BY <1>1, <2>1, <2>2 DEF CallInv, Places
  <2>7. WalkInv' /\ FrozenInv' /\ ValuesInv' /\ IgnitionInv' /\ TriggerInv'
    BY <2>2 DEF WalkInv, FrozenInv, ValuesInv, IgnitionInv, TriggerInv
  <2> QED BY <1>1, <2>1, <2>4, <2>5, <2>6, <2>7, ClaimsNothing DEF ObdInv
<1> QED BY <1>3, <1>4

\* The trigger: which ECUs hold a freeze frame.
LEMMA AskTriggerKeeps == ASSUME ObdInv, AskTrigger PROVE ObdInv'
<1> DEFINE q == Q(2, PidFreezeDtc, call.arg)
           H(R) == {r.ecu : r \in {r \in Kept(q, R) : r.of.frozen}}
<1>1. /\ call.op = "freeze" /\ call.at = "trigger" /\ result.op = "none"
      /\ DOMAIN call = {"op", "at", "arg"}
  BY DEF AskTrigger, ObdInv, CallInv, Idle, Places
<1>2. PICK R \in SUBSET (Replies(q) \cup late) :
        /\ Hears(q, R) /\ held' = [e \in H(R) |-> {}]
        /\ IF H(R) = {} THEN Returns({}) ELSE MovesTo("walk") /\ UNCHANGED result
  BY DEF AskTrigger
<1>3. UNCHANGED <<car, base, found, answers, supported, calls, cleared>>
  BY DEF AskTrigger
<1>4. /\ VehicleInv'
      /\ ~ gaps' => /\ ~ gaps
                    /\ \A e \in Ecus : Implements(e, q) =>
                         \E r \in Kept(q, R) : r.ecu = e /\ r.of = car[e]
  BY <1>2, <1>3, HeardOfRequest DEF ObdInv
<1>5. SupportedInv'
  BY <1>3 DEF ObdInv, SupportedInv, Truth
<1>6. ~ gaps' => \A e \in Ecus : car[e].frozen => e \in H(R)
  <2>1. \A e \in Ecus : Implements(e, q)
    BY DEF Implements, Q
  <2> QED BY <1>4, <2>1
<1> HIDE DEF H
<1>7. CASE H(R) = {}
  <2>1. call' = Idle /\ result' = [op |-> "freeze", value |-> {}]
    BY <1>1, <1>2, <1>7 DEF Returns
  <2>2. ReadingsBelong'
    BY <1>3, <1>6, <1>7, <2>1 DEF ReadingsBelong
  <2> QED BY <1>4, <1>5, <2>1, <2>2, Ended, ClaimsNothing
<1>8. CASE H(R) # {}
  <2>1. call' = [call EXCEPT !.at = "walk"] /\ result' = result
    BY <1>2, <1>8 DEF MovesTo
  <2>2. call'.op = "freeze" /\ call'.at = "walk" /\ DOMAIN call' = {"op", "at", "arg"}
    BY <1>1, <2>1
  <2>3. base' = 0 /\ found' = Nobody
    BY <1>1, <1>3 DEF ObdInv, TriggerInv
  <2>4. CallInv'
    BY <1>1, <2>1, <2>2 DEF CallInv, Places
  <2>5. WalkInv'
    BY <2>2, <2>3 DEF WalkInv, Nobody
  <2>6. FrozenInv'
    BY <1>2, <1>3, <1>6 DEF FrozenInv, HeldInv
  <2>7. ValuesInv' /\ IgnitionInv' /\ TriggerInv'
    BY <2>2 DEF ValuesInv, IgnitionInv, TriggerInv
  <2> QED BY <1>1, <1>4, <1>5, <2>1, <2>4, <2>5, <2>6, <2>7, ClaimsNothing DEF ObdInv
<1> QED BY <1>7, <1>8

\* The PIDs the frames say they captured, and then their values from the first on.
LEMMA WalkFrozenKeeps == ASSUME ObdInv, WalkFrozen PROVE ObdInv'
<1> DEFINE q == Q(2, base, call.arg)
<1>1. /\ call.op = "freeze" /\ call.at = "walk" /\ result.op = "none"
      /\ DOMAIN call = {"op", "at", "arg"}
  BY DEF WalkFrozen, ObdInv, CallInv, Idle
<1>2. PICK R \in SUBSET (Replies(q) \cup late) :
        /\ Hears(q, R) /\ found' = Found(base, Kept(q, R))
        /\ IF Continues(base, Kept(q, R)) /\ base + BlockSize \in SupportPids
           THEN base' = base + BlockSize /\ UNCHANGED <<call, result, supported>>
           ELSE MovesTo("values") /\ base' = 1 /\ UNCHANGED <<supported, result>>
        /\ UNCHANGED <<car, held, answers, calls, cleared>>
  BY DEF WalkFrozen, Walk
<1>3. CASE Continues(base, Kept(q, R)) /\ base + BlockSize \in SupportPids
  BY <1>1, <1>2, <1>3, WalkGoesOn
<1>4. CASE ~ (Continues(base, Kept(q, R)) /\ base + BlockSize \in SupportPids)
  <2>1. /\ call' = [call EXCEPT !.at = "values"] /\ base' = 1 /\ car' = car /\ held' = held
        /\ supported' = supported /\ result' = result
    BY <1>2, <1>4 DEF MovesTo
  <2>2. call'.op = "freeze" /\ call'.at = "values" /\ DOMAIN call' = {"op", "at", "arg"}
    BY <1>1, <2>1
  <2>3. /\ DOMAIN found' \subseteq Ecus
        /\ \A e \in DOMAIN found' : found'[e] \subseteq Nat
        /\ ~ gaps' => \A e \in Ecus : {0} \cup car[e].pids \subseteq PidsOf(found', e)
    BY <1>1, <1>2, <1>4, BlockWalked DEF ObdInv
  <2>4. VehicleInv' /\ (~ gaps' => ~ gaps)
    BY <1>2, HeardOfRequest DEF ObdInv
  <2>5. SupportedInv'
    BY <2>1 DEF ObdInv, SupportedInv, Truth
  <2>6. CallInv'
    BY <1>1, <2>1, <2>2 DEF CallInv, Places
  <2>7. FrozenInv'
    BY <1>1, <2>1, <2>4 DEF ObdInv, FrozenInv, HeldInv
  <2>8. \A e \in Ecus : car[e].pids \subseteq Nat \ {0}
    BY StateTypes DEF ObdInv, VehicleInv
  <2>9. ValuesInv'
    <3>1. \A e \in Ecus : \A p \in car[e].pids : ~ (p < 1)
      BY <2>8
    <3> QED BY <2>1, <2>3, <3>1 DEF ValuesInv
  <2>10. WalkInv' /\ IgnitionInv' /\ TriggerInv'
    BY <2>2 DEF WalkInv, IgnitionInv, TriggerInv
  <2> QED BY <1>1, <2>1, <2>4, <2>5, <2>6, <2>7, <2>9, <2>10, ClaimsNothing DEF ObdInv
<1> QED BY <1>3, <1>4

\* The values, one PID of every frame at a time.
LEMMA AskFrozenKeeps == ASSUME ObdInv, AskFrozen PROVE ObdInv'
<1> DEFINE Left == {p \in Wanted : p >= base}
<1>1. /\ call.op = "freeze" /\ call.at = "values" /\ result.op = "none"
      /\ DOMAIN call = {"op", "at", "arg"}
      /\ UNCHANGED <<car, found, answers, supported, calls, cleared>>
  BY DEF AskFrozen, ObdInv, CallInv, Idle, Places
<1>2. SupportedInv'
  BY <1>1 DEF ObdInv, SupportedInv, Truth
<1>3. /\ base \in Nat /\ Wanted \subseteq Nat
      /\ \A e \in Ecus : car[e].pids \subseteq Nat \ {0}
  <2>1. base \in Nat /\ \A e \in DOMAIN found : found[e] \subseteq Nat
    BY <1>1 DEF ObdInv, ValuesInv
  <2>2. Wanted \subseteq Nat
    BY <2>1 DEF Wanted, PidsOf
  <2>3. \A e \in Ecus : car[e].pids \subseteq Nat \ {0}
    BY StateTypes DEF ObdInv, VehicleInv
  <2> QED BY <2>1, <2>2, <2>3
<1>4. /\ HeldInv
      /\ ~ gaps => /\ \A e \in Ecus : car[e].frozen => e \in DOMAIN held
                   /\ \A e \in Ecus : car[e].pids \subseteq PidsOf(found, e)
                   /\ \A e \in DOMAIN held \cap Ecus, p \in Wanted :
                        p < base /\ p \in car[e].pids => Reads(e, p)
  BY <1>1 DEF ObdInv, FrozenInv, ValuesInv
<1>5. ASSUME Left = {}, Returns(UNION {held[e] : e \in DOMAIN held}),
             UNCHANGED <<base, held, late, gaps>>
      PROVE  ObdInv'
  <2>1. /\ call' = Idle
        /\ result' = [op |-> "freeze", value |-> UNION {held[e] : e \in DOMAIN held}]
    BY <1>1, <1>5 DEF Returns
  <2>2. VehicleInv'
    BY <1>1, <1>5 DEF ObdInv, VehicleInv, Honest
  <2>3. \A v \in result'.value : v.of = <<2, v.pid, v.frame>>
    BY <1>4, <2>1 DEF HeldInv
  <2>4. ASSUME ~ gaps, NEW e \in Ecus, car[e].frozen,
               NEW p \in car[e].pids, p % BlockSize # 0, p # PidFreezeDtc
        PROVE  \E v \in result'.value : v.ecu = e /\ v.pid = p
    <3>1. e \in DOMAIN held /\ p \in PidsOf(found, e)
      BY <1>4, <2>4
    <3>2. p \in Wanted
      BY <2>4, <3>1 DEF Wanted
    <3>3. p < base
      BY <1>3, <1>5, <3>2
    <3>4. Reads(e, p)
      BY <1>4, <2>4, <3>1, <3>2, <3>3
    <3> QED BY <2>1, <3>1, <3>4 DEF Reads
  <2>5. ~ gaps => \A e \in Ecus : car[e].frozen =>
          {p \in car[e].pids : p % BlockSize # 0 /\ p # PidFreezeDtc}
            \subseteq {v.pid : v \in {v \in result'.value : v.ecu = e}}
    BY <2>4
  <2>6. ReadingsBelong'
    BY <1>1, <1>5, <2>1, <2>3, <2>5 DEF ReadingsBelong
  <2> QED BY <1>2, <2>1, <2>2, <2>6, Ended, ClaimsNothing
<1>6. ASSUME NEW p \in Left, \A o \in Left : p <= o,
             NEW q, q = Q(2, p, call.arg), NEW R \in SUBSET (Replies(q) \cup late),
             Hears(q, R),
             held' = [e \in DOMAIN held |->
                       held[e] \cup {Reading(r, q) : r \in {r \in Kept(q, R) : r.ecu = e}}],
             base' = p + 1, UNCHANGED <<call, result>>
      PROVE  ObdInv'
  <2>1. q.mode = 2 /\ q.pid = p /\ q.frame = call.arg
    BY <1>6 DEF Q
  <2>2. /\ VehicleInv'
        /\ \A r \in Kept(q, R) : r.mode = 2 /\ r.pid = p /\ r.frame = q.frame
        /\ ~ gaps' => /\ ~ gaps
                      /\ \A e \in Ecus : Implements(e, q) =>
                           \E r \in Kept(q, R) : r.ecu = e /\ r.of = car[e]
    BY <1>1, <1>6, <2>1, HeardOfRequest DEF ObdInv
  <2>3. /\ DOMAIN held' = DOMAIN held
        /\ \A e \in DOMAIN held : /\ held[e] \subseteq held'[e]
                                  /\ \A r \in Kept(q, R) : r.ecu = e => Reading(r, q) \in held'[e]
    BY <1>6
  <2>4. HeldInv'
    <3> SUFFICES ASSUME NEW e \in DOMAIN held, NEW v \in held'[e]
                 PROVE  v.of = <<2, v.pid, v.frame>>
      BY <2>3 DEF HeldInv
    <3>1. CASE v \in held[e]
      BY <1>4, <3>1 DEF HeldInv
    <3>2. CASE \E r \in Kept(q, R) : v = Reading(r, q)
      BY <2>1, <2>2, <3>2 DEF Reading
    <3> QED BY <1>6, <3>1, <3>2
  <2>5. FrozenInv'
    BY <1>1, <1>4, <2>2, <2>3, <2>4 DEF FrozenInv
  <2>6. ASSUME ~ gaps', NEW e \in DOMAIN held \cap Ecus, NEW w \in Wanted, w < p + 1,
               w \in car[e].pids
        PROVE  \E v \in held'[e] : v.pid = w /\ v.ecu = e
    <3>1. CASE w < base
      <4>1. Reads(e, w)
        BY <1>4, <2>2, <2>6, <3>1
      <4> QED BY <2>3, <4>1 DEF Reads
    <3>2. CASE w >= base
      <4>1. w = p
        BY <1>3, <1>6, <2>6, <3>2
      <4>2. Implements(e, q)
        BY <2>1, <2>6, <4>1 DEF Implements
      <4>3. PICK r \in Kept(q, R) : r.ecu = e
        BY <2>2, <2>6, <4>2
      <4>4. Reading(r, q).pid = p /\ Reading(r, q).ecu = e
        BY <2>1, <4>3 DEF Reading
      <4> QED BY <2>3, <4>1, <4>3, <4>4
    <3>3. w \in Nat
      BY <1>3
    <3> QED BY <1>3, <3>1, <3>2, <3>3
  <2>7. Wanted' = Wanted
    BY <1>1, <2>3 DEF Wanted, PidsOf
  <2>8. p \in Nat
    BY <1>3
  <2>9. ValuesInv'
    <3>1. /\ base' \in Nat /\ \A e \in DOMAIN found : found[e] \subseteq Nat
      BY <1>1, <1>6, <2>8 DEF ObdInv, ValuesInv
    <3>2. ~ gaps' => \A e \in Ecus : car[e].pids \subseteq PidsOf(found, e)
      BY <1>4, <2>2
    <3>3. ~ gaps' => \A e \in DOMAIN held' \cap Ecus, w \in Wanted :
                       w < base' /\ w \in car[e].pids => Reads(e, w)'
      BY <1>6, <2>3, <2>6 DEF Reads
    <3> QED BY <1>1, <2>7, <3>1, <3>2, <3>3 DEF ValuesInv, PidsOf
  <2>10. WalkInv' /\ TriggerInv' /\ IgnitionInv' /\ CallInv'
    BY <1>1, <1>6 DEF WalkInv, TriggerInv, IgnitionInv, ObdInv, CallInv, Idle
  <2> QED BY <1>1, <1>2, <1>6, <2>2, <2>5, <2>9, <2>10, ClaimsNothing DEF ObdInv
<1>7. \/ /\ Left = {} /\ Returns(UNION {held[e] : e \in DOMAIN held})
         /\ UNCHANGED <<base, held, late, gaps>>
      \/ \E p \in Left : /\ \A o \in Left : p <= o
           /\ LET q == Q(2, p, call.arg) IN
              \E R \in SUBSET (Replies(q) \cup late) :
                /\ Hears(q, R)
                /\ held' = [e \in DOMAIN held |->
                              held[e] \cup {Reading(r, q) : r \in {r \in Kept(q, R) : r.ecu = e}}]
           /\ base' = p + 1
           /\ UNCHANGED <<call, result>>
  BY DEF AskFrozen
<1> HIDE DEF Left
<1> QED BY <1>5, <1>6, <1>7

\* The monitors told of are those of the names chosen, and one that is told to be complete
\* is so in every answer that has it.
LEMMA CombinedRight ==
  ASSUME NEW A, A # {}, NEW compression \in BOOLEAN
  PROVE  /\ {v.name : v \in Combined(A, compression)} =
              ToSet(IF compression THEN CompressionNames ELSE SparkNames)
         /\ \A v \in Combined(A, compression), i \in 1..2 :
              v.name \in {SparkNames[i], CompressionNames[i]} /\ v.status = "complete" =>
                \A r \in A : i \in r.of.monitors => i \in r.of.complete
<1> DEFINE names == IF compression THEN CompressionNames ELSE SparkNames
           Told(r, i) == [name |-> names[i], has |-> i \in r.of.monitors,
                          done |-> i \in r.of.complete]
           Says == {Told(r, i) : r \in A, i \in 1..2}
           Status(n) == IF ~ \E s \in Says : s.name = n /\ s.has THEN "not_available"
                        ELSE IF \A s \in Says : s.name = n /\ s.has => s.done THEN "complete"
                        ELSE "incomplete"
           Line(n) == [name |-> n, status |-> Status(n)]
<1>1. Combined(A, compression) = {Line(n) : n \in {s.name : s \in Says}}
  BY DEF Combined, Names
<1>2. \A r, i : /\ Told(r, i).name = names[i] /\ Told(r, i).has = (i \in r.of.monitors)
                /\ Told(r, i).done = (i \in r.of.complete)
  OBVIOUS
<1>3. \A n : Line(n).name = n /\ Line(n).status = Status(n)
  OBVIOUS
<1>4. ToSet(names) = {names[1], names[2]} /\ names[1] # names[2]
  BY DEF ToSet, SparkNames, CompressionNames
<1> HIDE DEF Told, Status
<1>5. {s.name : s \in Says} = {names[1], names[2]}
  <2>1. \A s \in Says : s.name \in {names[1], names[2]}
    BY <1>2
  <2>2. PICK r \in A : TRUE
    OBVIOUS
  <2>3. Told(r, 1) \in Says /\ Told(r, 2) \in Says
    BY <2>2
  <2>4. Told(r, 1).name = names[1] /\ Told(r, 2).name = names[2]
    BY <1>2
  <2> HIDE DEF Says, names
  <2> QED BY <2>1, <2>3, <2>4
<1> HIDE DEF Says, Line, names
<1>6. {v.name : v \in Combined(A, compression)} = {s.name : s \in Says}
  <2>1. \A v \in Combined(A, compression) : v.name \in {s.name : s \in Says}
    BY <1>1, <1>3
  <2>2. \A n \in {s.name : s \in Says} : Line(n) \in Combined(A, compression)
    BY <1>1
  <2> QED BY <1>3, <2>1, <2>2
<1>7. ASSUME NEW v \in Combined(A, compression), NEW i \in 1..2, v.status = "complete",
             v.name \in {SparkNames[i], CompressionNames[i]},
             NEW r \in A, i \in r.of.monitors
      PROVE  i \in r.of.complete
  <2>1. PICK n \in {names[1], names[2]} : v = Line(n)
    BY <1>1, <1>5, <1>7
  <2>2. v.name = n /\ Status(n) = "complete"
    BY <1>3, <1>7, <2>1
  <2>3. n = names[i]
    BY <1>7, <2>1, <2>2 DEF names, SparkNames, CompressionNames
  <2>4. Told(r, i) \in Says
    BY <1>7 DEF Says
  <2>5. Told(r, i).name = n /\ Told(r, i).has
    BY <1>2, <1>7, <2>3
  <2>6. \A s \in Says : s.name = n /\ s.has => s.done
    BY <2>2, <2>4, <2>5 DEF Status
  <2>7. Told(r, i).done
    BY <2>4, <2>5, <2>6
  <2> QED BY <1>2, <2>7
<1> QED BY <1>4, <1>5, <1>6, <1>7 DEF names

\* What is returned of answers that leave no ECU out.
LEMMA ReadinessTold ==
  ASSUME car' = car, NEW A, answers' = A, A # {}, NEW pid, NEW compression \in BOOLEAN,
         \A r \in A : r.pid = pid,
         result' = [op |-> "readiness", value |-> Combined(A, compression)],
         ~ gaps' => /\ AllAnswered(A, pid)
                    /\ (\E e \in Ecus : PidStatus \in car[e].pids /\ car[e].diesel) => compression
                    /\ (\A e \in Ecus : ~ car[e].diesel) => ~ compression
  PROVE  ReadinessRight'
<1>1. result'.value = Combined(A, compression)
  OBVIOUS
<1>2. ASSUME ~ gaps', NEW v \in Combined(A, compression), NEW i \in 1..2,
             v.name \in {SparkNames[i], CompressionNames[i]}, v.status = "complete",
             NEW r \in A, NEW e \in Ecus, r.pid \in car[e].pids, i \in car[e].monitors
      PROVE  i \in car[e].complete
  <2>1. PICK s \in A : s.of = car[e]
    BY <1>2 DEF AllAnswered
  <2>2. i \in s.of.monitors => i \in s.of.complete
    BY <1>2, <2>1, CombinedRight
  <2> QED BY <1>2, <2>1, <2>2
<1> QED BY <1>1, <1>2, CombinedRight DEF ReadinessRight

\* read_readiness, when the answer says enough by itself, and when the engine is asked.
LEMMA AskStatusKeeps == ASSUME ObdInv, AskStatus PROVE ObdInv'
<1> DEFINE q == Q(1, call.arg, 0)
<1>1. /\ call.op = "readiness" /\ call.at = "status" /\ result.op = "none"
      /\ DOMAIN call = {"op", "at", "arg"} /\ call.arg \in {PidStatus, PidThisCycle}
      /\ UNCHANGED <<car, base, found, held, supported, calls, cleared>>
  BY DEF AskStatus, ObdInv, CallInv, Idle, Places
<1>2. PICK R \in SUBSET (Replies(q) \cup late) :
        /\ Hears(q, R) /\ answers' = Kept(q, R)
        /\ IF Kept(q, R) = {} THEN Returns({})
           ELSE IF (\E r \in Kept(q, R) : SaysDiesel(r)) \/ call.arg = PidStatus
           THEN Returns(Combined(Kept(q, R), \E r \in Kept(q, R) : SaysDiesel(r)))
           ELSE MovesTo("ignition") /\ UNCHANGED result
  BY DEF AskStatus
<1> DEFINE A == Kept(q, R)
           diesel == \E r \in A : SaysDiesel(r)
<1>3. q.mode = 1 /\ q.pid = call.arg
  BY DEF Q
<1>4. /\ VehicleInv'
      /\ \A r \in A : Honest(r) /\ r.mode = 1 /\ r.pid = call.arg
      /\ ~ gaps' => AllAnswered(A, call.arg)
  <2>1. /\ VehicleInv'
        /\ \A r \in A : Honest(r) /\ r.mode = q.mode /\ r.pid = q.pid
        /\ ~ gaps' => \A e \in Ecus : Implements(e, q) => \E r \in A : r.ecu = e /\ r.of = car[e]
    BY <1>1, <1>2, HeardOfRequest DEF ObdInv
  <2>2. \A e \in Ecus : call.arg \in car[e].pids => Implements(e, q)
    BY <1>3 DEF Implements
  <2> QED BY <1>3, <2>1, <2>2 DEF AllAnswered
<1>5. SupportedInv'
  BY <1>1 DEF ObdInv, SupportedInv, Truth
<1>6. (\A e \in Ecus : ~ car[e].diesel) => ~ diesel
  BY <1>4 DEF Honest, SaysDiesel
<1>7. ASSUME call.arg = PidStatus, ~ gaps',
             NEW e \in Ecus, PidStatus \in car[e].pids, car[e].diesel
      PROVE  diesel
  <2>1. PICK r \in A : r.of = car[e]
    BY <1>4, <1>7 DEF AllAnswered
  <2> QED BY <1>4, <1>7, <2>1, CarsAssumption DEF SaysDiesel
<1>8. CASE A = {}
  <2>1. call' = Idle /\ result' = [op |-> "readiness", value |-> {}]
    BY <1>1, <1>2, <1>8 DEF Returns
  <2>2. ReadinessRight'
    BY <2>1 DEF ReadinessRight
  <2> QED BY <1>4, <1>5, <2>1, <2>2, Ended, ClaimsNothing
<1>9. CASE A # {} /\ (diesel \/ call.arg = PidStatus)
  <2>1. call' = Idle /\ result' = [op |-> "readiness", value |-> Combined(A, diesel)]
    BY <1>1, <1>2, <1>9 DEF Returns
  <2>2. diesel \in BOOLEAN /\ answers' = A /\ car' = car
    BY <1>1, <1>2
  <2>3. (\E e \in Ecus : PidStatus \in car[e].pids /\ car[e].diesel) /\ ~ gaps' => diesel
    BY <1>7, <1>9
  <2> HIDE DEF diesel, A
  <2>4. ReadinessRight'
    BY <1>4, <1>6, <1>9, <2>1, <2>2, <2>3, ReadinessTold
  <2> QED BY <1>4, <1>5, <2>1, <2>4, Ended, ClaimsNothing
<1>10. CASE A # {} /\ ~ (diesel \/ call.arg = PidStatus)
  <2>1. call' = [call EXCEPT !.at = "ignition"] /\ result' = result /\ answers' = A /\ car' = car
    BY <1>1, <1>2, <1>10 DEF MovesTo
  <2>2. /\ call'.op = "readiness" /\ call'.at = "ignition" /\ call'.arg = call.arg
        /\ DOMAIN call' = {"op", "at", "arg"}
    BY <1>1, <2>1
  <2>3. CallInv'
    BY <1>1, <2>1, <2>2 DEF CallInv, Places
  <2> HIDE DEF A
  <2>4. IgnitionInv'
    BY <1>4, <1>10, <2>1, <2>2 DEF IgnitionInv, AllAnswered
  <2>5. WalkInv' /\ TriggerInv' /\ FrozenInv' /\ ValuesInv'
    BY <2>2 DEF WalkInv, TriggerInv, FrozenInv, ValuesInv
  <2> QED BY <1>1, <1>4, <1>5, <2>1, <2>3, <2>4, <2>5, ClaimsNothing DEF ObdInv
<1> QED BY <1>8, <1>9, <1>10

\* The engine's controller is asked, for the names of the monitors.
LEMMA AskIgnitionKeeps == ASSUME ObdInv, AskIgnition PROVE ObdInv'
<1> DEFINE q == Q(1, PidStatus, 0)
<1>1. /\ call.op = "readiness" /\ call.at = "ignition"
      /\ UNCHANGED <<car, base, found, held, answers, supported, calls, cleared>>
  BY DEF AskIgnition, ObdInv, CallInv, Idle, Places
<1>2. PICK R \in SUBSET (Replies(q) \cup late) :
        Hears(q, R) /\ Returns(Combined(answers, \E r \in Kept(q, R) : SaysDiesel(r)))
  BY DEF AskIgnition
<1> DEFINE diesel == \E r \in Kept(q, R) : SaysDiesel(r)
<1>3. call' = Idle /\ result' = [op |-> "readiness", value |-> Combined(answers, diesel)]
  BY <1>1, <1>2 DEF Returns
<1>4. q.mode = 1 /\ q.pid = PidStatus
  BY DEF Q
<1>5. /\ VehicleInv'
      /\ \A r \in Kept(q, R) : Honest(r) /\ r.mode = q.mode /\ r.pid = q.pid
      /\ ~ gaps' => /\ ~ gaps
                    /\ \A e \in Ecus : Implements(e, q) =>
                         \E r \in Kept(q, R) : r.ecu = e /\ r.of = car[e]
  BY <1>1, <1>2, HeardOfRequest DEF ObdInv
<1>6. SupportedInv'
  BY <1>1 DEF ObdInv, SupportedInv, Truth
<1>7. (\A e \in Ecus : ~ car[e].diesel) => ~ diesel
  BY <1>5 DEF Honest, SaysDiesel
<1>8. ASSUME ~ gaps', NEW e \in Ecus, PidStatus \in car[e].pids, car[e].diesel PROVE diesel
  <2>1. Implements(e, q)
    BY <1>4, <1>8 DEF Implements
  <2>2. PICK r \in Kept(q, R) : r.of = car[e]
    BY <1>5, <1>8, <2>1
  <2> QED BY <1>4, <1>5, <1>8, <2>2, CarsAssumption DEF SaysDiesel
<1>9. /\ answers # {} /\ \A r \in answers : r.pid = call.arg
      /\ ~ gaps' => AllAnswered(answers, call.arg)
  BY <1>1, <1>5 DEF ObdInv, IgnitionInv
<1>10. diesel \in BOOLEAN
  OBVIOUS
<1>11. (\E e \in Ecus : PidStatus \in car[e].pids /\ car[e].diesel) /\ ~ gaps' => diesel
  BY <1>8
<1> HIDE DEF diesel
<1>12. ReadinessRight'
  BY <1>1, <1>3, <1>7, <1>9, <1>10, <1>11, ReadinessTold
<1> QED BY <1>3, <1>5, <1>6, <1>12, Ended, ClaimsNothing

\* A message after another.
LEMMA Joined ==
  ASSUME NEW s \in Seq(Nat), NEW t \in Seq(Nat), NEW u, u = s \o t
  PROVE  /\ u \in Seq(Nat) /\ Len(s) \in Nat /\ Len(t) \in Nat
         /\ Len(u) = Len(s) + Len(t)
         /\ \A i \in 1..Len(s) : u[i] = s[i]
         /\ \A i \in 1..Len(t) : u[Len(s) + i] = t[i]
OBVIOUS

\* A message without its first byte, and without what is beyond its n-th after that.
LEMMA AfterFirst ==
  ASSUME NEW s \in Seq(Nat), NEW n \in Nat, n + 1 <= Len(s), NEW u, u = SubSeq(s, 2, n + 1)
  PROVE  /\ u \in Seq(Nat) /\ Len(u) = n
         /\ \A i \in 1..n : u[i] = s[i + 1]
OBVIOUS

\* The bytes of some codes, one after the other.
LEMMA BytesOfCodes ==
  ASSUME NEW codes \in Seq(Code)
  PROVE  /\ Len(codes) \in Nat /\ Bytes(codes) \in Seq(Nat)
         /\ Len(Bytes(codes)) = 2 * Len(codes)
         /\ \A j \in 1..Len(codes) : /\ codes[j] \in Code
                                     /\ Bytes(codes)[2 * j - 1] = codes[j][1]
                                     /\ Bytes(codes)[2 * j] = codes[j][2]
<1>1. Len(codes) \in Nat /\ \A j \in 1..Len(codes) : codes[j] \in Code
  OBVIOUS
<1>2. Bytes(codes) = [i \in 1..(2 * Len(codes)) |-> codes[(i + 1) \div 2][2 - (i % 2)]]
  BY DEF Bytes
<1>3. ASSUME NEW j \in 1..Len(codes)
      PROVE  /\ Bytes(codes)[2 * j - 1] = codes[j][1]
             /\ Bytes(codes)[2 * j] = codes[j][2]
  <2>1. /\ 2 * j - 1 \in 1..(2 * Len(codes)) /\ 2 * j \in 1..(2 * Len(codes))
        /\ (2 * j - 1 + 1) \div 2 = j /\ 2 - ((2 * j - 1) % 2) = 1
        /\ (2 * j + 1) \div 2 = j /\ 2 - ((2 * j) % 2) = 2
    BY <1>1
  <2> QED BY <1>2, <2>1
<1>4. PICK b : b = Bytes(codes)
  OBVIOUS
<1>5. DOMAIN b = 1..(2 * Len(codes)) /\ 2 * Len(codes) \in Nat /\ b = [i \in DOMAIN b |-> b[i]]
  BY <1>1, <1>2, <1>4
<1>6. ASSUME NEW i \in 1..(2 * Len(codes)) PROVE b[i] \in Nat
  <2>1. PICK j \in 1..Len(codes) : i = 2 * j - 1 \/ i = 2 * j
    <3>1. (i + 1) \div 2 \in 1..Len(codes)
      BY <1>1
    <3>2. i = 2 * ((i + 1) \div 2) - 1 \/ i = 2 * ((i + 1) \div 2)
      BY <1>1
    <3> QED BY <3>1, <3>2
  <2>2. codes[j][1] \in Nat /\ codes[j][2] \in Nat
    <3>1. codes[j] \in Byte \X Byte
      BY <1>1 DEF Code
    <3>2. codes[j][1] \in Byte /\ codes[j][2] \in Byte
      BY <3>1
    <3>3. Byte \subseteq Nat
      BY DEF Byte
    <3> QED BY <3>2, <3>3
  <2> QED BY <1>3, <1>4, <2>1, <2>2
<1>7. b \in Seq(Nat) /\ Len(b) = 2 * Len(codes)
  BY <1>5, <1>6
<1> QED BY <1>1, <1>3, <1>4, <1>7

\* Codes followed by nothing but zeros are read back.
LEMMA WordsReadBack ==
  ASSUME NEW codes \in Seq(Code), NEW data \in Seq(Nat),
         2 * Len(codes) <= Len(data),
         \A i \in 1..(2 * Len(codes)) : data[i] = Bytes(codes)[i],
         \A i \in (2 * Len(codes) + 1)..Len(data) : data[i] = 0
  PROVE  Words(data) = ToSet(codes)
<1>1. Len(data) \in Nat /\ Len(codes) \in Nat
  OBVIOUS
<1> DEFINE n == Len(codes)
           m == Len(data) \div 2
<1>2. m \in Nat /\ n <= m /\ 2 * m <= Len(data)
  BY <1>1
<1>3. DOMAIN Pairs(data) = 1..m /\ \A i \in 1..m : Pairs(data)[i] = <<data[2 * i - 1], data[2 * i]>>
  BY DEF Pairs
<1>4. ASSUME NEW i \in 1..n PROVE Pairs(data)[i] = codes[i] /\ codes[i] # <<0, 0>>
  <2>1. i \in 1..m /\ 2 * i - 1 \in 1..(2 * n) /\ 2 * i \in 1..(2 * n)
    BY <1>1, <1>2
  <2>2. data[2 * i - 1] = Bytes(codes)[2 * i - 1] /\ data[2 * i] = Bytes(codes)[2 * i]
    BY <2>1
  <2>3. /\ Bytes(codes)[2 * i - 1] = codes[i][1] /\ Bytes(codes)[2 * i] = codes[i][2]
        /\ codes[i] \in Code
    <3>1. i \in 1..Len(codes)
      OBVIOUS
    <3> QED BY <3>1, BytesOfCodes
  <2>4. codes[i] = <<codes[i][1], codes[i][2]>>
    BY <2>3 DEF Code
  <2> QED BY <1>3, <2>1, <2>2, <2>3, <2>4 DEF Code
<1>5. ASSUME NEW i \in 1..m, ~ (i \in 1..n) PROVE Pairs(data)[i] = <<0, 0>>
  <2>1. 2 * i - 1 \in (2 * n + 1)..Len(data) /\ 2 * i \in (2 * n + 1)..Len(data)
    BY <1>1, <1>2, <1>5
  <2> QED BY <1>3, <2>1
<1>6. Words(data) = {w \in {Pairs(data)[i] : i \in 1..m} : w # <<0, 0>>}
  BY <1>3 DEF Words
<1>7. \A i \in 1..n : i \in 1..m
  BY <1>1, <1>2
<1>8. ToSet(codes) = {codes[i] : i \in 1..n}
  BY DEF ToSet
<1> HIDE DEF m, n
<1> QED BY <1>4, <1>5, <1>6, <1>7, <1>8

\* What an ECU sent is what is parsed, however it counts and pads.
LEMMA ParsedAsSent ==
  ASSUME NEW r, r.of \in EcuState, r.mode \in {3, 7, 10}, r.of.counts \/ ~ Counts(Payload(r))
  PROVE  ParseDtcPayload(Payload(r)) = ToSet(r.of.dtcs[r.mode])
<1> DEFINE codes == r.of.dtcs[r.mode]
           zeros == r.of.padding
           data == Payload(r)
<1>1. codes \in Seq(Code) /\ zeros \in Seq({0})
  BY StateTypes
<1> HIDE DEF codes, zeros
<1>2. /\ Len(codes) \in Nat /\ Bytes(codes) \in Seq(Nat) /\ Len(Bytes(codes)) = 2 * Len(codes)
      /\ zeros \in Seq(Nat) /\ Len(zeros) \in Nat /\ \A i \in 1..Len(zeros) : zeros[i] = 0
  <2>1. zeros \in Seq(Nat) /\ \A i \in 1..Len(zeros) : zeros[i] = 0
    BY <1>1
  <2> QED BY <1>1, <2>1, BytesOfCodes
<1>3. CASE r.of.counts
  <2>1. data = <<Len(codes)>> \o Bytes(codes) \o zeros
    BY <1>3 DEF Payload, codes, zeros
  <2>2. /\ data \in Seq(Nat) /\ Len(data) = 1 + 2 * Len(codes) + Len(zeros)
        /\ data[1] = Len(codes)
        /\ \A i \in 1..(2 * Len(codes)) : data[i + 1] = Bytes(codes)[i]
        /\ \A i \in (2 * Len(codes) + 2)..Len(data) : data[i] = 0
    <3>1. <<Len(codes)>> \in Seq(Nat) /\ Len(<<Len(codes)>>) = 1 /\ <<Len(codes)>>[1] = Len(codes)
      BY <1>2
    <3>2. PICK c : c = <<Len(codes)>>
      OBVIOUS
    <3>3. PICK s : s = c \o Bytes(codes)
      OBVIOUS
    <3>4. /\ s \in Seq(Nat) /\ Len(s) = 1 + 2 * Len(codes) /\ s[1] = Len(codes)
          /\ \A i \in 1..(2 * Len(codes)) : s[1 + i] = Bytes(codes)[i]
      <4>1. c \in Seq(Nat) /\ Bytes(codes) \in Seq(Nat)
        BY <1>2, <3>1, <3>2
      <4>2. /\ s \in Seq(Nat) /\ Len(s) = Len(c) + Len(Bytes(codes))
            /\ \A i \in 1..Len(c) : s[i] = c[i]
            /\ \A i \in 1..Len(Bytes(codes)) : s[Len(c) + i] = Bytes(codes)[i]
        BY <3>3, <4>1, Joined
      <4>3. Len(c) = 1 /\ c[1] = Len(codes) /\ Len(Bytes(codes)) = 2 * Len(codes)
        BY <1>2, <3>1, <3>2
      <4> QED BY <4>2, <4>3
    <3>5. data = s \o zeros
      BY <2>1, <3>2, <3>3
    <3> HIDE DEF data
    <3>6. /\ data \in Seq(Nat) /\ Len(data) = Len(s) + Len(zeros)
          /\ \A i \in 1..Len(s) : data[i] = s[i]
          /\ \A i \in 1..Len(zeros) : data[Len(s) + i] = zeros[i]
      <4>1. s \in Seq(Nat) /\ zeros \in Seq(Nat)
        BY <1>2, <3>4
      <4> QED BY <3>5, <4>1, Joined
    <3>7. \A i \in 1..(2 * Len(codes)) : data[i + 1] = Bytes(codes)[i]
      <4> TAKE i \in 1..(2 * Len(codes))
      <4>1. 1 + i \in 1..Len(s) /\ i + 1 = 1 + i
        BY <1>2, <3>4
      <4> QED BY <3>4, <3>6, <4>1
    <3>8. \A i \in (2 * Len(codes) + 2)..Len(data) : data[i] = 0
      <4> TAKE i \in (2 * Len(codes) + 2)..Len(data)
      <4>1. PICK j \in 1..Len(zeros) : i = Len(s) + j
        <5>1. i - Len(s) \in 1..Len(zeros) /\ i = Len(s) + (i - Len(s))
          BY <1>2, <3>4, <3>6
        <5> QED BY <5>1
      <4> QED BY <1>2, <3>6, <4>1
    <3> QED BY <1>2, <3>4, <3>6, <3>7, <3>8
  <2> HIDE DEF data
  <2>3. Counts(data)
    <3>1. data # <<>>
      BY <1>2, <2>2
    <3> QED BY <1>2, <2>2, <3>1 DEF Counts
  <2>4. ParseDtcPayload(data) = Words(SubSeq(data, 2, 2 * Len(codes) + 1))
    BY <2>2, <2>3 DEF ParseDtcPayload
  <2>5. PICK d : d = SubSeq(data, 2, 2 * Len(codes) + 1)
    OBVIOUS
  <2>6. /\ d \in Seq(Nat) /\ Len(d) = 2 * Len(codes)
        /\ \A i \in 1..(2 * Len(codes)) : d[i] = data[i + 1]
    <3>1. /\ data \in Seq(Nat) /\ 2 * Len(codes) \in Nat /\ 2 * Len(codes) + 1 <= Len(data)
      BY <1>2, <2>2
    <3> QED BY <2>5, <3>1, AfterFirst
  <2>7. Words(d) = ToSet(codes)
    <3>1. \A i \in 1..(2 * Len(codes)) : d[i] = Bytes(codes)[i]
      BY <2>2, <2>6
    <3>2. /\ codes \in Seq(Code) /\ d \in Seq(Nat) /\ 2 * Len(codes) <= Len(d)
          /\ \A i \in (2 * Len(codes) + 1)..Len(d) : d[i] = 0
      BY <1>1, <1>2, <2>6
    <3> QED BY <3>1, <3>2, WordsReadBack
  <2> QED BY <2>4, <2>5, <2>7 DEF data, codes
<1>4. CASE ~ r.of.counts
  <2>1. data = <<>> \o Bytes(codes) \o zeros
    BY <1>4 DEF Payload, codes, zeros
  <2>2. data = Bytes(codes) \o zeros
    BY <1>2, <2>1
  <2>3. ParseDtcPayload(data) = Words(data)
    BY <1>4 DEF ParseDtcPayload
  <2> HIDE DEF data
  <2>4. /\ data \in Seq(Nat) /\ Len(data) = 2 * Len(codes) + Len(zeros)
        /\ \A i \in 1..(2 * Len(codes)) : data[i] = Bytes(codes)[i]
        /\ \A i \in 1..Len(zeros) : data[2 * Len(codes) + i] = zeros[i]
    <3>1. Bytes(codes) \in Seq(Nat) /\ zeros \in Seq(Nat)
      BY <1>2
    <3>2. /\ data \in Seq(Nat) /\ Len(data) = Len(Bytes(codes)) + Len(zeros)
          /\ \A i \in 1..Len(Bytes(codes)) : data[i] = Bytes(codes)[i]
          /\ \A i \in 1..Len(zeros) : data[Len(Bytes(codes)) + i] = zeros[i]
      BY <2>2, <3>1, Joined
    <3> QED BY <1>2, <3>2
  <2>6. \A i \in (2 * Len(codes) + 1)..Len(data) : data[i] = 0
    <3> TAKE i \in (2 * Len(codes) + 1)..Len(data)
    <3>1. PICK j \in 1..Len(zeros) : i = 2 * Len(codes) + j
      <4>1. /\ i - 2 * Len(codes) \in 1..Len(zeros)
            /\ i = 2 * Len(codes) + (i - 2 * Len(codes))
        BY <1>2, <2>4
      <4> QED BY <4>1
    <3> QED BY <1>2, <2>4, <3>1
  <2>7. Words(data) = ToSet(codes)
    <3>1. codes \in Seq(Code) /\ data \in Seq(Nat) /\ 2 * Len(codes) <= Len(data)
      BY <1>1, <1>2, <2>4
    <3> QED BY <2>4, <2>6, <3>1, WordsReadBack
  <2> QED BY <2>3, <2>7 DEF data, codes
<1>5. r.of.counts \in BOOLEAN
  BY StateTypes
<1> QED BY <1>3, <1>4

\* read_dtcs: what is returned is what the answers kept say.
LEMMA AskDtcsKeeps == ASSUME ObdInv, AskDtcs PROVE ObdInv'
<1> DEFINE q == Q(call.arg, 0, 0)
<1>1. /\ call.op = "dtcs" /\ call.arg \in {3, 7, 10}
      /\ UNCHANGED <<car, base, found, held, supported, calls, cleared>>
  BY DEF AskDtcs, ObdInv, CallInv, Idle
<1>2. PICK R \in SUBSET (Replies(q) \cup late) :
        /\ Hears(q, R) /\ answers' = Positive(q, R)
        /\ Returns(UNION {{<<r.ecu, w>> : w \in ParseDtcPayload(Payload(r))} : r \in answers'})
  BY DEF AskDtcs
<1>3. VehicleInv' /\ \A r \in R : Honest(r)
  BY <1>1, <1>2, HeardOfRequest DEF ObdInv
<1>4. SupportedInv'
  BY <1>1 DEF ObdInv, SupportedInv, Truth
<1>5. \A r \in answers' : r.of \in EcuState /\ r.mode \in {3, 7, 10}
  BY <1>1, <1>2, <1>3 DEF Positive, Honest, Q
<1>6. /\ call' = Idle
      /\ result' = [op |-> "dtcs", value |->
           UNION {{<<r.ecu, w>> : w \in ParseDtcPayload(Payload(r))} : r \in answers'}]
  BY <1>1, <1>2 DEF Returns
<1>7. ASSUME \A r \in answers' : r.of.counts \/ ~ Counts(Payload(r))
      PROVE  result'.value =
               UNION {{<<r.ecu, w>> : w \in ToSet(r.of.dtcs[r.mode])} : r \in answers'}
  <2>1. \A r \in answers' : ParseDtcPayload(Payload(r)) = ToSet(r.of.dtcs[r.mode])
    BY <1>5, <1>7, ParsedAsSent
  <2> QED BY <1>6, <2>1
<1>8. DtcsAsSent'
  BY <1>7 DEF DtcsAsSent, Payload, Counts, ToSet
<1> QED BY <1>3, <1>4, <1>6, <1>8, Ended, ClaimsNothing

\* read_pid: a reading is what was asked for, whatever else is heard.
LEMMA AskPidKeeps == ASSUME ObdInv, AskPid PROVE ObdInv'
<1> DEFINE q == Q(1, call.arg, 0)
<1>1. call.op = "pid" /\ UNCHANGED <<car, base, found, held, answers, supported, calls, cleared>>
  BY DEF AskPid
<1>2. PICK R \in SUBSET (Replies(q) \cup late) :
        Hears(q, R) /\ Returns({Reading(r, q) : r \in Kept(q, R)})
  BY DEF AskPid
<1>3. /\ VehicleInv'
      /\ \A r \in Kept(q, R) : r.mode = q.mode /\ r.pid = q.pid /\ r.frame = q.frame
  BY <1>1, <1>2, HeardOfRequest DEF ObdInv
<1>4. SupportedInv'
  BY <1>1 DEF ObdInv, SupportedInv, Truth
<1>5. /\ call' = Idle
      /\ result' = [op |-> "pid", value |-> {Reading(r, q) : r \in Kept(q, R)}]
  BY <1>1, <1>2 DEF Returns
<1>6. \A r \in Kept(q, R) : Reading(r, q).of = <<1, Reading(r, q).pid, 0>>
  BY <1>3 DEF Reading, Q
<1>7. ReadingsBelong'
  BY <1>5, <1>6 DEF ReadingsBelong
<1> QED BY <1>3, <1>4, <1>5, <1>7, Ended, ClaimsNothing

\* The texts of a vehicle are none of the results claimed about.
LEMMA AskVinKeeps == ASSUME ObdInv, AskVin \/ AskText PROVE ObdInv'
<1>1. /\ UNCHANGED <<car, base, found, held, answers, supported, calls, cleared>>
      /\ call.op \in {"identify", "vin", "text"}
  BY DEF AskVin, AskText, ObdInv, CallInv, Idle, Places
<1>2. PICK q, R : R \in SUBSET (Replies(q) \cup late) /\ Hears(q, R) /\ \E value : Returns(value)
  BY DEF AskVin, AskText
<1>3. VehicleInv'
  BY <1>1, <1>2, HeardOfRequest DEF ObdInv
<1>4. SupportedInv'
  BY <1>1 DEF ObdInv, SupportedInv, Truth
<1>5. call' = Idle /\ result'.op = call.op
  BY <1>2 DEF Returns
<1> QED BY <1>1, <1>3, <1>4, <1>5, Ended, ClaimsNothing

\* A cleared ECU is the ECU it was in all that an answer is believed about.
LEMMA SendClearKeeps == ASSUME ObdInv, SendClear PROVE ObdInv'
<1>1. PICK E \in SUBSET Ecus : car' = [e \in Ecus |-> IF e \in E THEN Erased(car[e]) ELSE car[e]]
  BY DEF SendClear
<1>2. /\ UNCHANGED <<late, base, found, held, answers, supported, calls, gaps>>
      /\ call.op = "clear" /\ call' = Idle /\ result'.op = "clear"
  BY DEF SendClear, Returns
<1>3. ASSUME NEW s \in EcuState
      PROVE  /\ Erased(s) \in EcuState /\ Erased(s).pids = s.pids /\ Erased(s).diesel = s.diesel
  <2>1. PICK d : d = [s.dtcs EXCEPT ![3] = <<>>, ![7] = <<>>]
    OBVIOUS
  <2>2. d \in [{3, 7, 10} -> Seq(Code)]
    <3>1. s.dtcs \in [{3, 7, 10} -> Seq(Code)] /\ <<>> \in Seq(Code)
      BY StateTypes
    <3> QED BY <2>1, <3>1
  <2>3. Erased(s) = [s EXCEPT !.dtcs = d, !.frozen = FALSE, !.complete = {}]
    BY <2>1 DEF Erased
  <2>4. {} \in SUBSET {1, 2} /\ FALSE \in BOOLEAN
    OBVIOUS
  <2> QED BY <2>2, <2>3, <2>4 DEF EcuState
<1>4. /\ car' \in [Ecus -> EcuState]
      /\ \A e \in Ecus : car'[e].pids = car[e].pids /\ car'[e].diesel = car[e].diesel
  BY <1>1, <1>3 DEF ObdInv, VehicleInv
<1>5. VehicleInv'
  BY <1>2, <1>4 DEF ObdInv, VehicleInv, Honest
<1>6. SupportedInv'
  BY <1>2, <1>4 DEF ObdInv, SupportedInv, Truth
<1> QED BY <1>2, <1>5, <1>6, Ended, ClaimsNothing

\* A vehicle before the first call.
LEMMA InitObd == ObdInit => ObdInv
<1> SUFFICES ASSUME ObdInit PROVE ObdInv
  OBVIOUS
<1>1. /\ car \in Cars /\ late = {} /\ call = Idle /\ supported = Nobody /\ result = NoResult
      /\ gaps = FALSE
  BY DEF ObdInit
<1>2. VehicleInv
  BY <1>1, CarsAssumption DEF VehicleInv
<1>3. SupportedInv
  BY <1>1 DEF SupportedInv, Nobody
<1>4. call.at = "idle" /\ call.op = "idle" /\ result.op = "none"
  BY <1>1 DEF Idle, NoResult
<1>5. DiscoveryExact /\ ReadingsBelong /\ ReadinessRight /\ DtcsAsSent
  BY <1>3, <1>4 DEF SupportedInv, DiscoveryExact, ReadingsBelong, ReadinessRight, DtcsAsSent
<1> QED BY <1>1, <1>2, <1>3, <1>4, <1>5
        DEF ObdInv, CallInv, WalkInv, TriggerInv, FrozenInv, ValuesInv, IgnitionInv

\* A step that leaves the vehicle and what is known of it alone.
LEMMA KnowledgeKept ==
  ASSUME ObdInv, UNCHANGED <<car, late, supported, gaps>> PROVE VehicleInv' /\ SupportedInv'
BY DEF ObdInv, VehicleInv, SupportedInv, Honest, Truth

\* Every step of the client, and of the vehicle, keeps the hypothesis.
LEMMA ObdKept == ObdInv /\ [ObdNext]_obdVars => ObdInv'
<1> SUFFICES ASSUME ObdInv, [ObdNext]_obdVars PROVE ObdInv'
  OBVIOUS
<1> USE DEF Places
<1>1. CASE \/ Call("supported", "walk", 1) \/ Identify \/ ReadVin
           \/ \E item \in {InfoVin, 10} : ReadTextInfo(item)
           \/ \E p \in {PidStatus, BlockSize + 2} : ReadPid(p)
           \/ \E f \in {0, 1} : ReadFreezeFrames(f)
           \/ \E p \in {PidStatus, PidThisCycle} : ReadReadiness(p)
           \/ \E kind \in DOMAIN Kinds : ReadDtcs(kind)
  <2>1. ASSUME NEW kind \in DOMAIN Kinds, ReadDtcs(kind) PROVE ObdInv'
    <3>1. Kinds[kind] \in {3, 7, 10}
      BY DEF Kinds
    <3> QED BY <2>1, <3>1, CallBegins DEF ReadDtcs
  <2>2. ASSUME NEW p \in {PidStatus, PidThisCycle}, ReadReadiness(p) PROVE ObdInv'
    BY <2>2, CallBegins DEF ReadReadiness
  <2>3. ASSUME NEW f, ReadFreezeFrames(f) PROVE ObdInv'
    BY <2>3, CallBegins DEF ReadFreezeFrames
  <2>4. ASSUME NEW p, ReadPid(p) PROVE ObdInv'
    BY <2>4, CallBegins DEF ReadPid
  <2>5. ASSUME NEW item, ReadTextInfo(item) PROVE ObdInv'
    BY <2>5, CallBegins DEF ReadTextInfo
  <2>6. CASE Call("supported", "walk", 1) \/ Identify \/ ReadVin
    BY <2>6, CallBegins DEF Identify, ReadVin
  <2> QED BY <1>1, <2>1, <2>2, <2>3, <2>4, <2>5, <2>6
<1>2. ASSUME call = Idle, UNCHANGED <<car, late, call, supported, gaps>>,
             result'.op \in {"cached", "clear"}
      PROVE  ObdInv'
  <2>1. VehicleInv' /\ SupportedInv'
    BY <1>2, KnowledgeKept
  <2> QED BY <1>2, <2>1, Ended, ClaimsNothing
<1>3. CASE SupportedPids
  <2>1. CASE Call("supported", "walk", 1)
    BY <1>1, <2>1
  <2>2. CASE ~ Call("supported", "walk", 1)
    <3>1. /\ call = Idle /\ UNCHANGED <<car, late, call, supported, gaps>>
          /\ result' = [op |-> "cached", value |-> supported]
      BY <1>3, <2>2 DEF SupportedPids
    <3> QED BY <1>2, <3>1
  <2> QED BY <2>1, <2>2
<1>4. ASSUME NEW process, NEW agent, NEW confirm, ClearTroubleCodes(process, agent, confirm)
      PROVE  ObdInv'
  <2>1. CASE GateRefuses(process, agent, confirm)
    <3>1. /\ call = Idle /\ UNCHANGED <<car, late, call, supported, gaps>>
          /\ result' = [op |-> "clear", value |-> "refused"]
      BY <1>4, <2>1 DEF ClearTroubleCodes
    <3> QED BY <1>2, <3>1
  <2>2. CASE ~ GateRefuses(process, agent, confirm)
    BY <1>4, <2>2, CallBegins DEF ClearTroubleCodes
  <2> QED BY <2>1, <2>2
<1>5. CASE LinkLost
  <2>1. call' = Idle /\ result' = NoResult /\ UNCHANGED <<car, late, supported, gaps>>
    BY <1>5 DEF LinkLost
  <2>2. result'.op = "none"
    BY <2>1 DEF NoResult
  <2> QED BY <2>1, <2>2, KnowledgeKept, Ended, ClaimsNothing
<1>6. CASE UNCHANGED obdVars
  <2>1. UNCHANGED <<car, late, call, base, found, held, answers, supported, result, gaps>>
    BY <1>6 DEF obdVars, session
  <2>2. VehicleInv' /\ SupportedInv'
    BY <2>1, KnowledgeKept
  <2>3. CallInv' /\ WalkInv' /\ TriggerInv' /\ FrozenInv' /\ ValuesInv' /\ IgnitionInv'
    BY <2>1 DEF ObdInv, CallInv, WalkInv, Covers, Truth, TriggerInv, FrozenInv, HeldInv,
                ValuesInv, Wanted, PidsOf, Reads, IgnitionInv, AllAnswered
  <2>4. DiscoveryExact' /\ ReadingsBelong' /\ ReadinessRight'
    BY <2>1 DEF ObdInv, DiscoveryExact, ReadingsBelong, ReadinessRight, Truth
  <2>5. DtcsAsSent'
    BY <2>1 DEF ObdInv, DtcsAsSent, Payload, Counts
  <2> QED BY <2>2, <2>3, <2>4, <2>5 DEF ObdInv
<1> QED BY <1>1, <1>3, <1>4, <1>5, <1>6, DiscoverKeeps, DiscoverFirstKeeps, AskVinKeeps,
           AskPidKeeps, AskTriggerKeeps, WalkFrozenKeeps, AskFrozenKeeps, AskStatusKeeps,
           AskIgnitionKeeps, AskDtcsKeeps, SendClearKeeps DEF ObdNext

\* The hypothesis holds of every session.
LEMMA ObdInvariant == ObdSpec => []ObdInv
<1>1. ObdInit => ObdInv
  BY InitObd
<1>2. ObdInv /\ [ObdNext]_obdVars => ObdInv'
  BY ObdKept
<1> QED BY <1>1, <1>2, PTL DEF ObdSpec

\* discovery.py: what an ECU is said to implement it implements, however late the answers;
\* and when none was lost nothing was missed, in however many blocks and of any ECUs.
THEOREM DiscoveryIsExact == ObdSpec => []DiscoveryExact
<1>1. ObdInv => DiscoveryExact
  BY DEF ObdInv
<1> QED BY <1>1, ObdInvariant, PTL

\* client.py, read_pid and read_freeze_frames: a reading is of the mode, PID and frame it
\* is filed under, and no frame that an ECU captured is missing when no answer was.
THEOREM ReadingsAreFiledRight == ObdSpec => []ReadingsBelong
<1>1. ObdInv => ReadingsBelong
  BY DEF ObdInv
<1> QED BY <1>1, ObdInvariant, PTL

\* readiness.py: the monitors have the engine's names, and are complete where they are so.
THEOREM ReadinessIsRight == ObdSpec => []ReadinessRight
<1>1. ObdInv => ReadinessRight
  BY DEF ObdInv
<1> QED BY <1>1, ObdInvariant, PTL

\* dtc.py: the codes are the ones sent, however many, counted or not, padded or not.
THEOREM CodesAreAsSent == ObdSpec => []DtcsAsSent
<1>1. ObdInv => DtcsAsSent
  BY DEF ObdInv
<1> QED BY <1>1, ObdInvariant, PTL
==============================================================================
