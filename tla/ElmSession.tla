----------------------------- MODULE ElmSession -----------------------------
(***************************************************************************)
(* One ELM327 session, from its opening to its closing, shared by several  *)
(* threads: the studio, a live poller, an agent.  The adapter is on        *)
(* Bluetooth LE, the one transport with a thread of its own:               *)
(* BleElmTransport keeps its client on a private event loop, where replies *)
(* land in a buffer and a lost adapter is noticed, while the callers write *)
(* and read from their own threads.  A command is ElmProtocol.send:        *)
(* discard what is unread, write, read until a prompt has arrived or the   *)
(* deadline has passed.  DiagnosticInterface.request holds `_exchange`     *)
(* around it; read_voltage, open and close send theirs without.  The       *)
(* adapter, outside the repository, answers its commands one after the     *)
(* other and is not told when a caller has stopped waiting.                *)
(***************************************************************************)
EXTENDS Naturals, Sequences, FiniteSets

CONSTANTS Threads,
          Jobs,         \* what threads may call: "request", "voltage", "close"
          MaxCommands,  \* bound: commands written
          MaxTimeouts   \* bound: commands given up at their deadline

ASSUME JobsAssumption == Jobs \subseteq {"request", "voltage", "close"}

VARIABLES openFlag,     \* DiagnosticInterface._open_flag
          client,       \* BleElmTransport._client is there
          lost,         \* BleElmTransport._lost
          loop,         \* the private event loop: "none", "running", "stopped"
          peer,         \* the adapter is held by this client
          lock,         \* holder of _exchange, or NoOne
          job,          \* thread -> what it is inside, or "none"
          pc,           \* thread -> "idle", or the step it is at
          sent,         \* thread -> number of its command
          answer,       \* thread -> commands the text it read last answers
          written,      \* commands written so far
          adapter,      \* commands the adapter has yet to answer
          unread,       \* BleElmTransport._buffer: answers, each with its prompt
          timedOut,     \* history: commands whose caller gave up
          bypassed,     \* history: somebody has sent without the lock
          closers,      \* history: threads that have gone into close()
          undone        \* history: a disconnect has failed

threadVars == <<lock, job, pc, sent, answer>>
linkVars == <<openFlag, client, lost, loop, peer>>
wireVars == <<written, adapter, unread, timedOut>>
history == <<bypassed, closers, undone>>
vars == <<threadVars, linkVars, wireVars, history>>

NoOne == "no one"

ASSUME ThreadsAssumption == NoOne \notin Threads

Init == /\ openFlag = FALSE /\ client = FALSE /\ lost = FALSE
        /\ loop = "none" /\ peer = FALSE /\ lock = NoOne
        /\ job = [t \in Threads |-> "none"]
        /\ pc = [t \in Threads |-> "idle"]
        /\ sent = [t \in Threads |-> 0]
        /\ answer = [t \in Threads |-> <<>>]
        /\ written = 0 /\ adapter = <<>> /\ unread = <<>> /\ timedOut = {}
        /\ bypassed = FALSE /\ closers = {} /\ undone = FALSE

Enter(t, what, where) ==
  /\ pc[t] = "idle"
  /\ job' = [job EXCEPT ![t] = what]
  /\ pc' = [pc EXCEPT ![t] = where]
  /\ sent' = [sent EXCEPT ![t] = 0]
  /\ answer' = [answer EXCEPT ![t] = <<>>]
  /\ bypassed' = (bypassed \/ what \in {"voltage", "close"})
  /\ closers' = IF what = "close" THEN closers \cup {t} ELSE closers
  /\ UNCHANGED <<lock, wireVars, undone>>

\* open(), once for a session: the event loop starts on a thread of its own.
Open(t) == /\ loop = "none" /\ Enter(t, "open", "connect")
           /\ loop' = "running"
           /\ UNCHANGED <<openFlag, client, lost, peer>>

\* request(): the flag is read before the lock is asked for.
Request(t) == /\ openFlag /\ "request" \in Jobs
              /\ Enter(t, "request", "queued") /\ UNCHANGED linkVars

ReadVoltage(t) == /\ loop # "none" /\ "voltage" \in Jobs
                  /\ Enter(t, "voltage", "reset") /\ UNCHANGED linkVars

\* close(): nothing but the flag is consulted; ATPC goes out first.
Close(t) == /\ openFlag /\ "close" \in Jobs
            /\ Enter(t, "close", "reset") /\ UNCHANGED linkVars

Goes(t, where) == pc' = [pc EXCEPT ![t] = where]

\* _connect: the adapter found, connected and subscribed to.
Connect(t) == /\ pc[t] = "connect"
              /\ client' = TRUE /\ peer' = TRUE
              /\ Goes(t, "reset")
              /\ UNCHANGED <<lock, job, sent, answer, openFlag, lost, loop,
                             wireVars, history>>

\* Not found, refused or too slow: _connect lets the adapter go again, or
\* fails to, or was cut off before it could; open() stops the loop.
ConnectFails(t) == /\ pc[t] = "connect"
                   /\ loop' = "stopped"
                   /\ peer' \in BOOLEAN
                   /\ Goes(t, "idle") /\ job' = [job EXCEPT ![t] = "none"]
                   /\ UNCHANGED <<lock, sent, answer, openFlag, client, lost,
                                  wireVars, history>>

\* Mutant: a request does not wait for the one under way.
TakeLockAnyway(t) == /\ pc[t] = "queued"
                     /\ lock' = t
                     /\ Goes(t, "reset")
                     /\ UNCHANGED <<job, sent, answer, linkVars, wireVars, history>>

TakeLock(t) == /\ pc[t] = "queued" /\ lock = NoOne
               /\ lock' = t
               /\ Goes(t, "reset")
               /\ UNCHANGED <<job, sent, answer, linkVars, wireVars, history>>

ResetInput(t) == /\ pc[t] = "reset"
                 /\ unread' = <<>>
                 /\ Goes(t, "write")
                 /\ UNCHANGED <<lock, job, sent, answer, linkVars, written,
                                adapter, timedOut, history>>

Usable == client /\ ~ lost

Write(t) == /\ pc[t] = "write" /\ Usable /\ peer /\ loop = "running"
            /\ written < MaxCommands
            /\ written' = written + 1
            /\ sent' = [sent EXCEPT ![t] = written + 1]
            /\ answer' = [answer EXCEPT ![t] = <<>>]
            /\ adapter' = Append(adapter, written + 1)
            /\ Goes(t, "read")
            /\ UNCHANGED <<lock, job, linkVars, unread, timedOut, history>>

\* How a command ends.  Closing goes on to the transport whatever became of
\* its ATPC; opening has a session only if its set-up was answered, and
\* otherwise leaves the transport as it is.
Leave(t, ok) ==
  /\ lock' = IF lock = t THEN NoOne ELSE lock
  /\ IF job[t] = "close"
     THEN Goes(t, "release") /\ UNCHANGED <<job, openFlag>>
     ELSE /\ Goes(t, "idle") /\ job' = [job EXCEPT ![t] = "none"]
          /\ openFlag' = (openFlag \/ (job[t] = "open" /\ ok))

\* Opening is a series of commands: reset and configure the adapter, probe
\* what it knows, select a protocol.
SetUpGoesOn(t) == job[t] = "open" /\ Goes(t, "reset")
                  /\ UNCHANGED <<lock, job, openFlag>>

\* It does not know ATE0 or ATH1, or settles on a protocol that is not CAN.
SetUpRefused(t) == job[t] = "open" /\ Leave(t, FALSE)

\* A read takes all that has arrived; a prompt in it ends the command.
Read(t) == /\ pc[t] = "read" /\ unread # <<>>
           /\ answer' = [answer EXCEPT ![t] = unread]
           /\ unread' = <<>>
           /\ SetUpGoesOn(t) \/ SetUpRefused(t) \/ Leave(t, TRUE)
           /\ UNCHANGED <<sent, client, lost, loop, peer, written, adapter,
                          timedOut, history>>

\* Mutant: the deadline is looked at only when bytes have come.
DeadlineSeenWithBytes(t) == pc[t] = "read" /\ unread # <<>>

DeadlineSeen(t) == pc[t] = "read"

\* DiagnosticTimeout.
GiveUp(t) == /\ DeadlineSeen(t)
             /\ Cardinality(timedOut) < MaxTimeouts
             /\ timedOut' = timedOut \cup {sent[t]}
             /\ Leave(t, FALSE)
             /\ UNCHANGED <<sent, answer, client, lost, loop, peer, written,
                            adapter, unread, history>>

\* TransportError: the transport is not open, the adapter is gone, or the
\* loop a write was handed to no longer runs.
Fail(t) == /\ \/ pc[t] \in {"write", "read"} /\ ~ Usable
              \/ pc[t] = "write" /\ ~ (peer /\ loop = "running")
           /\ Leave(t, FALSE)
           /\ UNCHANGED <<sent, answer, client, lost, loop, peer, wireVars,
                          history>>

\* Mutant: the loop is stopped before the adapter is let go.
TakeClientLast(t) == /\ pc[t] = "release" /\ client' = FALSE
                     /\ Goes(t, "stop")
                     /\ UNCHANGED <<lock, job, sent, answer, openFlag, lost,
                                    loop, peer, wireVars, history>>

\* BleElmTransport.close, step by step.
TakeClient(t) == /\ pc[t] = "release" /\ client' = FALSE
                 /\ Goes(t, IF client /\ loop = "running" THEN "disconnect"
                            ELSE "stop")
                 /\ UNCHANGED <<lock, job, sent, answer, openFlag, lost, loop,
                                peer, wireVars, history>>

\* client.disconnect() on the loop.  It raises, or takes more than the 5 s it
\* has, as it must once another close has stopped the loop: that is swallowed.
Disconnect(t) == /\ pc[t] = "disconnect"
                 /\ \/ /\ loop = "running"
                       /\ peer' = FALSE /\ lost' = TRUE /\ adapter' = <<>>
                       /\ UNCHANGED undone
                    \/ undone' = TRUE /\ UNCHANGED <<peer, lost, adapter>>
                 /\ Goes(t, "stop")
                 /\ UNCHANGED <<lock, job, sent, answer, openFlag, client, loop,
                                written, unread, timedOut, bypassed, closers>>

StopLoop(t) == /\ pc[t] = "stop" /\ loop' = "stopped"
               /\ Goes(t, "clear")
               /\ UNCHANGED <<lock, job, sent, answer, openFlag, client, lost,
                              peer, wireVars, history>>

ClearBuffer(t) == /\ pc[t] = "clear" /\ unread' = <<>>
                  /\ openFlag' = FALSE
                  /\ Goes(t, "idle") /\ job' = [job EXCEPT ![t] = "none"]
                  /\ UNCHANGED <<lock, sent, answer, client, lost, loop, peer,
                                 written, adapter, timedOut, history>>

\* _on_notify, on the loop's thread.
AdapterAnswers == /\ adapter # <<>> /\ peer /\ loop = "running"
                  /\ unread' = Append(unread, Head(adapter))
                  /\ adapter' = Tail(adapter)
                  /\ UNCHANGED <<threadVars, linkVars, written, timedOut, history>>

\* The adapter goes out of range or loses its supply.
AdapterGone == /\ peer /\ peer' = FALSE /\ adapter' = <<>>
               /\ UNCHANGED <<threadVars, openFlag, client, lost, loop, written,
                              unread, timedOut, history>>

OnDisconnect == /\ client /\ ~ peer /\ ~ lost /\ loop = "running"
                /\ lost' = TRUE
                /\ UNCHANGED <<threadVars, openFlag, client, loop, peer, wireVars,
                               history>>

Step(t) == \/ Connect(t) \/ TakeLock(t) \/ ResetInput(t) \/ Write(t)
           \/ Read(t) \/ Fail(t) \/ TakeClient(t) \/ Disconnect(t)
           \/ StopLoop(t) \/ ClearBuffer(t)

Next == \/ AdapterAnswers \/ AdapterGone \/ OnDisconnect
        \/ \E t \in Threads : \/ Open(t) \/ Request(t) \/ ReadVoltage(t)
                              \/ Close(t) \/ Step(t) \/ GiveUp(t)
                              \/ ConnectFails(t)

\* The adapter answers, threads run and deadlines pass; nobody has to call
\* anything, and an adapter need not go.
Spec == /\ Init /\ [][Next]_vars
        /\ WF_vars(AdapterAnswers) /\ WF_vars(OnDisconnect)
        /\ \A t \in Threads : WF_vars(Step(t)) /\ WF_vars(GiveUp(t))
-----------------------------------------------------------------------------
Exchanging(t) == pc[t] \in {"reset", "write", "read"}

TypeOK == /\ \A flag \in {openFlag, client, lost, peer, bypassed, undone} : flag \in BOOLEAN
          /\ loop \in {"none", "running", "stopped"}
          /\ lock \in Threads \cup {NoOne}
          /\ \A t \in Threads : (job[t] = "none") <=> (pc[t] = "idle")
          /\ written \in 0..MaxCommands

\* Requests of two threads are never on the wire together, as far as the
\* lock reaches and whatever timeouts, losses and closings come in between.
RequestsTakeTurns ==
  \A t, u \in Threads :
    t # u /\ job[t] = "request" /\ job[u] = "request"
      => ~ (Exchanging(t) /\ Exchanging(u))

\* As long as nobody gives up on the adapter or goes past the lock, every
\* caller reads the answer to its own command and nothing else.
MatchedUntilTimeout ==
  timedOut = {} /\ ~ bypassed =>
    \A t \in Threads : answer[t] # <<>> => answer[t] = <<sent[t]>>

\* The lock is held exactly by the request that is on the wire: no way out
\* of a call, a timeout or a transport closed underneath it, leaves it held.
LockFollowsRequest ==
  \A t \in Threads : lock = t <=> (job[t] = "request" /\ Exchanging(t))

\* What sharing a session over its lock amounts to (interface.py, request).
ExchangesKeepApart ==
  RequestsTakeTurns /\ LockFollowsRequest /\ MatchedUntilTimeout

\* "One exchange at a time" (interface.py, __init__): not an invariant, since
\* close() and read_voltage() send without the lock.
OneExchangeAtATime ==
  \A t, u \in Threads : t # u => ~ (Exchanging(t) /\ Exchanging(u))

\* A close that is the only one lets everything go, whatever other threads
\* were doing with the adapter meanwhile: the client, the thread of the event
\* loop, and the adapter itself, which takes one central at a time.  One way
\* remains for the adapter to be held by nobody's client: the disconnect was
\* tried and failed, and close() swallowed that.
AdapterLetGo ==
  \A t \in Threads : closers = {t} /\ job[t] # "close"
                       => ~ client /\ loop = "stopped" /\ (peer => undone)

\* A caller waiting for its reply is not left waiting, also when the reply
\* is late, the adapter goes away or the session is closed under it: nor is
\* the lock, then, which the caller holds.
CallsReturn == \A t \in Threads :
                 written < MaxCommands /\ pc[t] \notin {"idle", "queued"}
                   ~> pc[t] = "idle" \/ written = MaxCommands
=============================================================================
