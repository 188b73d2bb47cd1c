-------------------------- MODULE StudioDiagnostics --------------------------
(***************************************************************************)
(* Who uses the vehicle's diagnostic sessions.  The Tk thread hands work   *)
(* to a thread and adopts its outcome later (_obd_run, _obd_finish), runs  *)
(* a live poller, and closes the session before it closes the link         *)
(* (_obd_close_session, _disconnect).  Agents open a session of their own  *)
(* over the same link (diag/mcp_tools.py).  An ELM327 link has one session *)
(* for everybody, number 0; on a CAN link each caller makes a native one,  *)
(* which hears nothing unless the capture loop feeds its queue.            *)
(***************************************************************************)
EXTENDS PidPolling, FiniteSets

CONSTANTS Agents,      \* agents that call tools, each on its own thread
          MaxLinks,    \* bound: links opened
          MaxNative    \* bound: native sessions made

VARIABLES link, kind,  \* self.link; of each link, "elm" or "can"
          connected,   \* links opened so far
          open,        \* sessions whose _open_flag is up
          made,        \* native sessions made so far
          session,     \* self.diag_session, and with it diag_client
          source,      \* the session whose queue is self.diag_frame_source
          busy,        \* self.diag_busy
          work,        \* what _obd_run's threads are at, or have queued for Tk
          poller,      \* self.diag_poller, 0 when None
          watching,    \* _obd_watch_poller callbacks pending
          stopping,    \* pollers a stop() thread waits for
          tk, joined,  \* "closing" while _disconnect waits for poller `joined`
          agent,       \* of each agent: where it is, its session, its poller
          tools,       \* mcp_tools._session
          client,      \* the session of mcp_tools._client
          owned,       \* mcp_tools._session_owned
          registered,  \* mcp_tools._registered_source
          extra,       \* self.extra_frame_sources
          overlapped   \* history: two agents opened or closed at once

linkVars == <<link, kind, connected, open, made>>
sessionVars == <<session, source, busy, work>>
pollerVars == <<poller, watching, stopping>>
tkVars == <<tk, joined>>
guiVars == <<sessionVars, pollerVars, tkVars>>
toolVars == <<agent, tools, client, owned, registered, extra, overlapped>>
vars == <<pollers, linkVars, guiVars, toolVars>>

NoSession == [link |-> 0, n |-> 0]
Idle == [at |-> "idle", session |-> NoSession, poller |-> 0]

IsNative(s) == s.n # 0
Reaches(s) == s \in open /\ s.link = link

\* Link.diagnostic_session().
SessionOf(l) == [link |-> l, n |-> IF kind[l] = "can" THEN made + 1 ELSE 0]
Makes(s) == /\ s.n <= MaxNative
            /\ made' = IF IsNative(s) THEN s.n ELSE made

Init == /\ link = 0 /\ kind \in [1..MaxLinks -> {"elm", "can"}] /\ connected = 0
        /\ open = {} /\ made = 0
        /\ session = NoSession /\ source = NoSession /\ busy = FALSE
        /\ work = {} /\ poller = 0 /\ watching = 0 /\ stopping = {}
        /\ tk = "free" /\ joined = 0
        /\ pollers = [p \in Pollers |-> NewPoller(NoSession, "none")]
        /\ agent = [a \in Agents |-> Idle]
        /\ tools = NoSession /\ client = NoSession /\ owned = TRUE
        /\ registered = NoSession /\ extra = {} /\ overlapped = FALSE

-----------------------------------------------------------------------------
(* The Tk thread.  A callback runs to its end before the next, except that  *)
(* _disconnect may have to wait for a poller. *)

\* The life of the link itself is StudioConnection's subject.
Connect == /\ tk = "free" /\ link = 0 /\ connected < MaxLinks
           /\ link' = connected + 1 /\ connected' = connected + 1
           /\ open' = IF kind[link'] = "elm" THEN open \cup {[link |-> link', n |-> 0]}
                                             ELSE open
           /\ UNCHANGED <<pollers, kind, made, guiVars, toolVars>>

Runs(job, s) == work' = work \cup {[job |-> job, session |-> s, at |-> "asking"]}

\* What the capture loop feeds from the moment there is a session.
Fed(s) == IF IsNative(s) THEN s ELSE NoSession

Owned(s) == IF IsNative(s) THEN {s} ELSE {}

\* _obd_identify: the previous session is closed, unless it is the link's.
\* (There is no poller to stop: it would be busy.)
Identify ==
  /\ tk = "free" /\ link # 0 /\ ~ busy
  /\ LET s == SessionOf(link)
     IN /\ Makes(s)
        /\ open' = (open \ Owned(session)) \cup {s}
        /\ source' = Fed(s)
        /\ Runs("identify", s)
  /\ session' = NoSession /\ busy' = TRUE
  /\ UNCHANGED <<pollers, link, kind, connected, pollerVars, tkVars, toolVars>>

\* Any other request: _obd_require_session and _obd_run.
Read == /\ tk = "free" /\ session # NoSession /\ ~ busy
        /\ Runs("read", session)
        /\ busy' = TRUE
        /\ UNCHANGED <<pollers, linkVars, session, source, pollerVars, tkVars, toolVars>>

\* _obd_finish, with the `done` or `failed` of _obd_identify.
Finish(w) ==
  /\ tk = "free" /\ w \in work /\ w.at \in {"done", "failed"}
  /\ work' = work \ {w}
  /\ busy' = FALSE
  /\ session' = IF w.job = "identify" /\ w.at = "done" THEN w.session ELSE session
  /\ IF w.job = "identify" /\ w.at = "failed"
     THEN /\ source' = NoSession
          /\ open' = open \ Owned(w.session)
     ELSE UNCHANGED <<source, open>>
  /\ UNCHANGED <<pollers, link, kind, connected, made, pollerVars, tkVars, toolVars>>

\* _obd_start_polling, live or recording.
StartPolling ==
  /\ tk = "free" /\ session # NoSession /\ ~ busy /\ poller = 0
  /\ \E p \in Pollers, file \in {"none", "open"} :
       /\ Start(p, session, file)
       /\ poller' = p
  /\ busy' = TRUE
  /\ watching' = watching + 1
  /\ UNCHANGED <<linkVars, session, source, work, stopping, tkVars, toolVars>>

\* _obd_stop_polling leaves the waiting to a thread.
StopPolling == /\ tk = "free" /\ poller # 0 /\ ~ pollers[poller].stop
               /\ RaiseStop(poller)
               /\ stopping' = stopping \cup {poller}
               /\ UNCHANGED <<linkVars, sessionVars, poller, watching, tkVars, toolVars>>

\* Mutant: called once only.
NotRearmed == watching - 1

\* While the poller runs, _obd_watch_poller asks to be called again.
Rearmed == IF poller # 0 /\ Alive(poller) THEN watching ELSE watching - 1

\* _obd_watch_poller, every 500 ms.
Watch ==
  /\ tk = "free" /\ watching > 0
  /\ watching' = Rearmed
  /\ IF poller # 0 /\ ~ Alive(poller)
     THEN CloseFile(poller) /\ poller' = 0 /\ busy' = FALSE
     ELSE UNCHANGED <<pollers, poller, busy>>
  /\ UNCHANGED <<linkVars, session, source, work, stopping, tkVars, toolVars>>

\* _disconnect, up to the join in _obd_close_session.
Disconnect == /\ tk = "free" /\ link # 0
              /\ tk' = "closing" /\ joined' = poller /\ poller' = 0
              /\ IF poller = 0 THEN UNCHANGED pollers ELSE RaiseStop(poller)
              /\ UNCHANGED <<linkVars, sessionVars, watching, stopping, toolVars>>

\* Mutant: whatever is in flight, the studio calls itself free.
NeverBusy == FALSE

\* Only a poller's `busy` is taken back; work in flight keeps its own.
BusyStill == busy /\ joined = 0

\* The poller ended or the join timed out; the rest, down to Link.close.
Disconnected ==
  /\ tk = "closing"
  /\ IF joined = 0 THEN UNCHANGED pollers ELSE CloseFile(joined)
  /\ busy' = BusyStill
  /\ session' = NoSession /\ source' = NoSession
  /\ open' = open \ ({[link |-> link, n |-> 0]} \cup Owned(session))
  /\ link' = 0 /\ tk' = "free" /\ joined' = 0
  /\ UNCHANGED <<kind, connected, made, work, pollerVars, toolVars>>

-----------------------------------------------------------------------------
(* Threads of the studio's own. *)

\* work() answers only while its session reaches the vehicle, and may fail
\* even then.  To a read that is all one.
WorkEnds(w) ==
  /\ w \in work /\ w.at = "asking"
  /\ \E at \in {"failed", "done"} :
       /\ at = "done" => w.job = "identify" /\ Reaches(w.session)
       /\ work' = (work \ {w}) \cup {[w EXCEPT !.at = at]}
  /\ UNCHANGED <<pollers, linkVars, session, source, busy, pollerVars, tkVars, toolVars>>

Sampled(p) == \E a \in Agents : agent[a].poller = p

\* A poller's request: an ELM327 closed under it is a TransportError, a bus
\* that fails raises an error of python-can; a native session on a bus that
\* is gone may also just wait in vain.
Reply(p) == LET s == pollers[p].session
            IN \/ (Reaches(s) \/ IsNative(s)) /\ Answered(p, Reaches(s))
               \/ LinkFails(p)

\* Only an agent's sampling has a duration.
Polls(p) ==
  /\ \/ Reply(p)
     \/ \E expired \in {FALSE, Sampled(p)} :
          PollerStep(p, pollers[p].session \in open, expired)
  /\ UNCHANGED <<linkVars, guiVars, toolVars>>

\* The stop() thread of _obd_stop_polling: joined, or past its timeout.
StopReturns(p) == /\ p \in stopping
                  /\ CloseFile(p)
                  /\ stopping' = stopping \ {p}
                  /\ UNCHANGED <<linkVars, sessionVars, poller, watching, tkVars, toolVars>>

-----------------------------------------------------------------------------
(* Agents: diag/mcp_tools.py.  Its globals are shared and nothing guards    *)
(* them. *)

Moves(a, at) == agent' = [agent EXCEPT ![a].at = at]

Begins(a) == /\ agent[a].at = "idle"
             /\ overlapped' = (overlapped \/ \E b \in Agents :
                                agent[b].at \notin {"idle", "sampling"})

\* obd_connect, as far as the session; without a transport of its own it
\* takes the current link's.
ToolConnects(a) ==
  /\ Begins(a) /\ tools = NoSession /\ link # 0
  /\ LET s == SessionOf(link)
     IN /\ Makes(s)
        /\ open' = open \cup {s}
        /\ agent' = [agent EXCEPT ![a].at = "holding", ![a].session = s]
        /\ extra' = extra \cup Owned(s)
        /\ registered' = IF IsNative(s) THEN s ELSE registered
  /\ UNCHANGED <<pollers, link, kind, connected, guiVars, tools, client, owned>>

\* Mutant: obd_disconnect may close whatever session it has.
OwnsAny(s) == TRUE

Owns(s) == IsNative(s)

ToolHolds(a) ==
  /\ agent[a].at = "holding"
  /\ tools' = agent[a].session /\ owned' = Owns(agent[a].session)
  /\ Moves(a, "identifying")
  /\ UNCHANGED <<pollers, linkVars, guiVars, client, registered, extra, overlapped>>

\* identify() and resolve(), or their failure.
ToolIdentifies(a) ==
  /\ agent[a].at = "identifying"
  /\ \/ /\ Reaches(agent[a].session)
        /\ client' = agent[a].session
        /\ agent' = [agent EXCEPT ![a] = Idle]
        /\ UNCHANGED open
     \/ /\ open' = open \ Owned(agent[a].session)
        /\ Moves(a, "leaving") /\ UNCHANGED client
  /\ UNCHANGED <<pollers, link, kind, connected, made, guiVars, tools, owned,
                 registered, extra, overlapped>>

\* obd_disconnect, up to its `finally`.
ToolDisconnects(a) ==
  /\ Begins(a) /\ tools # NoSession
  /\ open' = IF owned THEN open \ {tools} ELSE open
  /\ Moves(a, "leaving")
  /\ UNCHANGED <<pollers, link, kind, connected, made, guiVars, tools, client, owned,
                 registered, extra>>

\* _reset_state: what it withdraws, then what it forgets.
ToolWithdraws(a) ==
  /\ agent[a].at = "leaving"
  /\ extra' = extra \ {registered} /\ registered' = NoSession /\ owned' = TRUE
  /\ Moves(a, "forgetting")
  /\ UNCHANGED <<pollers, linkVars, guiVars, tools, client, overlapped>>

ToolForgets(a) ==
  /\ agent[a].at = "forgetting"
  /\ tools' = NoSession /\ client' = NoSession
  /\ agent' = [agent EXCEPT ![a] = Idle]
  /\ UNCHANGED <<pollers, linkVars, guiVars, owned, registered, extra, overlapped>>

\* obd_sample_pids runs a PidPoller on the agent's own thread.
ToolSamples(a) ==
  /\ agent[a].at = "idle" /\ client # NoSession
  /\ \E p \in Pollers :
       /\ Start(p, client, "none")
       /\ agent' = [agent EXCEPT ![a] = [at |-> "sampling", session |-> client, poller |-> p]]
  /\ UNCHANGED <<linkVars, guiVars, tools, client, owned, registered, extra, overlapped>>

ToolSampled(a) ==
  /\ agent[a].at = "sampling" /\ ~ Alive(agent[a].poller)
  /\ agent' = [agent EXCEPT ![a].at = "idle"]
  /\ UNCHANGED <<pollers, linkVars, guiVars, tools, client, owned, registered, extra,
                 overlapped>>

ToolStep(a) == \/ ToolHolds(a) \/ ToolIdentifies(a) \/ ToolWithdraws(a)
               \/ ToolForgets(a) \/ ToolSampled(a)

Next == \/ Connect \/ Identify \/ Read \/ StartPolling \/ StopPolling \/ Watch
        \/ Disconnect \/ Disconnected
        \/ \E w \in work : Finish(w) \/ WorkEnds(w)
        \/ \E p \in Pollers : Polls(p) \/ StopReturns(p)
        \/ \E a \in Agents : \/ ToolConnects(a) \/ ToolDisconnects(a) \/ ToolSamples(a)
                            \/ ToolStep(a)

\* Threads run, requests have a timeout, Tk returns to its queue.
Spec == /\ Init /\ [][Next]_vars
        /\ WF_vars(Watch) /\ WF_vars(Disconnected)
        /\ WF_vars(\E w \in work : Finish(w)) /\ WF_vars(\E w \in work : WorkEnds(w))
        /\ \A p \in Pollers : WF_vars(Polls(p))
-----------------------------------------------------------------------------
Asking(s) == {w \in work : w.at = "asking" /\ w.session = s}
Polling(s) == {p \in Pollers : Alive(p) /\ pollers[p].session = s /\ ~ Sampled(p)}

\* "Every other request is held off through diag_busy until it has stopped"
\* (gui.py, live polling): whatever is disconnected, identified again or
\* stopped meanwhile, and whichever callbacks of _obd_finish come late, the
\* studio never has two requests of its own on one session, and stays busy
\* as long as it has a poller.
HeldOff == /\ \A s \in open : Cardinality(Asking(s)) + Cardinality(Polling(s)) <= 1
           /\ poller # 0 => busy

\* A native session hears only what the capture loop puts in its queue: one in
\* use on the current link is fed, the studio's from before its first request
\* (_obd_identify), an agent's (obd_connect) unless two agents connected or
\* disconnected at the same time.
FedWhileInUse ==
  /\ Reaches(session) /\ IsNative(session) => source = session
  /\ \A w \in work : w.at = "asking" /\ Reaches(w.session) /\ IsNative(w.session)
                       => source = w.session
  /\ ~ overlapped /\ Reaches(client) /\ IsNative(client) =>
       client \in extra \/ \E a \in Agents : agent[a].at \in {"leaving", "forgetting"}

\* "On an ELM327 the session is the link itself: the link closes it, not us"
\* (gui.py, _obd_close_session, and obd_disconnect for agents): whoever closes
\* a session, an ELM327's stays open as long as its link.
LinkKeepsItsSession ==
  link # 0 /\ kind[link] = "elm" /\ ~ overlapped => [link |-> link, n |-> 0] \in open

\* A session in use on a link hears its frames, and is there as long as anybody
\* but its closer needs it.
SessionServesItsLink == FedWhileInUse /\ LinkKeepsItsSession

\* "A native diagnostic session runs on this bus, so it cannot outlive it"
\* (gui.py, _disconnect): the studio has no session of a link that is closed.
\* Not an invariant: the `done` of an identification that a disconnect overtook
\* adopts one.
SessionEndsWithLink == session # NoSession => session.link = link

\* Whatever made the studio busy (_obd_run, a poller) and whatever happened to
\* it since (a stop, a lost link, a disconnect), diag_busy falls in the end,
\* unless a poller runs that nobody has asked to stop.
FreeAgain == busy /\ (poller = 0 \/ pollers[poller].stop) ~> ~ busy
=============================================================================
