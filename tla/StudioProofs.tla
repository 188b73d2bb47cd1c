---------------------------- MODULE StudioProofs ----------------------------
(* The studio's own promises, for any number of links, any posts, tool calls  *)
(* and switches, and any profile files: what becomes of a link (gui.py), what *)
(* an agent is told and allowed (a2a_server.py, agents.py, mcp_tools.py), and *)
(* whose profile decodes a vehicle (diag/resolver.py).                        *)
EXTENDS StudioConnection, AgentRequests, VehicleProfiles, WellFoundedInduction, TLAPS

\* What a link can hold, and where it can be.
Parts == {"transport", "bus", "simBus", "ownBus", "thread", "lock", "ending"}
Phases == {"unused", "checked", "opening", "closing", "open", "closed"}

ConnectionTypes ==
  /\ link \in Links \cup {NoLink} /\ tk \in Links \cup {NoLink} /\ button \in BOOLEAN
  /\ kind \in [Links -> Kinds]
  /\ via \in [Links -> {"nobody", "user", "agent"}]
  /\ phase \in [Links -> Phases]
  /\ DOMAIN todo = Links
  /\ held \in [Links -> SUBSET Parts]
  /\ callbacks \in Seq({"opened", "failed", "disconnect"} \X (Links \cup {NoLink}))

\* What a link can hold at all, and never its simulator without a bus for it; the lock is
\* held by a simulator of the core, and only Python's own is left ending.
HoldsItsOwn(l) ==
  /\ held[l] \subseteq IF kind[l] = "elm" THEN {"transport"} ELSE Parts \ {"transport"}
  /\ "thread" \in held[l] => "simBus" \in held[l] \/ "ownBus" \in held[l]
  /\ "lock" \in held[l] => core /\ "thread" \in held[l]
  /\ "ending" \in held[l] => ~ core

\* Where an opening stands: the simulator, last, finds its bus there.
IsOpening(l) ==
  /\ "thread" \notin held[l]
  /\ \/ kind[l] = "elm" /\ todo[l] \in {<<"transport", "configure">>, <<"configure">>}
     \/ kind[l] = "can" /\ todo[l] = <<"bus">>
     \/ kind[l] = "virtual" /\ todo[l] \in {<<"bus", "simulator">>, <<"simulator">>}
     \/ kind[l] = "simulated" /\ todo[l] \in {<<"bus", "simBus", "simulator">>,
                                              <<"simBus", "simulator">>}
     \/ kind[l] = "simulated" /\ todo[l] = <<"simulator">> /\ "simBus" \in held[l]

\* Where a closing stands, and what is gone by then.
Gone(l, parts) == held[l] \cap parts = {}
IsClosing(l) ==
  \/ todo[l] = CloseSteps
  \/ todo[l] = <<"simulator", "simBus", "bus">>
  \/ todo[l] = <<"simBus", "bus">> /\ Gone(l, {"ownBus", "thread"})
  \/ todo[l] = <<"bus">> /\ Gone(l, {"ownBus", "thread", "simBus"})
  \/ todo[l] = <<>> /\ Gone(l, {"ownBus", "thread", "simBus", "bus"})

\* What is held in each phase of a link.
LinkInv(l) ==
  /\ HoldsItsOwn(l)
  /\ phase[l] \in {"unused", "checked"} => held[l] = {} /\ via[l] = "nobody"
  /\ phase[l] = "opening" => IsOpening(l)
  /\ phase[l] = "closing" => IsClosing(l)
  /\ phase[l] = "closed" => Gone(l, {"ownBus", "thread", "simBus", "bus"})

\* The studio's link is open, and the one Tk is closing is being closed; a link on
\* its way to Tk is open, is not the studio's yet and comes once.
HandOverInv ==
  /\ link # NoLink => phase[link] = "open"
  /\ tk # NoLink => phase[tk] = "closing"
  /\ \A i \in 1..Len(callbacks) : callbacks[i][1] = "opened" =>
       /\ callbacks[i][2] \in Links /\ callbacks[i][2] # link
       /\ phase[callbacks[i][2]] = "open"
  /\ \A i, j \in 1..Len(callbacks) :
       callbacks[i][1] = "opened" /\ callbacks[j] = callbacks[i] => i = j

\* The user's attempts follow one another as long as only the user connects: while one is
\* under way, on a thread of its own or on its way to Tk, the button is disabled and
\* there is no link.  (link_opening may be down: an agent that was refused lowers it.)
UserOnly == \A l \in Links : via[l] # "agent"
OnItsThread(l) == phase[l] = "opening" \/ (phase[l] = "closing" /\ l # tk)
Reports(i) == callbacks[i][1] # "disconnect"
OneAttempt ==
  /\ \A l, m \in Links : OnItsThread(l) /\ OnItsThread(m) => l = m
  /\ \A i, j \in 1..Len(callbacks) : Reports(i) /\ Reports(j) => i = j
  /\ \A l \in Links, i \in 1..Len(callbacks) : ~ (OnItsThread(l) /\ Reports(i))
  /\ \A l \in Links : OnItsThread(l) => ~ button /\ link = NoLink
  /\ \A i \in 1..Len(callbacks) : Reports(i) => ~ button /\ link = NoLink
  /\ \A l \in Links : phase[l] = "open" =>
       l = link \/ \E i \in 1..Len(callbacks) : callbacks[i] = <<"opened", l>>

\* The induction hypothesis.
ConnectionInv ==
  /\ ConnectionTypes /\ (\A l \in Links : LinkInv(l)) /\ HandOverInv
  /\ UserOnly => OneAttempt

\* What a step on other links leaves of this one.
Same(m) == /\ via'[m] = via[m] /\ phase'[m] = phase[m] /\ todo'[m] = todo[m]
           /\ held'[m] = held[m] /\ kind'[m] = kind[m] /\ core' = core

\* A link that nothing touches keeps what is said of it.
LEMMA SameLink ==
  ASSUME NEW m \in Links, LinkInv(m), Same(m), tk' = tk
  PROVE  LinkInv(m)'
BY DEF LinkInv, Same, HoldsItsOwn, IsOpening, IsClosing, Gone

\* What is left of an opening or a closing after its first step.
LEMMA StepsShrink ==
  /\ Tail(<<"transport", "configure">>) = <<"configure">>
  /\ Tail(<<"bus", "simulator">>) = <<"simulator">>
  /\ Tail(<<"bus", "simBus", "simulator">>) = <<"simBus", "simulator">>
  /\ Tail(<<"simBus", "simulator">>) = <<"simulator">>
  /\ Tail(CloseSteps) = <<"simulator", "simBus", "bus">>
  /\ Tail(<<"simulator", "simBus", "bus">>) = <<"simBus", "bus">>
  /\ Tail(<<"simBus", "bus">>) = <<"bus">>
  /\ Tail(<<"bus">>) = <<>>
BY DEF CloseSteps

\* The step that an opening or a closing takes next, and whether it is the last.
LEMMA StepsBegin ==
  /\ Head(<<"transport", "configure">>) = "transport" /\ Len(<<"transport", "configure">>) = 2
  /\ Head(<<"configure">>) = "configure" /\ Len(<<"configure">>) = 1
  /\ Head(<<"bus">>) = "bus" /\ Len(<<"bus">>) = 1
  /\ Head(<<"bus", "simulator">>) = "bus" /\ Len(<<"bus", "simulator">>) = 2
  /\ Head(<<"simulator">>) = "simulator" /\ Len(<<"simulator">>) = 1
  /\ Head(<<"bus", "simBus", "simulator">>) = "bus"
  /\ Len(<<"bus", "simBus", "simulator">>) = 3
  /\ Head(<<"simBus", "simulator">>) = "simBus" /\ Len(<<"simBus", "simulator">>) = 2
  /\ Head(CloseSteps) = "elm" /\ CloseSteps # <<>>
  /\ Head(<<"simulator", "simBus", "bus">>) = "simulator"
  /\ Head(<<"simBus", "bus">>) = "simBus"
BY DEF CloseSteps

\* A step of an opening, whichever adapter is opened.
LEMMA OpenStepLink ==
  ASSUME ConnectionTypes, NEW l \in Links, LinkInv(l), OpenStep(l)
  PROVE  LinkInv(l)'
<1>1. PICK parts \in Acquired(l) : held'[l] = held[l] \cup parts
  BY DEF OpenStep, ConnectionTypes
<1>2. /\ phase[l] = "opening" /\ IsOpening(l) /\ HoldsItsOwn(l)
      /\ todo'[l] = Tail(todo[l]) /\ kind'[l] = kind[l] /\ via'[l] = via[l]
      /\ phase'[l] = (IF Len(todo[l]) = 1 THEN "open" ELSE "opening") /\ core' = core
  BY DEF OpenStep, ConnectionTypes, LinkInv, Alive, processVars
<1>3. CASE kind[l] = "elm" /\ todo[l] = <<"transport", "configure">>
  <2>1. parts = {"transport"}
    BY <1>1, <1>3, StepsBegin DEF Acquired
  <2> QED BY <1>1, <1>2, <1>3, <2>1, StepsShrink, StepsBegin
           DEF LinkInv, IsOpening, HoldsItsOwn, Parts
<1>4. CASE kind[l] = "elm" /\ todo[l] = <<"configure">>
  <2>1. parts = {}
    BY <1>1, <1>4, StepsBegin DEF Acquired
  <2> QED BY <1>1, <1>2, <1>4, <2>1, StepsBegin DEF LinkInv, HoldsItsOwn, Parts
<1>5. CASE kind[l] = "can" /\ todo[l] = <<"bus">>
  <2>1. parts = {"bus"}
    BY <1>1, <1>5, StepsBegin DEF Acquired
  <2> QED BY <1>1, <1>2, <1>5, <2>1, StepsBegin DEF LinkInv, HoldsItsOwn, Parts
<1>6. CASE kind[l] = "virtual" /\ todo[l] = <<"bus", "simulator">>
  <2>1. parts = {"bus"}
    BY <1>1, <1>6, StepsBegin DEF Acquired
  <2> QED BY <1>1, <1>2, <1>6, <2>1, StepsShrink, StepsBegin
           DEF LinkInv, IsOpening, HoldsItsOwn, Parts
<1>7. CASE kind[l] = "virtual" /\ todo[l] = <<"simulator">>
  <2>1. parts = {} \/ parts = {"ownBus", "thread"}
    BY <1>1, <1>7, StepsBegin DEF Acquired
  <2> QED BY <1>1, <1>2, <1>7, <2>1, StepsBegin DEF LinkInv, IsOpening, HoldsItsOwn, Parts
<1>8. CASE kind[l] = "simulated" /\ todo[l] = <<"bus", "simBus", "simulator">>
  <2>1. parts = {"bus"}
    BY <1>1, <1>8, StepsBegin DEF Acquired
  <2> QED BY <1>1, <1>2, <1>8, <2>1, StepsShrink, StepsBegin
           DEF LinkInv, IsOpening, HoldsItsOwn, Parts
<1>9. CASE kind[l] = "simulated" /\ todo[l] = <<"simBus", "simulator">>
  <2>1. parts = {"simBus"}
    BY <1>1, <1>9, StepsBegin DEF Acquired
  <2> QED BY <1>1, <1>2, <1>9, <2>1, StepsShrink, StepsBegin
           DEF LinkInv, IsOpening, HoldsItsOwn, Parts
<1>10. CASE kind[l] = "simulated" /\ todo[l] = <<"simulator">> /\ "simBus" \in held[l]
  <2>1. parts = {"thread"}
    BY <1>1, <1>10, StepsBegin DEF Acquired
  <2> QED BY <1>1, <1>2, <1>10, <2>1, StepsBegin DEF LinkInv, IsOpening, HoldsItsOwn, Parts
<1> QED BY <1>2, <1>3, <1>4, <1>5, <1>6, <1>7, <1>8, <1>9, <1>10 DEF IsOpening

\* A step of a closing, whoever closes.
LEMMA CloseStepLink ==
  ASSUME ConnectionTypes, NEW l \in Links, LinkInv(l), CloseStep(l)
  PROVE  LinkInv(l)'
<1>1. /\ phase[l] = "closing" /\ IsClosing(l) /\ HoldsItsOwn(l) /\ todo[l] # <<>>
      /\ held'[l] = (held[l] \ Released(l, Head(todo[l]))) \cup Outlives(l, Head(todo[l]))
      /\ todo'[l] = Tail(todo[l]) /\ ~ StopBlocks(l)
      /\ kind'[l] = kind[l] /\ via'[l] = via[l] /\ phase'[l] = "closing" /\ core' = core
  BY DEF CloseStep, ConnectionTypes, LinkInv, Alive, processVars
<1>2. CASE todo[l] = CloseSteps
  <2>1. Released(l, Head(todo[l])) \subseteq {"transport"} /\ Outlives(l, Head(todo[l])) = {}
    BY <1>2, StepsBegin DEF Released, Outlives
  <2> QED BY <1>1, <1>2, <2>1, StepsShrink DEF LinkInv, IsClosing, HoldsItsOwn
<1>3. CASE todo[l] = <<"simulator", "simBus", "bus">>
  <2>1. /\ Released(l, Head(todo[l])) = {"ownBus", "thread"} /\ "lock" \notin held[l]
        /\ \/ Outlives(l, Head(todo[l])) = {}
           \/ /\ Outlives(l, Head(todo[l])) = {"ending"}
              /\ "thread" \in held[l] /\ ~ core
    BY <1>1, <1>3, StepsBegin DEF Released, Outlives, StopBlocks
  <2>2. kind[l] # "elm" \/ "thread" \notin held[l]
    BY <1>1 DEF HoldsItsOwn
  <2>3. /\ held'[l] \subseteq (held[l] \ {"ownBus", "thread"}) \cup {"ending"}
        /\ "ending" \in held'[l] => ~ core'
    BY <1>1, <2>1, <2>2 DEF HoldsItsOwn
  <2>4. HoldsItsOwn(l)'
    BY <1>1, <2>1, <2>2, <2>3 DEF HoldsItsOwn, Parts
  <2> QED BY <1>1, <1>3, <2>3, <2>4, StepsShrink DEF LinkInv, IsClosing, Gone
<1>4. CASE todo[l] = <<"simBus", "bus">> /\ Gone(l, {"ownBus", "thread"})
  <2>1. Released(l, Head(todo[l])) = {"simBus"} /\ Outlives(l, Head(todo[l])) = {}
    BY <1>4, StepsBegin DEF Released, Outlives
  <2> QED BY <1>1, <1>4, <2>1, StepsShrink DEF LinkInv, IsClosing, HoldsItsOwn, Gone
<1>5. CASE todo[l] = <<"bus">> /\ Gone(l, {"ownBus", "thread", "simBus"})
  <2>1. Released(l, Head(todo[l])) = {"bus"} /\ Outlives(l, Head(todo[l])) = {}
    BY <1>5, StepsBegin DEF Released, Outlives
  <2> QED BY <1>1, <1>5, <2>1, StepsShrink DEF LinkInv, IsClosing, HoldsItsOwn, Gone
<1> QED BY <1>1, <1>2, <1>3, <1>4, <1>5 DEF IsClosing

\* What a link that begins to be closed holds may be anything of its kind.
LEMMA ClosingBegins ==
  ASSUME NEW l \in Links, HoldsItsOwn(l), held'[l] = held[l], kind'[l] = kind[l], core' = core,
         phase'[l] = "closing", todo'[l] = CloseSteps
  PROVE  LinkInv(l)'
BY DEF LinkInv, HoldsItsOwn, IsClosing

\* A closing that is over.
LEMMA ClosingEnds ==
  ASSUME NEW l \in Links, LinkInv(l), phase[l] = "closing", todo[l] = <<>>,
         held'[l] = held[l], kind'[l] = kind[l], core' = core, phase'[l] = "closed"
  PROVE  LinkInv(l)'
<1>1. Gone(l, {"ownBus", "thread", "simBus", "bus"})
  BY DEF LinkInv, IsClosing, CloseSteps
<1> QED BY <1>1 DEF LinkInv, HoldsItsOwn, Gone

\* An attempt that begins has its steps before it.
LEMMA OpeningBegins ==
  ASSUME ConnectionTypes, NEW l \in Links, LinkInv(l), phase[l] \in {"unused", "checked"},
         NEW who, Begin(l, who)
  PROVE  LinkInv(l)'
<1>1. /\ held'[l] = {} /\ kind'[l] = kind[l] /\ phase'[l] = "opening"
      /\ todo'[l] = OpenSteps(kind[l])
  BY DEF Begin, ConnectionTypes, LinkInv
<1>2. kind[l] \in {"elm", "can", "virtual", "simulated"}
  BY KindsAssumption DEF ConnectionTypes
<1>3. IsOpening(l)'
  BY <1>1, <1>2 DEF IsOpening, OpenSteps
<1> QED BY <1>1, <1>3 DEF LinkInv, HoldsItsOwn

\* What can wait for Tk.
Callbacks == {"opened", "failed", "disconnect"} \X (Links \cup {NoLink})

\* Queueing a callback leaves the others where they are.
LEMMA Queued ==
  ASSUME NEW s \in Seq(Callbacks), NEW c \in Callbacks
  PROVE  /\ Append(s, c) \in Seq(Callbacks) /\ Len(s) \in Nat
         /\ Len(Append(s, c)) = Len(s) + 1 /\ Append(s, c)[Len(s) + 1] = c
         /\ \A i \in 1..Len(s) : Append(s, c)[i] = s[i]
OBVIOUS

\* Taking the first callback off the queue moves the others up by one.
LEMMA Dequeued ==
  ASSUME NEW s \in Seq(Callbacks), s # <<>>
  PROVE  /\ Tail(s) \in Seq(Callbacks) /\ Len(s) \in Nat \ {0}
         /\ Len(Tail(s)) = Len(s) - 1 /\ Head(s) = s[1]
         /\ \A i \in 1..Len(Tail(s)) : Tail(s)[i] = s[i + 1] /\ i + 1 \in 1..Len(s)
         /\ \A i \in 2..Len(s) : i - 1 \in 1..Len(Tail(s)) /\ Tail(s)[i - 1] = s[i]
OBVIOUS

\* Queueing a callback, and taking the first one off, keeps the order of the rest.
LEMMA QueuedHandOver ==
  ASSUME ConnectionInv, NEW c \in Callbacks, callbacks' = Append(callbacks, c),
         link' = link, tk' = tk,
         link # NoLink => phase'[link] = "open", tk # NoLink => phase'[tk] = "closing",
         \A m \in Links : phase[m] = "open" => phase'[m] = "open",
         c[1] = "opened" => /\ c[2] \in Links /\ c[2] # link /\ phase'[c[2]] = "open"
                            /\ \A i \in 1..Len(callbacks) : callbacks[i] # c
  PROVE  HandOverInv'
<1>1. /\ Len(callbacks) \in Nat /\ Len(callbacks') = Len(callbacks) + 1
      /\ callbacks'[Len(callbacks) + 1] = c
      /\ \A i \in 1..Len(callbacks) : callbacks'[i] = callbacks[i]
  BY Queued DEF ConnectionInv, ConnectionTypes, Callbacks
<1>2. \A i \in 1..Len(callbacks') : i \in 1..Len(callbacks) \/ i = Len(callbacks) + 1
  BY <1>1
<1>3. \A i \in 1..Len(callbacks') : callbacks'[i][1] = "opened" =>
        /\ callbacks'[i][2] \in Links /\ callbacks'[i][2] # link
        /\ phase'[callbacks'[i][2]] = "open"
  BY <1>1, <1>2 DEF ConnectionInv, HandOverInv
<1>4. ASSUME NEW i \in 1..Len(callbacks'), NEW j \in 1..Len(callbacks'),
             callbacks'[i][1] = "opened", callbacks'[j] = callbacks'[i]
      PROVE  i = j
  <2>1. CASE i \in 1..Len(callbacks) /\ j \in 1..Len(callbacks)
    BY <1>1, <1>4, <2>1 DEF ConnectionInv, HandOverInv
  <2>2. CASE i = Len(callbacks) + 1 /\ j \in 1..Len(callbacks)
    BY <1>1, <1>4, <2>2
  <2>3. CASE i \in 1..Len(callbacks) /\ j = Len(callbacks) + 1
    BY <1>1, <1>4, <2>3
  <2> QED BY <1>2, <2>1, <2>2, <2>3
<1> QED BY <1>3, <1>4 DEF HandOverInv

\* The user's one attempt ends on its thread and is reported to Tk.
LEMMA AttemptReported ==
  ASSUME ConnectionTypes, OneAttempt, NEW l \in Links, OnItsThread(l),
         phase'[l] \in {"open", "closed"}, \A m \in Links \ {l} : phase'[m] = phase[m],
         link' = link, tk' = tk, button' = button, NEW c \in Callbacks,
         callbacks' = Append(callbacks, c), phase'[l] = "open" => c = <<"opened", l>>
  PROVE  OneAttempt'
<1>1. /\ Len(callbacks) \in Nat /\ Len(callbacks') = Len(callbacks) + 1
      /\ callbacks'[Len(callbacks) + 1] = c
      /\ \A i \in 1..Len(callbacks) : callbacks'[i] = callbacks[i]
  BY Queued DEF ConnectionTypes, Callbacks
<1>2. \A i \in 1..Len(callbacks') : i \in 1..Len(callbacks) \/ i = Len(callbacks) + 1
  BY <1>1
<1>3. /\ \A m \in Links : ~ OnItsThread(m)'
      /\ ~ button' /\ link' = NoLink /\ link = NoLink
      /\ \A i \in 1..Len(callbacks) : ~ Reports(i)
  <2>1. \A m \in Links : OnItsThread(m) => m = l
    BY DEF OneAttempt
  <2>2. \A m \in Links : ~ OnItsThread(m)'
    BY <2>1 DEF OnItsThread
  <2> QED BY <2>2 DEF OneAttempt
<1>4. \A i \in 1..Len(callbacks') : Reports(i)' => i = Len(callbacks) + 1
  BY <1>1, <1>2, <1>3 DEF Reports
<1>5. ASSUME NEW m \in Links, phase'[m] = "open"
      PROVE  m = link' \/ \E i \in 1..Len(callbacks') : callbacks'[i] = <<"opened", m>>
  <2>1. CASE m = l
    <3>1. Len(callbacks) + 1 \in 1..Len(callbacks')
      BY <1>1
    <3> QED BY <1>1, <1>5, <2>1, <3>1
  <2>2. CASE m # l /\ m # link
    <3>1. PICK i \in 1..Len(callbacks) : callbacks[i] = <<"opened", m>>
      BY <1>5, <2>2 DEF OneAttempt
    <3>2. i \in 1..Len(callbacks') /\ callbacks'[i] = <<"opened", m>>
      BY <1>1, <3>1
    <3> QED BY <3>2
  <2> QED BY <2>1, <2>2
<1> QED BY <1>3, <1>4, <1>5 DEF OneAttempt

\* Nothing that bears on the attempts has changed.
LEMMA SameOpenings ==
  ASSUME OneAttempt, UNCHANGED <<link, button, tk, callbacks>>,
         \A m \in Links : \/ phase'[m] = phase[m]
                           \/ /\ phase[m] \notin {"opening", "closing", "open"}
                              /\ phase'[m] \notin {"opening", "closing", "open"}
  PROVE  OneAttempt'
<1>1. /\ link' = link /\ button' = button /\ callbacks' = callbacks /\ tk' = tk
  OBVIOUS
<1>2. /\ \A m \in Links : OnItsThread(m)' <=> OnItsThread(m)
      /\ \A i \in 1..Len(callbacks) : Reports(i)' <=> Reports(i)
  BY <1>1 DEF OnItsThread, Reports
<1>3. \A m \in Links : phase'[m] = "open" =>
        m = link' \/ \E i \in 1..Len(callbacks') : callbacks'[i] = <<"opened", m>>
  <2>1. \A m \in Links : phase'[m] = "open" => phase[m] = "open"
    OBVIOUS
  <2> QED BY <1>1, <2>1 DEF OneAttempt
<1>4. /\ \A m, n \in Links : OnItsThread(m)' /\ OnItsThread(n)' => m = n
      /\ \A m \in Links : OnItsThread(m)' => ~ button' /\ link' = NoLink
  BY <1>1, <1>2 DEF OneAttempt
<1>5. /\ \A i, j \in 1..Len(callbacks') : Reports(i)' /\ Reports(j)' => i = j
      /\ \A m \in Links, i \in 1..Len(callbacks') : ~ (OnItsThread(m)' /\ Reports(i)')
      /\ \A i \in 1..Len(callbacks') : Reports(i)' => ~ button' /\ link' = NoLink
  BY <1>1, <1>2 DEF OneAttempt
<1> QED BY <1>3, <1>4, <1>5 DEF OneAttempt

\* Nothing has happened yet.
LEMMA InitConnection == Init => ConnectionInv
<1> SUFFICES ASSUME Init PROVE ConnectionInv
  OBVIOUS
<1>1. ConnectionTypes
  <2>1. callbacks \in Seq({"opened", "failed", "disconnect"} \X (Links \cup {NoLink}))
    BY DEF Init
  <2> QED BY <2>1 DEF Init, ConnectionTypes, Phases
<1>2. \A l \in Links : LinkInv(l)
  BY DEF Init, LinkInv, HoldsItsOwn, Gone
<1>3. HandOverInv
  BY DEF Init, HandOverInv
<1>4. OneAttempt
  BY DEF Init, OneAttempt, OnItsThread, Reports
<1> QED BY <1>1, <1>2, <1>3, <1>4 DEF ConnectionInv

\* The capture loops only read.
LEMMA LoopKeeps ==
  ASSUME ConnectionInv, UNCHANGED <<link, button, tk, callbacks, linkVars, core>>
  PROVE  ConnectionInv'
<1>1. /\ link' = link /\ button' = button /\ tk' = tk /\ callbacks' = callbacks /\ kind' = kind
      /\ via' = via /\ phase' = phase /\ todo' = todo /\ held' = held /\ core' = core
  BY DEF linkVars
<1>2. ConnectionTypes'
  BY <1>1 DEF ConnectionInv, ConnectionTypes
<1>3. \A l \in Links : LinkInv(l)'
  BY <1>1, SameLink DEF ConnectionInv, Same
<1>4. HandOverInv'
  BY <1>1 DEF ConnectionInv, HandOverInv
<1>5. UserOnly' => UserOnly
  BY <1>1 DEF UserOnly
<1>6. ASSUME OneAttempt PROVE OneAttempt'
  BY <1>1, <1>6, SameOpenings
<1> QED BY <1>2, <1>3, <1>4, <1>5, <1>6 DEF ConnectionInv

\* The user begins an attempt when there is no link and no attempt.
LEMMA UserConnectsKeeps ==
  ASSUME ConnectionInv, NEW l \in Links, UserConnects(l) PROVE ConnectionInv'
<1>1. /\ tk = NoLink /\ link = NoLink /\ button /\ phase[l] = "unused" /\ Begin(l, "user")
      /\ link' = link /\ button' = FALSE /\ tk' = tk /\ callbacks' = callbacks
      /\ kind' = kind /\ held' = held /\ core' = core
      /\ via' = [via EXCEPT ![l] = "user"] /\ phase' = [phase EXCEPT ![l] = "opening"]
      /\ todo' = [todo EXCEPT ![l] = OpenSteps(kind[l])]
  BY DEF UserConnects, Free, Fresh, Begin, Alive, processVars
<1>2. ConnectionTypes'
  BY <1>1 DEF ConnectionInv, ConnectionTypes, Phases
<1>3. LinkInv(l)'
  BY <1>1, OpeningBegins DEF ConnectionInv
<1>4. \A m \in Links \ {l} : LinkInv(m)'
  BY <1>1, SameLink DEF ConnectionInv, Same, ConnectionTypes
<1>5. HandOverInv'
  BY <1>1 DEF ConnectionInv, HandOverInv, ConnectionTypes
<1>6. UserOnly' => UserOnly
  BY <1>1 DEF UserOnly, ConnectionInv, ConnectionTypes, LinkInv
<1>7. ASSUME OneAttempt PROVE OneAttempt'
  BY <1>1, <1>7 DEF OneAttempt, OnItsThread, Reports, ConnectionInv, ConnectionTypes
<1> QED BY <1>2, <1>3, <1>4, <1>5, <1>6, <1>7 DEF ConnectionInv

\* An agent that looks only makes a Link.
LEMMA AgentLooksKeeps ==
  ASSUME ConnectionInv, NEW l \in Links, AgentLooks(l) PROVE ConnectionInv'
<1>1. /\ phase[l] = "unused" /\ phase' = [phase EXCEPT ![l] = "checked"]
      /\ UNCHANGED <<link, button, tk, callbacks, kind, via, todo, held, core>>
  BY DEF AgentLooks, Fresh, studioVars, Alive, processVars
<1>2. ConnectionTypes'
  BY <1>1 DEF ConnectionInv, ConnectionTypes, Phases
<1>3. LinkInv(l)'
  BY <1>1 DEF ConnectionInv, ConnectionTypes, LinkInv, HoldsItsOwn
<1>4. \A m \in Links \ {l} : LinkInv(m)'
  BY <1>1, SameLink DEF ConnectionInv, Same, ConnectionTypes
<1>5. HandOverInv'
  BY <1>1 DEF ConnectionInv, HandOverInv, ConnectionTypes
<1>6. UserOnly' => UserOnly
  BY <1>1 DEF UserOnly
<1>7. ASSUME OneAttempt PROVE OneAttempt'
  BY <1>1, <1>7, SameOpenings DEF ConnectionInv, ConnectionTypes
<1> QED BY <1>2, <1>3, <1>4, <1>5, <1>6, <1>7 DEF ConnectionInv

\* It goes on to open its link, or is refused.
LEMMA AgentConnectsKeeps ==
  ASSUME ConnectionInv, NEW l \in Links, AgentConnects(l) PROVE ConnectionInv'
<1>1. /\ phase[l] = "checked" /\ Begin(l, "agent")
      /\ link' = link /\ button' = button /\ tk' = tk /\ callbacks' = callbacks
      /\ kind' = kind /\ held' = held /\ core' = core
      /\ via' = [via EXCEPT ![l] = "agent"] /\ phase' = [phase EXCEPT ![l] = "opening"]
      /\ todo' = [todo EXCEPT ![l] = OpenSteps(kind[l])]
  BY DEF AgentConnects, Begin, Alive, processVars
<1>2. ConnectionTypes'
  BY <1>1 DEF ConnectionInv, ConnectionTypes, Phases
<1>3. LinkInv(l)'
  BY <1>1, OpeningBegins DEF ConnectionInv
<1>4. \A m \in Links \ {l} : LinkInv(m)'
  BY <1>1, SameLink DEF ConnectionInv, Same, ConnectionTypes
<1>5. HandOverInv'
  BY <1>1 DEF ConnectionInv, HandOverInv, ConnectionTypes
<1>6. ~ UserOnly'
  BY <1>1 DEF UserOnly, ConnectionInv, ConnectionTypes
<1> QED BY <1>2, <1>3, <1>4, <1>5, <1>6 DEF ConnectionInv

\* The agent named an adapter the studio does not know: its link is never opened,
\* and the flag comes down, whoever raised it.
LEMMA AgentRefusedKeeps ==
  ASSUME ConnectionInv, NEW l \in Links, AgentRefused(l) PROVE ConnectionInv'
<1>1. /\ phase[l] = "checked" /\ phase' = [phase EXCEPT ![l] = "closed"]
      /\ UNCHANGED <<link, button, tk, callbacks, kind, via, todo, held, core>>
  BY DEF AgentRefused, Alive, processVars
<1>2. ConnectionTypes'
  BY <1>1 DEF ConnectionInv, ConnectionTypes, Phases
<1>3. LinkInv(l)'
  BY <1>1 DEF ConnectionInv, ConnectionTypes, LinkInv, HoldsItsOwn, Gone
<1>4. \A m \in Links \ {l} : LinkInv(m)'
  BY <1>1, SameLink DEF ConnectionInv, Same, ConnectionTypes
<1>5. HandOverInv'
  BY <1>1 DEF ConnectionInv, HandOverInv, ConnectionTypes
<1>6. UserOnly' => UserOnly
  BY <1>1 DEF UserOnly
<1>7. ASSUME OneAttempt PROVE OneAttempt'
  BY <1>1, <1>7, SameOpenings DEF ConnectionInv, ConnectionTypes
<1> QED BY <1>2, <1>3, <1>4, <1>5, <1>6, <1>7 DEF ConnectionInv

\* A step of an opening; the last one hands the link to Tk.
LEMMA OpenStepKeeps ==
  ASSUME ConnectionInv, NEW l \in Links, OpenStep(l) PROVE ConnectionInv'
<1>1. /\ phase[l] = "opening" /\ todo' = [todo EXCEPT ![l] = Tail(@)]
      /\ UNCHANGED <<link, button, tk, kind, via, core>>
      /\ \/ /\ phase' = [phase EXCEPT ![l] = "open"]
            /\ callbacks' = Append(callbacks, <<"opened", l>>)
         \/ phase' = phase /\ callbacks' = callbacks
  BY DEF OpenStep, Alive, processVars
<1>2. PICK parts \in Acquired(l) : held' = [held EXCEPT ![l] = @ \cup parts]
  BY DEF OpenStep
<1>3. LinkInv(l)'
  BY OpenStepLink DEF ConnectionInv
<1>4. held' \in [Links -> SUBSET Parts]
  <2>1. held'[l] \in SUBSET Parts
    BY <1>3 DEF LinkInv, HoldsItsOwn, Parts
  <2> QED BY <1>2, <2>1 DEF ConnectionInv, ConnectionTypes
<1>5. callbacks \in Seq(Callbacks) /\ <<"opened", l>> \in Callbacks
  BY DEF ConnectionInv, ConnectionTypes, Callbacks
<1>6. callbacks' \in Seq(Callbacks)
  BY <1>1, <1>5, Queued
<1>7. ConnectionTypes'
  BY <1>1, <1>4, <1>6 DEF ConnectionInv, ConnectionTypes, Phases, Callbacks
<1>8. \A m \in Links \ {l} : LinkInv(m)'
  BY <1>1, <1>2, SameLink DEF ConnectionInv, Same, ConnectionTypes
<1>9. UserOnly' => UserOnly
  BY <1>1 DEF UserOnly
<1>10. CASE phase' = phase /\ callbacks' = callbacks
  <2>1. HandOverInv'
    BY <1>1, <1>10 DEF ConnectionInv, HandOverInv
  <2>2. ASSUME OneAttempt PROVE OneAttempt'
    BY <1>1, <1>10, <2>2, SameOpenings
  <2> QED BY <1>3, <1>7, <1>8, <1>9, <2>1, <2>2 DEF ConnectionInv
<1>11. CASE /\ phase' = [phase EXCEPT ![l] = "open"]
            /\ callbacks' = Append(callbacks, <<"opened", l>>)
  <2>1. l # link /\ l # tk /\ phase'[l] = "open" /\ \A m \in Links \ {l} : phase'[m] = phase[m]
    BY <1>1, <1>11 DEF ConnectionInv, HandOverInv, ConnectionTypes, Links, NoLink
  <2>2. \A i \in 1..Len(callbacks) : callbacks[i] # <<"opened", l>>
    BY <1>1 DEF ConnectionInv, HandOverInv
  <2>3. HandOverInv'
    <3>1. /\ link # NoLink => phase'[link] = "open"
          /\ tk # NoLink => phase'[tk] = "closing"
          /\ \A m \in Links : phase[m] = "open" => phase'[m] = "open"
      BY <1>1, <2>1 DEF ConnectionInv, HandOverInv, ConnectionTypes
    <3> QED BY <1>1, <1>5, <1>11, <2>1, <2>2, <3>1, QueuedHandOver
  <2>4. ASSUME OneAttempt PROVE OneAttempt'
    BY <1>1, <1>5, <1>11, <2>1, <2>4, AttemptReported DEF OnItsThread, ConnectionInv
  <2> QED BY <1>3, <1>7, <1>8, <1>9, <2>3, <2>4 DEF ConnectionInv
<1> QED BY <1>1, <1>10, <1>11

\* A step that fails: the opener closes what it has.
LEMMA OpenStepFailsKeeps ==
  ASSUME ConnectionInv, NEW l \in Links, OpenStepFails(l) PROVE ConnectionInv'
<1>1. /\ phase[l] = "opening" /\ phase' = [phase EXCEPT ![l] = "closing"]
      /\ todo' = [todo EXCEPT ![l] = CloseSteps]
      /\ UNCHANGED <<link, button, tk, callbacks, kind, via, held, core>>
  BY DEF OpenStepFails, studioVars, Alive, processVars
<1>2. ConnectionTypes'
  BY <1>1 DEF ConnectionInv, ConnectionTypes, Phases
<1>3. LinkInv(l)'
  BY <1>1, ClosingBegins DEF ConnectionInv, ConnectionTypes, LinkInv
<1>4. \A m \in Links \ {l} : LinkInv(m)'
  BY <1>1, SameLink DEF ConnectionInv, Same, ConnectionTypes
<1>5. HandOverInv'
  BY <1>1 DEF ConnectionInv, HandOverInv, ConnectionTypes
<1>6. UserOnly' => UserOnly
  BY <1>1 DEF UserOnly
<1>7. ASSUME OneAttempt PROVE OneAttempt'
  <2>1. /\ \A m \in Links : OnItsThread(m)' => OnItsThread(m)
        /\ \A m \in Links : phase'[m] = "open" => phase[m] = "open"
    BY <1>1 DEF OnItsThread, ConnectionInv, ConnectionTypes
  <2> QED BY <1>1, <1>7, <2>1 DEF OneAttempt, Reports
<1> QED BY <1>2, <1>3, <1>4, <1>5, <1>6, <1>7 DEF ConnectionInv

\* A step of a closing.
LEMMA CloseStepKeeps ==
  ASSUME ConnectionInv, NEW l \in Links, CloseStep(l) PROVE ConnectionInv'
<1>1. /\ held' = [held EXCEPT ![l] = (@ \ Released(l, Head(todo[l])))
                                     \cup Outlives(l, Head(todo[l]))]
      /\ Outlives(l, Head(todo[l])) \subseteq Parts
      /\ todo' = [todo EXCEPT ![l] = Tail(@)]
      /\ UNCHANGED <<link, button, tk, callbacks, kind, via, phase, core>>
  BY DEF CloseStep, studioVars, Alive, processVars, Outlives, Parts
<1>2. ConnectionTypes'
  BY <1>1 DEF ConnectionInv, ConnectionTypes
<1>3. LinkInv(l)'
  BY CloseStepLink DEF ConnectionInv
<1>4. \A m \in Links \ {l} : LinkInv(m)'
  BY <1>1, SameLink DEF ConnectionInv, Same, ConnectionTypes
<1>5. HandOverInv'
  BY <1>1 DEF ConnectionInv, HandOverInv
<1>6. UserOnly' => UserOnly
  BY <1>1 DEF UserOnly
<1>7. ASSUME OneAttempt PROVE OneAttempt'
  BY <1>1, <1>7, SameOpenings
<1> QED BY <1>2, <1>3, <1>4, <1>5, <1>6, <1>7 DEF ConnectionInv

\* Only what one link holds changes when its simulator answers, or ends.
LEMMA SimulatorKeeps ==
  ASSUME ConnectionInv, NEW l \in Links, SimulatorStep(l) PROVE ConnectionInv'
<1>1. PICK part \in {"lock", "ending"} :
        /\ held' = [held EXCEPT ![l] = @ \ {part}]
           \/ /\ held' = [held EXCEPT ![l] = @ \cup {"lock"}]
              /\ core /\ "thread" \in held[l]
        /\ UNCHANGED <<link, button, tk, callbacks, kind, via, phase, todo, core>>
  <2>1. UNCHANGED <<link, button, tk, callbacks, kind, via, phase, todo, core>>
    BY DEF SimulatorStep, SimulatorAnswers, AnswerSent, SimulatorEnds, Alive, processVars,
           studioVars
  <2>2. CASE SimulatorAnswers(l)
    BY <2>1, <2>2 DEF SimulatorAnswers
  <2>3. CASE AnswerSent(l)
    BY <2>1, <2>3 DEF AnswerSent
  <2>4. CASE SimulatorEnds(l)
    BY <2>1, <2>4 DEF SimulatorEnds
  <2> QED BY <2>2, <2>3, <2>4 DEF SimulatorStep
<1>2. ConnectionTypes'
  BY <1>1 DEF ConnectionInv, ConnectionTypes, Parts
<1>3. LinkInv(l)'
  <2>1. HoldsItsOwn(l)'
    BY <1>1 DEF ConnectionInv, ConnectionTypes, LinkInv, HoldsItsOwn, Parts
  <2>2. /\ held[l] \subseteq held'[l] \cup {"lock", "ending"}
        /\ held'[l] \subseteq held[l] \cup {"lock"}
        /\ held[l] = {} => held'[l] = {}
    BY <1>1 DEF ConnectionInv, ConnectionTypes
  <2> QED BY <1>1, <2>1, <2>2 DEF ConnectionInv, LinkInv, IsOpening, IsClosing, Gone
<1>4. \A m \in Links \ {l} : LinkInv(m)'
  BY <1>1, SameLink DEF ConnectionInv, Same, ConnectionTypes
<1>5. HandOverInv'
  BY <1>1 DEF ConnectionInv, HandOverInv
<1>6. UserOnly' => UserOnly
  BY <1>1 DEF UserOnly
<1>7. ASSUME OneAttempt PROVE OneAttempt'
  BY <1>1, <1>7, SameOpenings
<1> QED BY <1>2, <1>3, <1>4, <1>5, <1>6, <1>7 DEF ConnectionInv

\* An opening that failed is over: the user's is reported to Tk.
LEMMA OpenFailedKeeps ==
  ASSUME ConnectionInv, NEW l \in Links, OpenFailed(l) PROVE ConnectionInv'
<1>1. /\ phase[l] = "closing" /\ todo[l] = <<>> /\ tk # l
      /\ phase' = [phase EXCEPT ![l] = "closed"]
      /\ UNCHANGED <<link, tk, kind, via, todo, held, core>>
      /\ button' = button
      /\ \/ via[l] = "agent" /\ callbacks' = callbacks
         \/ via[l] # "agent" /\ callbacks' = Append(callbacks, <<"failed", l>>)
  BY DEF OpenFailed, Alive, processVars
<1>2. callbacks \in Seq(Callbacks) /\ <<"failed", l>> \in Callbacks
  BY DEF ConnectionInv, ConnectionTypes, Callbacks
<1>3. callbacks' \in Seq(Callbacks)
  BY <1>1, <1>2, Queued
<1>4. ConnectionTypes'
  BY <1>1, <1>3 DEF ConnectionInv, ConnectionTypes, Phases, Callbacks
<1>5. LinkInv(l)'
  BY <1>1, ClosingEnds DEF ConnectionInv, ConnectionTypes
<1>6. \A m \in Links \ {l} : LinkInv(m)'
  BY <1>1, SameLink DEF ConnectionInv, Same, ConnectionTypes
<1>7. link # l /\ tk # l /\ phase'[l] = "closed" /\ \A m \in Links \ {l} : phase'[m] = phase[m]
  BY <1>1 DEF ConnectionInv, HandOverInv, ConnectionTypes, Links, NoLink
<1>8. CASE via[l] = "agent" /\ callbacks' = callbacks
  <2>1. HandOverInv'
    BY <1>1, <1>7, <1>8 DEF ConnectionInv, HandOverInv, ConnectionTypes
  <2>2. ~ UserOnly'
    BY <1>1, <1>8 DEF UserOnly
  <2> QED BY <1>4, <1>5, <1>6, <2>1, <2>2 DEF ConnectionInv
<1>9. CASE via[l] # "agent" /\ callbacks' = Append(callbacks, <<"failed", l>>)
  <2>1. HandOverInv'
    <3>1. /\ link # NoLink => phase'[link] = "open"
          /\ tk # NoLink => phase'[tk] = "closing"
          /\ \A m \in Links : phase[m] = "open" => phase'[m] = "open"
      BY <1>1, <1>7 DEF ConnectionInv, HandOverInv, ConnectionTypes
    <3> QED BY <1>1, <1>2, <1>9, <3>1, QueuedHandOver
  <2>2. UserOnly' => UserOnly
    BY <1>1 DEF UserOnly
  <2>3. ASSUME OneAttempt PROVE OneAttempt'
    BY <1>1, <1>2, <1>7, <1>9, <2>3, AttemptReported DEF OnItsThread, ConnectionInv
  <2> QED BY <1>4, <1>5, <1>6, <2>1, <2>2, <2>3 DEF ConnectionInv
<1> QED BY <1>1, <1>8, <1>9

\* The first k callbacks have left the queue.
Left(k) ==
  /\ callbacks \in Seq(Callbacks) /\ callbacks' \in Seq(Callbacks)
  /\ Len(callbacks) \in Nat /\ Len(callbacks') \in Nat
  /\ \A i \in 1..Len(callbacks') : i + k \in 1..Len(callbacks) /\ callbacks'[i] = callbacks[i + k]
  /\ \A i \in 1..Len(callbacks) : i > k =>
       i - k \in 1..Len(callbacks') /\ callbacks'[i - k] = callbacks[i]

\* What that says when none has left, and when Tk has taken the first.
LEMMA NoneLeft == ASSUME ConnectionTypes, callbacks' = callbacks PROVE Left(0)
BY DEF Left, ConnectionTypes, Callbacks

\* Tk takes the first callback: the queue is one shorter.
LEMMA OneLeft ==
  ASSUME ConnectionTypes, callbacks # <<>>, callbacks' = Tail(callbacks)
  PROVE  Left(1) /\ 1 \in 1..Len(callbacks) /\ Head(callbacks) = callbacks[1]
<1>1. callbacks \in Seq(Callbacks)
  BY DEF ConnectionTypes, Callbacks
<1>2. /\ Tail(callbacks) \in Seq(Callbacks) /\ Len(callbacks) \in Nat \ {0}
      /\ Len(Tail(callbacks)) = Len(callbacks) - 1 /\ Head(callbacks) = callbacks[1]
      /\ \A i \in 1..Len(Tail(callbacks)) :
           Tail(callbacks)[i] = callbacks[i + 1] /\ i + 1 \in 1..Len(callbacks)
      /\ \A i \in 2..Len(callbacks) :
           i - 1 \in 1..Len(Tail(callbacks)) /\ Tail(callbacks)[i - 1] = callbacks[i]
  BY <1>1, Dequeued
<1>3. Left(1)
  <2>1. \A i \in 1..Len(callbacks) : i > 1 => i \in 2..Len(callbacks)
    BY <1>2
  <2> QED BY <1>1, <1>2, <2>1 DEF Left
<1> QED BY <1>2, <1>3

\* Tk adopts the link that has come: whatever link there was is replaced.
LEMMA AdoptKeeps ==
  ASSUME ConnectionInv, tk = NoLink, callbacks # <<>>, callbacks' = Tail(callbacks),
         Head(callbacks)[1] = "opened", Adopt(Head(callbacks)[2]), core' = core
  PROVE  ConnectionInv'
<1>1. Left(1) /\ 1 \in 1..Len(callbacks) /\ Head(callbacks) = callbacks[1]
  BY OneLeft DEF ConnectionInv
<1>2. callbacks[1] \in Callbacks /\ callbacks[1][1] = "opened"
  BY <1>1 DEF Left
<1>3. PICK l \in Links : callbacks[1] = <<"opened", l>> /\ phase[l] = "open"
  <2>1. callbacks[1][2] \in Links /\ phase[callbacks[1][2]] = "open"
    BY <1>1, <1>2 DEF ConnectionInv, HandOverInv
  <2>2. callbacks[1] = <<"opened", callbacks[1][2]>>
    BY <1>2 DEF Callbacks
  <2> QED BY <2>1, <2>2
<1>4. /\ button' = TRUE /\ link' = l /\ tk' = tk /\ kind' = kind /\ via' = via
      /\ phase' = phase /\ todo' = todo /\ held' = held /\ core' = core
  BY <1>1, <1>3 DEF Adopt, linkVars
<1>5. ConnectionTypes'
  BY <1>1, <1>4 DEF ConnectionInv, ConnectionTypes, Left, Callbacks
<1>6. \A m \in Links : LinkInv(m)'
  BY <1>4, SameLink DEF ConnectionInv, Same
<1>7. HandOverInv'
  <2>1. link' # NoLink /\ phase'[link'] = "open" /\ tk' = NoLink
    BY <1>3, <1>4 DEF Links, NoLink
  <2>2. ASSUME NEW i \in 1..Len(callbacks'), callbacks'[i][1] = "opened"
        PROVE  /\ callbacks'[i][2] \in Links /\ callbacks'[i][2] # link'
               /\ phase'[callbacks'[i][2]] = "open"
    <3>1. /\ i + 1 \in 1..Len(callbacks) /\ callbacks'[i] = callbacks[i + 1] /\ i \in Nat
          /\ callbacks[i + 1] \in Callbacks /\ i + 1 # 1
      BY <1>1 DEF Left
    <3>2. callbacks[i + 1] # callbacks[1]
      BY <1>1, <1>2, <3>1 DEF ConnectionInv, HandOverInv
    <3>3. callbacks[i + 1] = <<"opened", callbacks[i + 1][2]>>
      BY <2>2, <3>1 DEF Callbacks
    <3>4. callbacks[i + 1][2] # l
      BY <1>3, <3>2, <3>3
    <3> QED BY <1>4, <2>2, <3>1, <3>4 DEF ConnectionInv, HandOverInv
  <2>3. \A i, j \in 1..Len(callbacks') :
          callbacks'[i][1] = "opened" /\ callbacks'[j] = callbacks'[i] => i = j
    <3>1. \A i, j \in 1..Len(callbacks') : i + 1 = j + 1 => i = j
      OBVIOUS
    <3> QED BY <1>1, <3>1 DEF Left, ConnectionInv, HandOverInv
  <2> QED BY <2>1, <2>2, <2>3 DEF HandOverInv
<1>8. UserOnly' => UserOnly
  BY <1>4 DEF UserOnly
<1>9. ASSUME OneAttempt PROVE OneAttempt'
  <2>1. /\ link = NoLink /\ (\A m \in Links : ~ OnItsThread(m))
        /\ \A i \in 1..Len(callbacks) : Reports(i) => i = 1
    BY <1>1, <1>2, <1>9 DEF OneAttempt, Reports
  <2>2. \A m \in Links : ~ OnItsThread(m)'
    BY <1>4, <2>1 DEF OnItsThread
  <2>3. \A i \in 1..Len(callbacks') : ~ Reports(i)'
    <3>1. \A i \in 1..Len(callbacks') : i + 1 # 1
      OBVIOUS
    <3> QED BY <1>1, <2>1, <3>1 DEF Left, Reports
  <2>4. ASSUME NEW m \in Links, phase'[m] = "open" PROVE m = link'
    <3>1. PICK i \in 1..Len(callbacks) : callbacks[i] = <<"opened", m>>
      <4>1. phase[m] = "open" /\ m # NoLink
        BY <1>4, <1>9, <2>4 DEF Links, NoLink
      <4>2. m = link \/ \E i \in 1..Len(callbacks) : callbacks[i] = <<"opened", m>>
        BY <1>9, <4>1 DEF OneAttempt
      <4> QED BY <2>1, <4>1, <4>2
    <3>2. i = 1
      BY <2>1, <3>1 DEF Reports
    <3> QED BY <1>3, <1>4, <3>1, <3>2
  <2> QED BY <2>2, <2>3, <2>4 DEF OneAttempt
<1> QED BY <1>5, <1>6, <1>7, <1>8, <1>9 DEF ConnectionInv

\* What a callback other than an opened link leaves of the hand-over.
LEMMA LeftHandOver ==
  ASSUME HandOverInv, NEW k \in {0, 1}, Left(k), link' \in {link, NoLink},
         link' # NoLink => phase'[link'] = "open", tk' # NoLink => phase'[tk'] = "closing",
         \A l \in Links \ {link} : phase'[l] = phase[l]
  PROVE  HandOverInv'
<1>1. \A i \in 1..Len(callbacks') : i + k \in 1..Len(callbacks) /\ callbacks'[i] = callbacks[i + k]
  BY DEF Left
<1>2. ASSUME NEW i \in 1..Len(callbacks'), callbacks'[i][1] = "opened"
      PROVE  /\ callbacks'[i][2] \in Links /\ callbacks'[i][2] # link'
             /\ phase'[callbacks'[i][2]] = "open"
  <2>1. callbacks[i + k][1] = "opened" /\ i + k \in 1..Len(callbacks)
    BY <1>1, <1>2
  <2>2. /\ callbacks[i + k][2] \in Links /\ callbacks[i + k][2] # link
        /\ phase[callbacks[i + k][2]] = "open"
    BY <2>1 DEF HandOverInv
  <2>3. callbacks[i + k][2] # NoLink
    BY <2>2 DEF Links, NoLink
  <2> QED BY <1>1, <2>2, <2>3
<1>3. ASSUME NEW i \in 1..Len(callbacks'), NEW j \in 1..Len(callbacks'),
             callbacks'[i][1] = "opened", callbacks'[j] = callbacks'[i]
      PROVE  i = j
  <2>1. /\ callbacks[i + k][1] = "opened" /\ callbacks[j + k] = callbacks[i + k]
        /\ i + k \in 1..Len(callbacks) /\ j + k \in 1..Len(callbacks)
    BY <1>1, <1>3
  <2>2. i + k = j + k
    BY <2>1 DEF HandOverInv
  <2> QED BY <2>2
<1> QED BY <1>2, <1>3 DEF HandOverInv

\* Tk learns that the user's attempt failed.
LEMMA FailureKeeps ==
  ASSUME ConnectionInv, callbacks # <<>>, callbacks' = Tail(callbacks),
         Head(callbacks)[1] = "failed", button' = TRUE,
         UNCHANGED <<link, tk, linkVars, core>>
  PROVE  ConnectionInv'
<1>1. Left(1) /\ 1 \in 1..Len(callbacks) /\ callbacks[1][1] = "failed"
  BY OneLeft DEF ConnectionInv
<1>2. /\ link' = link /\ tk' = tk /\ kind' = kind /\ via' = via
      /\ phase' = phase /\ todo' = todo /\ held' = held /\ core' = core
  BY DEF linkVars
<1>3. ConnectionTypes'
  BY <1>1, <1>2 DEF ConnectionInv, ConnectionTypes, Left, Callbacks
<1>4. \A m \in Links : LinkInv(m)'
  BY <1>2, SameLink DEF ConnectionInv, Same
<1>5. HandOverInv'
  BY <1>1, <1>2, LeftHandOver DEF ConnectionInv, HandOverInv
<1>6. UserOnly' => UserOnly
  BY <1>2 DEF UserOnly
<1>7. ASSUME OneAttempt PROVE OneAttempt'
  <2>1. /\ link = NoLink /\ (\A m \in Links : ~ OnItsThread(m))
        /\ \A i \in 1..Len(callbacks) : Reports(i) => i = 1
    BY <1>1, <1>7 DEF OneAttempt, Reports
  <2>2. \A m \in Links : ~ OnItsThread(m)'
    BY <1>2, <2>1 DEF OnItsThread
  <2>3. \A i \in 1..Len(callbacks') : ~ Reports(i)'
    <3>1. \A i \in 1..Len(callbacks') : i + 1 # 1
      OBVIOUS
    <3> QED BY <1>1, <2>1, <3>1 DEF Left, Reports
  <2>4. ASSUME NEW m \in Links, phase'[m] = "open" PROVE FALSE
    <3>1. PICK i \in 1..Len(callbacks) : callbacks[i] = <<"opened", m>>
      <4>1. phase[m] = "open" /\ m # NoLink
        BY <1>2, <1>7, <2>4 DEF Links, NoLink
      <4>2. m = link \/ \E i \in 1..Len(callbacks) : callbacks[i] = <<"opened", m>>
        BY <1>7, <4>1 DEF OneAttempt
      <4> QED BY <2>1, <4>1, <4>2
    <3>2. i = 1
      BY <2>1, <3>1 DEF Reports
    <3> QED BY <1>1, <3>1, <3>2
  <2> QED BY <2>2, <2>3, <2>4 DEF OneAttempt
<1> QED BY <1>3, <1>4, <1>5, <1>6, <1>7 DEF ConnectionInv

\* Tk begins to close the studio's link, from its own handler or a callback.
LEMMA DisconnectKeeps ==
  ASSUME ConnectionInv, tk = NoLink, Disconnect, NEW k \in {0, 1}, Left(k),
         \A i \in 1..Len(callbacks) : i <= k => callbacks[i][1] = "disconnect"
  PROVE  ConnectionInv'
<1>1. /\ link' = NoLink /\ tk' = link /\ button' = button /\ kind' = kind /\ via' = via
      /\ held' = held /\ core' = core
      /\ \/ link = NoLink /\ phase' = phase /\ todo' = todo
         \/ /\ link # NoLink /\ phase' = [phase EXCEPT ![link] = "closing"]
            /\ todo' = [todo EXCEPT ![link] = CloseSteps]
  BY DEF Disconnect, Alive, processVars
<1>2. \A m \in Links \ {link} : phase'[m] = phase[m] /\ todo'[m] = todo[m]
  BY <1>1 DEF ConnectionInv, ConnectionTypes
<1>3. link # NoLink => /\ link \in Links /\ phase[link] = "open"
                       /\ phase'[link] = "closing" /\ todo'[link] = CloseSteps
  <2>1. link # NoLink => link \in Links /\ phase[link] = "open"
    BY DEF ConnectionInv, ConnectionTypes, HandOverInv
  <2> QED BY <1>1, <2>1 DEF ConnectionInv, ConnectionTypes
<1>4. ConnectionTypes'
  BY <1>1 DEF ConnectionInv, ConnectionTypes, Left, Callbacks, Phases
<1>5. ASSUME NEW m \in Links PROVE LinkInv(m)'
  <2>1. CASE m = link
    BY <1>1, <1>3, <2>1, ClosingBegins DEF ConnectionInv, LinkInv, Links, NoLink
  <2>2. CASE m # link
    <3>1. LinkInv(m) /\ m # tk
      BY DEF ConnectionInv, Links, NoLink
    <3> QED BY <1>1, <1>2, <2>2, <3>1 DEF LinkInv, HoldsItsOwn, IsOpening, IsClosing, Gone
  <2> QED BY <2>1, <2>2
<1>6. HandOverInv'
  BY <1>1, <1>2, <1>3, LeftHandOver DEF ConnectionInv
<1>7. UserOnly' => UserOnly
  BY <1>1 DEF UserOnly
<1>8. ASSUME OneAttempt PROVE OneAttempt'
  <2>1. \A m \in Links : OnItsThread(m)' => OnItsThread(m)
    BY <1>1, <1>2, <1>3 DEF OnItsThread, Links, NoLink
  <2>2. \A i \in 1..Len(callbacks') : i + k \in 1..Len(callbacks) /\ (Reports(i)' => Reports(i + k))
    BY DEF Left, Reports
  <2>3. \A i, j \in 1..Len(callbacks') : i + k = j + k => i = j
    OBVIOUS
  <2>4. ASSUME NEW m \in Links, phase'[m] = "open"
        PROVE  \E i \in 1..Len(callbacks') : callbacks'[i] = <<"opened", m>>
    <3>1. m # link /\ phase[m] = "open"
      BY <1>2, <1>3, <2>4 DEF Links, NoLink
    <3>2. PICK i \in 1..Len(callbacks) : callbacks[i] = <<"opened", m>>
      BY <1>8, <3>1 DEF OneAttempt
    <3>3. i > k
      BY <3>2
    <3> QED BY <3>2, <3>3 DEF Left
  <2> QED BY <1>1, <1>8, <2>1, <2>2, <2>3, <2>4 DEF OneAttempt
<1> QED BY <1>4, <1>5, <1>6, <1>7, <1>8 DEF ConnectionInv

\* Tk has closed the link it was closing.
LEMMA DisconnectDoneKeeps == ASSUME ConnectionInv, DisconnectDone PROVE ConnectionInv'
<1>1. /\ tk \in Links /\ phase[tk] = "closing" /\ todo[tk] = <<>>
      /\ phase' = [phase EXCEPT ![tk] = "closed"] /\ tk' = NoLink
      /\ UNCHANGED <<link, button, callbacks, kind, via, todo, held, core>>
  BY DEF DisconnectDone, ConnectionInv, ConnectionTypes, Alive, processVars
<1>2. phase'[tk] = "closed" /\ (\A m \in Links \ {tk} : phase'[m] = phase[m]) /\ link # tk
  <2>1. link # tk
    BY <1>1 DEF ConnectionInv, HandOverInv, Links, NoLink
  <2> QED BY <1>1, <2>1 DEF ConnectionInv, ConnectionTypes
<1>3. ConnectionTypes'
  BY <1>1 DEF ConnectionInv, ConnectionTypes, Phases
<1>4. ASSUME NEW m \in Links PROVE LinkInv(m)'
  <2>1. CASE m = tk
    BY <1>1, <1>2, <2>1, ClosingEnds DEF ConnectionInv
  <2>2. CASE m # tk
    BY <1>1, <1>2, <2>2 DEF ConnectionInv, LinkInv, HoldsItsOwn, IsOpening, IsClosing, Gone
  <2> QED BY <2>1, <2>2
<1>5. HandOverInv'
  BY <1>1, <1>2 DEF ConnectionInv, HandOverInv, ConnectionTypes
<1>6. UserOnly' => UserOnly
  BY <1>1 DEF UserOnly
<1>7. ASSUME OneAttempt PROVE OneAttempt'
  <2>1. /\ \A m \in Links : OnItsThread(m)' => OnItsThread(m)
        /\ \A m \in Links : phase'[m] = "open" => phase[m] = "open"
        /\ \A i \in 1..Len(callbacks) : Reports(i)' <=> Reports(i)
    BY <1>1, <1>2 DEF OnItsThread, Reports, Links, NoLink
  <2> QED BY <1>1, <1>7, <2>1 DEF OneAttempt
<1> QED BY <1>3, <1>4, <1>5, <1>6, <1>7 DEF ConnectionInv

\* An agent asks Tk to disconnect.
LEMMA AgentDisconnectsKeeps == ASSUME ConnectionInv, AgentDisconnects PROVE ConnectionInv'
<1>1. /\ callbacks' = Append(callbacks, <<"disconnect", NoLink>>) /\ link # NoLink
      /\ link' = link /\ button' = button /\ tk' = tk /\ kind' = kind /\ via' = via
      /\ phase' = phase /\ todo' = todo /\ held' = held /\ core' = core
  BY DEF AgentDisconnects, linkVars, Alive, processVars
<1>2. callbacks \in Seq(Callbacks) /\ <<"disconnect", NoLink>> \in Callbacks
  BY DEF ConnectionInv, ConnectionTypes, Callbacks
<1>3. /\ callbacks' \in Seq(Callbacks) /\ Len(callbacks) \in Nat
      /\ Len(callbacks') = Len(callbacks) + 1
      /\ callbacks'[Len(callbacks) + 1] = <<"disconnect", NoLink>>
      /\ \A i \in 1..Len(callbacks) : callbacks'[i] = callbacks[i]
  BY <1>1, <1>2, Queued
<1>4. ConnectionTypes'
  BY <1>1, <1>3 DEF ConnectionInv, ConnectionTypes, Callbacks
<1>5. \A m \in Links : LinkInv(m)'
  BY <1>1, SameLink DEF ConnectionInv, Same
<1>6. HandOverInv'
  BY <1>1, <1>2, QueuedHandOver DEF ConnectionInv, HandOverInv
<1>7. UserOnly' => UserOnly
  BY <1>1 DEF UserOnly
<1>8. ASSUME OneAttempt PROVE OneAttempt'
  <2>1. /\ \A m \in Links : ~ OnItsThread(m)
        /\ \A i \in 1..Len(callbacks) : ~ Reports(i)
    BY <1>1, <1>8 DEF OneAttempt
  <2>2. \A m \in Links : ~ OnItsThread(m)'
    BY <1>1, <2>1 DEF OnItsThread
  <2>3. \A i \in 1..Len(callbacks') : ~ Reports(i)'
    <3>1. \A i \in 1..Len(callbacks') : i \in 1..Len(callbacks) \/ i = Len(callbacks) + 1
      BY <1>3
    <3> QED BY <1>3, <2>1, <3>1 DEF Reports
  <2>4. ASSUME NEW m \in Links, phase'[m] = "open" PROVE m = link'
    <3>1. \A i \in 1..Len(callbacks) : callbacks[i] # <<"opened", m>>
      BY <2>1 DEF Reports
    <3> QED BY <1>1, <1>8, <2>4, <3>1 DEF OneAttempt
  <2> QED BY <2>2, <2>3, <2>4 DEF OneAttempt
<1> QED BY <1>4, <1>5, <1>6, <1>7, <1>8 DEF ConnectionInv

\* Every step.
LEMMA ConnectionKept == ConnectionInv /\ [Next]_vars => ConnectionInv'
<1> SUFFICES ASSUME ConnectionInv, [Next]_vars PROVE ConnectionInv'
  OBVIOUS
<1>1. CASE UNCHANGED vars
  BY <1>1, LoopKeeps DEF vars, studioVars, processVars
<1>2. CASE UserDisconnects
  <2>1. tk = NoLink /\ Disconnect /\ Left(0)
    BY <1>2, NoneLeft DEF UserDisconnects, ConnectionInv
  <2>2. \A i \in 1..Len(callbacks) : ~ (i <= 0)
    BY <2>1 DEF Left
  <2> QED BY <2>1, <2>2, DisconnectKeeps
<1>3. CASE AgentDisconnects
  BY <1>3, AgentDisconnectsKeeps
<1>4. CASE RunCallback
  <2>1. tk = NoLink /\ callbacks # <<>> /\ callbacks' = Tail(callbacks) /\ core' = core
    BY <1>4 DEF RunCallback, Alive, processVars
  <2>2. CASE Head(callbacks)[1] = "opened" /\ Adopt(Head(callbacks)[2])
    BY <2>1, <2>2, AdoptKeeps
  <2>3. CASE /\ Head(callbacks)[1] = "failed" /\ button' = TRUE
             /\ UNCHANGED <<link, running, bus, tk, linkVars, loopVars>>
    BY <2>1, <2>3, FailureKeeps
  <2>4. CASE Head(callbacks)[1] = "disconnect" /\ Disconnect
    <3>1. Left(1) /\ Head(callbacks) = callbacks[1]
      BY <2>1, OneLeft DEF ConnectionInv
    <3>2. \A i \in 1..Len(callbacks) : i <= 1 => callbacks[i][1] = "disconnect"
      BY <2>4, <3>1 DEF Left
    <3> QED BY <2>1, <2>4, <3>1, <3>2, DisconnectKeeps
  <2> QED BY <1>4, <2>2, <2>3, <2>4 DEF RunCallback
<1>5. CASE DisconnectDone
  BY <1>5, DisconnectDoneKeeps
<1>6. ASSUME NEW l \in Links,
             UserConnects(l) \/ AgentLooks(l) \/ LinkStep(l) \/ LoopStep(l) \/ SimulatorStep(l)
      PROVE  ConnectionInv'
  <2>1. CASE LoopStep(l)
    BY <2>1, LoopKeeps DEF LoopStep, LoopChecks, LoopTakesBus, RecvReturns, studioVars,
       Alive, processVars
  <2>2. CASE CloseFreezes(l)
    BY <2>2, LoopKeeps DEF CloseFreezes, studioVars
  <2>3. CASE LinkStep(l) /\ ~ CloseFreezes(l)
    BY <2>3, AgentConnectsKeeps, AgentRefusedKeeps, OpenStepKeeps, OpenStepFailsKeeps,
       CloseStepKeeps, OpenFailedKeeps DEF LinkStep
  <2> QED BY <1>6, <2>1, <2>2, <2>3, UserConnectsKeeps, AgentLooksKeeps, SimulatorKeeps
<1> QED BY <1>1, <1>2, <1>3, <1>4, <1>5, <1>6 DEF Next

\* What LinksAccounted says, from the invariant.
LEMMA AccountsFollow == ConnectionInv => LinksAccounted
<1> SUFFICES ASSUME ConnectionInv PROVE LinksAccounted
  OBVIOUS
<1>1. CanLinksLetGo
  BY DEF CanLinksLetGo, ConnectionInv, LinkInv, HoldsItsOwn, Gone, Parts
<1>2. SimulatorHasItsBus
  BY DEF SimulatorHasItsBus, ConnectionInv, LinkInv, HoldsItsOwn
<1>3. NoOrphan
  BY DEF NoOrphan, ConnectionInv, UserOnly, OneAttempt, Contains
<1> QED BY <1>1, <1>2, <1>3 DEF LinksAccounted

\* Wherever an opening fails and whoever closes, what a link acquired is let go of (but
\* for an ELM327's transport and a simulator that is ending), a simulator not told to stop
\* has its bus, and the user's open link is the studio's or on its way to it
\* (Link.open, Link.close, _connect_link, _link_opened, _disconnect).
THEOREM LinksStayAccounted == Spec => []LinksAccounted
<1>1. Spec => []ConnectionInv
  BY InitConnection, ConnectionKept, PTL DEF Spec
<1> QED BY <1>1, AccountsFollow, PTL

-----------------------------------------------------------------------------
\* What an answer says of the frames that go with it.
Outcome(o) == /\ o.answer = "sent" <=> Len(o.frames) = 1
              /\ o.frames = <<>> \/ Len(o.frames) = 1
              /\ o.frames # <<>> => adapter = "up"

\* The induction hypothesis.
RequestsInv ==
  /\ adapter \in {"none", "up", "faulty"}
  /\ AnswerTellsWhatWentOut

\* What is said in words sends nothing.
LEMMA Saying == ASSUME NEW text, text # "sent" PROVE Outcome(Say(text))
BY DEF Outcome, Say

\* A frame is said to be sent when the adapter took it, and only then.
LEMMA Transmitting ==
  ASSUME adapter \in {"none", "up", "faulty"}, NEW f PROVE Outcome(Transmit(f))
<1>1. CASE adapter = "none"
  <2>1. Transmit(f) = Say("not connected")
    BY <1>1 DEF Transmit
  <2> QED BY <2>1, Saying
<1>2. CASE adapter = "up" /\ Range(f.data) \subseteq Byte
  <2>1. Transmit(f) = [answer |-> "sent", frames |-> <<f>>]
    BY <1>2 DEF Transmit
  <2> QED BY <1>2, <2>1 DEF Outcome
<1>3. CASE adapter # "none" /\ ~ (adapter = "up" /\ Range(f.data) \subseteq Byte)
  <2>1. Transmit(f) = Say("failed")
    BY <1>3 DEF Transmit
  <2> QED BY <2>1, Saying
<1> QED BY <1>1, <1>2, <1>3

\* Help is always there: every message has a handler, and the first test that
\* matches decides.
LEMMA HandlerFound ==
  ASSUME NEW m
  PROVE  /\ Handler(m) \in {"look", "connect", "disconnect", "nmt", "sync", "send", "sdo", "help"}
         /\ Looks(m) => Handler(m) = "look"
<1> DEFINE I == {i \in 1..Len(Order) : Matches(m, Order[i])}
           n == CHOOSE i \in I : \A j \in I : i <= j
<1>1. Len(Order) = 8 /\ Order[8] = "help" /\ Order[1] = "look"
  BY DEF Order
<1>2. 8 \in I
  BY <1>1 DEF Matches
<1>3. SelectInSeq(Order, LAMBDA test : Matches(m, test)) = n
  BY <1>2 DEF SelectInSeq, Min
<1>4. \E i \in I : \A j \in I : i <= j
  <2> HIDE DEF I
  <2>1. I \subseteq 1..8
    BY <1>1 DEF I
  <2>2. \A j \in I : j \in {1, 2, 3, 4, 5, 6, 7, 8}
    BY <2>1
  <2> QED BY <1>2, <2>2
<1>5. n \in I /\ \A j \in I : n <= j
  BY <1>4
<1>6. n \in 1..8
  BY <1>1, <1>5
<1>7. Handler(m) = Order[n]
  BY <1>3 DEF Handler
<1>8. Order[n] \in {"look", "connect", "disconnect", "nmt", "sync", "send", "sdo", "help"}
  <2> HIDE DEF n
  <2> QED BY <1>6 DEF Order
<1>9. ASSUME Looks(m) PROVE Order[n] = "look"
  <2>1. 1 \in I
    <3>1. Matches(m, "look") = Looks(m)
      BY DEF Matches
    <3>2. 1 \in 1..8
      OBVIOUS
    <3> QED BY <1>1, <1>9, <3>1, <3>2
  <2>2. n = 1
    <3> HIDE DEF n, I
    <3> QED BY <1>5, <1>6, <2>1
  <2> QED BY <1>1, <2>2
<1> QED BY <1>7, <1>8, <1>9

\* Whatever message is handled, and whatever tool is called.
LEMMA MessageOutcome ==
  ASSUME adapter \in {"none", "up", "faulty"}, NEW m,
         Handler(m) \notin {"connect", "disconnect"}
  PROVE  Outcome(HandleMessage(m))
<1>1. CASE Handler(m) = "nmt"
  BY <1>1, Transmitting DEF HandleMessage, SendNmt
<1>2. CASE Handler(m) = "sync"
  BY <1>2, Transmitting DEF HandleMessage, SendSync
<1>3. CASE Handler(m) = "send"
  BY <1>3, Transmitting DEF HandleMessage, HandleSend, SendFrame
<1>4. CASE Handler(m) = "sdo"
  <2>1. Outcome(HandleSdo(m))
    BY Transmitting, Saying DEF HandleSdo, SendSdoRead
  <2> QED BY <1>4, <2>1 DEF HandleMessage
<1>5. CASE Handler(m) = "look"
  BY <1>5, Saying DEF HandleMessage
<1>6. CASE Handler(m) = "help"
  BY <1>6, Saying DEF HandleMessage
<1> QED BY <1>1, <1>2, <1>3, <1>4, <1>5, <1>6, HandlerFound

\* Every MCP tool call has an outcome that says so, too.
LEMMA ToolOutcome ==
  ASSUME adapter \in {"none", "up", "faulty"}, NEW call \in ToolCalls
  PROVE  Outcome(Tool(call))
<1>1. CASE call.tool = "send_frame"
  BY <1>1, Transmitting, Saying DEF Tool, SendFrame
<1>2. CASE call.tool = "send_nmt"
  BY <1>2, Transmitting, Saying DEF Tool, SendNmt
<1>3. CASE call.tool = "send_sync"
  BY <1>3, Transmitting DEF Tool, SendSync
<1>4. CASE call.tool = "sdo_read"
  BY <1>4, Transmitting DEF Tool, SendSdoRead
<1> QED BY <1>1, <1>2, <1>3, <1>4, RequestsAssumption

\* A request, its outcome and what it leaves of the adapter.
LEMMA PostLeaves ==
  ASSUME RequestsInv, NEW request \in Posts, Endpoint(request)
  PROVE  /\ asked' = request /\ adapter' \in {"none", "up", "faulty"}
         /\ answer' = "sent" <=> Len(frames') = 1
         /\ frames' # <<>> => adapter' = "up"
         /\ Rejected(request) \/ request.method # "message/send" \/ Looks(request.message)
              => frames' = <<>> /\ adapter' = adapter
<1>1. adapter \in {"none", "up", "faulty"}
  BY DEF RequestsInv
<1>2. ASSUME NEW text, text # "sent", Answered(request, Say(text)),
             adapter' = adapter
      PROVE  /\ asked' = request /\ answer' # "sent"
             /\ frames' = <<>> /\ adapter' = adapter
  BY <1>2 DEF Answered, Say
<1>3. CASE Rejected(request)
  BY <1>1, <1>2, <1>3 DEF Endpoint
<1>4. CASE ~ Rejected(request) /\ request.method = Absent
  <2>1. Answered(request, Say("parse error")) /\ adapter' = adapter
    BY <1>4, RequestsAssumption DEF Endpoint
  <2>2. /\ asked' = request /\ answer' # "sent"
        /\ frames' = <<>> /\ adapter' = adapter
    BY <1>2, <2>1
  <2> QED BY <1>1, <2>2
<1>5. CASE /\ ~ Rejected(request) /\ request.method # Absent
           /\ request.method # "message/send"
  <2>1. Answered(request, Say("no such method")) /\ adapter' = adapter
    BY <1>5 DEF Endpoint
  <2>2. /\ asked' = request /\ answer' # "sent"
        /\ frames' = <<>> /\ adapter' = adapter
    BY <1>2, <2>1
  <2> QED BY <1>1, <2>2
<1>6. CASE /\ ~ Rejected(request) /\ request.method # Absent
           /\ request.method = "message/send"
  <2> DEFINE m == request.message
  <2>1. CASE Handler(m) = "connect"
    <3>1. asked' = request /\ frames' = <<>> /\ HandleConnect(m)
      BY <1>6, <2>1 DEF Endpoint
    <3>2. /\ adapter' \in {"none", "up", "faulty"}
          /\ answer' \in {"failed", "already connected", "connected"}
      BY <1>1, <3>1 DEF HandleConnect
    <3>3. ~ Looks(m)
      BY <2>1, HandlerFound
    <3>4. Len(frames') = 0
      BY <3>1
    <3>5. ~ (Rejected(request) \/ request.method # "message/send" \/ Looks(request.message))
      BY <1>6, <3>3
    <3>6. asked' = request /\ frames' = <<>>
      BY <3>1
    <3>7. adapter' \in {"none", "up", "faulty"} /\ answer' # "sent"
      BY <3>2
    <3> QED BY <3>4, <3>5, <3>6, <3>7
  <2>2. CASE Handler(m) = "disconnect"
    <3>1. asked' = request /\ frames' = <<>> /\ HandleDisconnect
      BY <1>6, <2>2 DEF Endpoint
    <3>2. adapter' = "none" /\ answer' \in {"not connected", "disconnected"}
      BY <3>1 DEF HandleDisconnect
    <3>3. ~ Looks(m)
      BY <2>2, HandlerFound
    <3>4. Len(frames') = 0
      BY <3>1
    <3>5. ~ (Rejected(request) \/ request.method # "message/send" \/ Looks(request.message))
      BY <1>6, <3>3
    <3>6. asked' = request /\ frames' = <<>>
      BY <3>1
    <3>7. adapter' \in {"none", "up", "faulty"} /\ answer' # "sent"
      BY <3>2
    <3> QED BY <3>4, <3>5, <3>6, <3>7
  <2>3. CASE Handler(m) \notin {"connect", "disconnect"}
    <3>1. Answered(request, HandleMessage(m)) /\ adapter' = adapter
      BY <1>6, <2>3 DEF Endpoint
    <3>2. /\ asked' = request /\ frames' = HandleMessage(m).frames
          /\ answer' = HandleMessage(m).answer
      BY <3>1 DEF Answered
    <3>3. Outcome(HandleMessage(m))
      BY <1>1, <2>3, MessageOutcome
    <3>4. ASSUME Looks(m) PROVE frames' = <<>>
      <4>1. HandleMessage(m) = Say("shown")
        BY <3>4, HandlerFound DEF HandleMessage
      <4> QED BY <3>2, <4>1 DEF Say
    <3> QED BY <1>1, <1>6, <3>1, <3>2, <3>3, <3>4 DEF Outcome
  <2> QED BY <2>1, <2>2, <2>3
<1> QED BY <1>3, <1>4, <1>5, <1>6

\* A step answers one request, or is done with it.
LEMMA RequestsKept == RequestsInv /\ [RequestsNext]_requestVars => RequestsInv'
<1> SUFFICES ASSUME RequestsInv, [RequestsNext]_requestVars PROVE RequestsInv'
  OBVIOUS
<1>1. CASE UNCHANGED requestVars
  BY <1>1 DEF requestVars, RequestsInv, AnswerTellsWhatWentOut
<1>2. CASE Post
  <2>1. PICK request \in Posts : Endpoint(request)
    BY <1>2 DEF Post
  <2>2. counted' = 0 /\ "tool" \notin DOMAIN request
    BY <1>2, RequestsAssumption DEF Post
  <2>3. /\ asked' = request /\ adapter' \in {"none", "up", "faulty"}
        /\ answer' = "sent" <=> Len(frames') = 1
        /\ frames' # <<>> => adapter' = "up"
    BY <2>1, PostLeaves
  <2> QED BY <2>2, <2>3 DEF RequestsInv, AnswerTellsWhatWentOut
<1>3. CASE CallTool
  <2>1. PICK call \in ToolCalls : Answered(call, Tool(call))
    BY <1>3 DEF CallTool
  <2>2. /\ adapter' = adapter /\ adapter \in {"none", "up", "faulty"}
        /\ counted' = IF answer' = "sent" THEN 1 ELSE 0
    BY <1>3 DEF CallTool, RequestsInv
  <2>3. Outcome(Tool(call))
    BY <2>2, ToolOutcome
  <2>4. /\ asked' = call /\ frames' = Tool(call).frames /\ answer' = Tool(call).answer
    BY <2>1 DEF Answered
  <2>5. frames' = <<>> \/ Len(frames') = 1
    BY <2>3, <2>4 DEF Outcome
  <2>6. frames' = <<>> => Len(frames') = 0
    OBVIOUS
  <2> QED BY <2>2, <2>3, <2>4, <2>5, <2>6 DEF RequestsInv, AnswerTellsWhatWentOut, Outcome
<1>4. CASE AskGate
  <2>1. /\ adapter' = adapter /\ switches' = switches /\ counted' = 0
    BY <1>4 DEF AskGate
  <2>2. PICK call \in GateCalls :
          LET allowed == IF call.confirm = Absent
                         THEN Allows(call.gate, call.service, call.identifier)
                         ELSE Check(call.gate, call.service, call.identifier, call.confirm)
          IN Answered(call, Say(IF allowed THEN "allowed" ELSE "refused"))
    BY <1>4 DEF AskGate
  <2>3. /\ asked' = call /\ frames' = <<>>
        /\ answer' = "refused" \/ answer' = "allowed"
    BY <2>2 DEF Answered, Say
  <2>4. Len(frames') = 0
    BY <2>3
  <2> QED BY <2>1, <2>3, <2>4 DEF RequestsInv, AnswerTellsWhatWentOut
<1>5. CASE Done
  <2>1. /\ adapter' = adapter /\ asked' = Absent /\ frames' = <<>> /\ answer' = Absent
        /\ Len(frames') = 0
    BY <1>5 DEF Done
  <2> QED BY <2>1, RequestsAssumption DEF RequestsInv, AnswerTellsWhatWentOut
<1> QED BY <1>1, <1>2, <1>3, <1>4, <1>5 DEF RequestsNext

\* No behaviour of the requests leaves the invariant.
LEMMA RequestsInvariant == RequestsSpec => []RequestsInv
<1>1. RequestsInit => RequestsInv
  <2> SUFFICES ASSUME RequestsInit PROVE RequestsInv
    OBVIOUS
  <2>1. /\ adapter \in {"none", "up", "faulty"} /\ asked = Absent /\ answer = Absent
        /\ frames = <<>> /\ Len(frames) = 0
    BY DEF RequestsInit
  <2> QED BY <2>1, RequestsAssumption DEF RequestsInv, AnswerTellsWhatWentOut
<1> QED BY <1>1, RequestsKept, PTL DEF RequestsSpec

\* What an agent sees is what happened: "sent" exactly when one frame went out on a bus
\* that works, counted as such, and nothing done for a request that is refused, is no
\* message or looks at something, whatever else it says (a2a_server.py, mcp_server.py).
THEOREM AgentsSeeWhatHappened == RequestsSpec => AnswersAreTrue
<1>1. RequestsInv => AnswerTellsWhatWentOut
  BY DEF RequestsInv
<1>2. RequestsInv /\ [RequestsNext]_requestVars =>
        [ /\ asked = Absent /\ asked' # Absent /\ "method" \in DOMAIN asked'
          /\ \/ Rejected(asked') \/ asked'.method # "message/send" \/ Looks(asked'.message)
          => frames' = <<>> /\ adapter' = adapter ]_requestVars
  <2> SUFFICES ASSUME RequestsInv, RequestsNext, asked = Absent, asked' # Absent,
                      "method" \in DOMAIN asked',
                      \/ Rejected(asked') \/ asked'.method # "message/send"
                      \/ Looks(asked'.message)
               PROVE  frames' = <<>> /\ adapter' = adapter
    OBVIOUS
  <2>1. CASE Post
    <3>1. PICK request \in Posts : Endpoint(request)
      BY <2>1 DEF Post
    <3> QED BY <3>1, PostLeaves
  <2>2. CASE CallTool
    BY <2>2, RequestsAssumption DEF CallTool, Answered
  <2>3. CASE AskGate
    BY <2>3 DEF AskGate, Answered, Say
  <2> QED BY <2>1, <2>2, <2>3 DEF RequestsNext, Done
<1>3. RequestsSpec => [][ /\ asked = Absent /\ asked' # Absent /\ "method" \in DOMAIN asked'
          /\ \/ Rejected(asked') \/ asked'.method # "message/send" \/ Looks(asked'.message)
          => frames' = <<>> /\ adapter' = adapter ]_requestVars
  BY <1>2, RequestsInvariant, PTL DEF RequestsSpec
<1> QED BY <1>1, <1>3, RequestsInvariant, PTL DEF AnswersAreTrue, LookingActsOnNothing

-----------------------------------------------------------------------------
\* What the rules of a profile ask of the maker and the prefix of a VIN.
Agrees(rules, vin) == /\ rules.wmi # {} => vin[1] \in rules.wmi
                      /\ rules.prefixes # {} => \E p \in rules.prefixes : IsPrefix(p, vin)

\* What a resolution may return for a vehicle, and for a choice by hand.
Fitting(match, vehicle, manual) ==
  /\ match.stage \in {"vin", "fingerprint"} /\ vehicle.vin # None =>
       Agrees(match.profile.rules, vehicle.vin)
  /\ match.stage \notin {"vin", "fingerprint", "manual"} => match.id = Base
  /\ manual # None => match.id = manual

\* The fields of a session; from its resolution on the match is the vehicle's or the
\* choice.
SessionFields == {"phase", "vehicle", "manual", "match", "table"}
SessionFits(s) ==
  /\ DOMAIN session[s] = SessionFields
  /\ session[s].phase \in {"resolved", "open"} =>
       Fitting(session[s].match, session[s].vehicle,
               IF s = "mcp" THEN session[s].manual ELSE None)

\* The induction hypothesis.
ProfilesInv == /\ DOMAIN session = {"gui", "mcp"}
               /\ \A s \in {"gui", "mcp"} : SessionFits(s)

\* A candidate of either stage does not contradict the VIN.
LEMMA BestAgrees ==
  ASSUME NEW library, NEW vehicle, vehicle.vin # None,
         NEW id \in Best(library, vehicle, VinScores(library, vehicle))
                    \cup Best(library, vehicle, FingerprintScores(library, vehicle))
  PROVE  Agrees(library[id].rules, vehicle.vin)
<1>1. ASSUME NEW scores, id \in Best(library, vehicle, scores)
      PROVE  \E x \in scores : x[2] # None /\ x[1] = id
  BY <1>1 DEF Best
<1>2. CASE id \in Best(library, vehicle, VinScores(library, vehicle))
  <2>1. PICK x \in VinScores(library, vehicle) : x[2] # None /\ x[1] = id
    BY <1>1, <1>2
  <2>2. ScoreAgainstVin(library[id].rules, vehicle) # None
    BY <2>1 DEF VinScores
  <2> QED BY <2>2 DEF ScoreAgainstVin, Starts, Agrees
<1>3. CASE id \in Best(library, vehicle, FingerprintScores(library, vehicle))
  <2>1. PICK x \in FingerprintScores(library, vehicle) : x[2] # None /\ x[1] = id
    BY <1>1, <1>3
  <2>2. ~ ContradictsVin(library[id].rules, vehicle)
    BY <2>1 DEF FingerprintScores
  <2> QED BY <2>2 DEF ContradictsVin, Starts, Agrees
<1> QED BY <1>2, <1>3

\* Whatever the resolver returns fits.
LEMMA ResolveFits ==
  ASSUME NEW library, NEW vehicle, NEW manual, NEW match \in Resolve(library, vehicle, manual)
  PROVE  Fitting(match, vehicle, manual)
<1> DEFINE byVin == Best(library, vehicle, VinScores(library, vehicle))
           byFingerprint == Best(library, vehicle, FingerprintScores(library, vehicle))
<1>1. ASSUME NEW id, NEW stage
      PROVE  /\ Match(library, id, stage).id = id /\ Match(library, id, stage).stage = stage
             /\ Match(library, id, stage).profile.rules = library[id].rules
  BY DEF Match, Resolved
<1>2. CASE manual # None
  <2>1. match = Match(library, manual, "manual")
    BY <1>2 DEF Resolve
  <2> QED BY <1>1, <2>1 DEF Fitting
<1>3. CASE manual = None /\ byVin # {}
  <2>1. PICK id \in byVin : match = Match(library, id, "vin")
    BY <1>3 DEF Resolve
  <2>2. vehicle.vin # None => Agrees(library[id].rules, vehicle.vin)
    BY <2>1, BestAgrees
  <2> HIDE DEF byVin
  <2> QED BY <1>1, <1>3, <2>1, <2>2 DEF Fitting
<1>4. CASE manual = None /\ byVin = {} /\ byFingerprint # {}
  <2>1. PICK id \in byFingerprint : match = Match(library, id, "fingerprint")
    BY <1>4 DEF Resolve
  <2>2. vehicle.vin # None => Agrees(library[id].rules, vehicle.vin)
    BY <2>1, BestAgrees
  <2> HIDE DEF byVin, byFingerprint
  <2> QED BY <1>1, <1>4, <2>1, <2>2 DEF Fitting
<1>5. CASE manual = None /\ byVin = {} /\ byFingerprint = {}
  <2>1. match = Match(library, Base, "fallback")
    BY <1>5 DEF Resolve
  <2> QED BY <1>1, <1>5, <2>1 DEF Fitting
<1> QED BY <1>2, <1>3, <1>4, <1>5

\* A session that another one's step leaves alone.
LEMMA SameSession ==
  ASSUME NEW s \in {"gui", "mcp"}, SessionFits(s), session'[s] = session[s]
  PROVE  SessionFits(s)'
BY DEF SessionFits

\* A session that one step replaces.
LEMMA OneSession ==
  ASSUME ProfilesInv, NEW s \in {"gui", "mcp"}, NEW r, session' = [session EXCEPT ![s] = r],
         DOMAIN r = SessionFields,
         r.phase \in {"resolved", "open"} =>
           Fitting(r.match, r.vehicle, IF s = "mcp" THEN r.manual ELSE None)
  PROVE  ProfilesInv'
<1>1. session'[s] = r /\ DOMAIN session' = {"gui", "mcp"}
  BY DEF ProfilesInv
<1>2. SessionFits(s)'
  BY <1>1 DEF SessionFits
<1>3. \A t \in {"gui", "mcp"} \ {s} : session'[t] = session[t]
  BY DEF ProfilesInv
<1> QED BY <1>1, <1>2, <1>3, SameSession DEF ProfilesInv

\* A closed session claims nothing.
LEMMA ClosedSession ==
  /\ DOMAIN Closed = SessionFields /\ Closed.phase = "closed"
BY DEF Closed, SessionFields

\* Every step of a session keeps what fits.
LEMMA IdentifyKeeps ==
  ASSUME ProfilesInv, NEW s \in {"gui", "mcp"}, Identify(s) PROVE ProfilesInv'
<1>1. PICK vehicle \in Vehicles, manual \in IF s = "gui" THEN {chosen} ELSE ByHand :
        session' = [session EXCEPT ![s] = [Closed EXCEPT !.phase = "identifying",
                                             !.vehicle = vehicle, !.manual = manual]]
  BY DEF Identify
<1>2. PICK r : r = [Closed EXCEPT !.phase = "identifying", !.vehicle = vehicle,
                                  !.manual = manual]
  OBVIOUS
<1>3. DOMAIN r = SessionFields /\ r.phase = "identifying"
  BY <1>2, ClosedSession DEF SessionFields
<1> QED BY <1>1, <1>2, <1>3, OneSession

\* A resolution closes the session or takes one match, from the disk or the shared copy.
LEMMA ResolutionTakes ==
  ASSUME NEW s \in {"gui", "mcp"}, Resolution(s)
  PROVE  \E library \in {Load(disk), shared} :
           /\ library = shared => shared # None \/ library = Load(disk)
           /\ shared' \in {library, shared}
           /\ \/ session' = [session EXCEPT ![s] = Closed]
              \/ \E m \in Resolve(library, session[s].vehicle, session[s].manual) :
                   session' = [session EXCEPT ![s].phase = "resolved", ![s].match = m,
                                              ![s].table = m.profile.table]
<1> DEFINE fromDisk == s = "gui" \/ shared = None
           library == IF fromDisk THEN Load(disk) ELSE shared
           found == Resolve(library, session[s].vehicle, session[s].manual)
           matches == IF fromDisk /\ ~ Loads(disk) THEN {} ELSE found
           taken(m) == session' = [session EXCEPT ![s].phase = "resolved", ![s].match = m,
                                                  ![s].table = m.profile.table]
<1>1. /\ shared' = IF s = "mcp" /\ Loads(disk) THEN library ELSE shared
      /\ IF matches = {} THEN session' = [session EXCEPT ![s] = Closed]
         ELSE \E m \in matches : taken(m)
  BY DEF Resolution
<1>2. matches \subseteq found
  <2> HIDE DEF found
  <2> QED OBVIOUS
<1>3. session' = [session EXCEPT ![s] = Closed] \/ \E m \in found : taken(m)
  <2> HIDE DEF matches, found, taken
  <2> QED BY <1>1, <1>2
<1>4. /\ library \in {Load(disk), shared} /\ shared' \in {library, shared}
      /\ library = shared => shared # None \/ library = Load(disk)
  <2> HIDE DEF matches, found, taken
  <2> QED BY <1>1
<1> HIDE DEF library, taken
<1>5. session' = [session EXCEPT ![s] = Closed]
      \/ \E m \in Resolve(library, session[s].vehicle, session[s].manual) : taken(m)
  BY <1>3
<1> QED BY <1>4, <1>5 DEF taken

\* The profile that the resolver returns fits, whatever is on the disk.
LEMMA ResolutionKeeps ==
  ASSUME ProfilesInv, NEW s \in {"gui", "mcp"}, Resolution(s) PROVE ProfilesInv'
<1>1. DOMAIN session[s] = SessionFields
  BY DEF ProfilesInv, SessionFits
<1>2. CASE session' = [session EXCEPT ![s] = Closed]
  BY <1>2, ClosedSession, OneSession
<1>3. ASSUME NEW library, NEW m \in Resolve(library, session[s].vehicle, session[s].manual),
             session' = [session EXCEPT ![s].phase = "resolved", ![s].match = m,
                                        ![s].table = m.profile.table]
      PROVE  ProfilesInv'
  <2>1. PICK r : r = [session[s] EXCEPT !.phase = "resolved", !.match = m,
                                        !.table = m.profile.table]
    OBVIOUS
  <2>2. session' = [session EXCEPT ![s] = r]
    BY <1>3, <2>1 DEF ProfilesInv
  <2>3. /\ DOMAIN r = SessionFields /\ r.match = m
        /\ r.vehicle = session[s].vehicle /\ r.manual = session[s].manual
    BY <1>1, <2>1 DEF SessionFields
  <2>4. Fitting(m, session[s].vehicle, session[s].manual)
    BY <1>3, ResolveFits
  <2>5. Fitting(r.match, r.vehicle, IF s = "mcp" THEN r.manual ELSE None)
    BY <2>3, <2>4 DEF Fitting
  <2> QED BY <2>2, <2>3, <2>5, OneSession
<1> QED BY <1>2, <1>3, ResolutionTakes

\* Storing the resolved profile changes nothing of it.
LEMMA StoreKeeps ==
  ASSUME ProfilesInv, NEW s \in {"gui", "mcp"}, Store(s) PROVE ProfilesInv'
<1>1. PICK r : r = [session[s] EXCEPT !.phase = "open"]
  OBVIOUS
<1>2. session' = [session EXCEPT ![s] = r] /\ session[s].phase = "resolved"
  BY <1>1 DEF Store, ProfilesInv
<1>3. /\ DOMAIN r = SessionFields /\ r.match = session[s].match
      /\ r.vehicle = session[s].vehicle /\ r.manual = session[s].manual
  BY <1>1 DEF ProfilesInv, SessionFits, SessionFields
<1>4. Fitting(r.match, r.vehicle, IF s = "mcp" THEN r.manual ELSE None)
  BY <1>2, <1>3 DEF ProfilesInv, SessionFits
<1> QED BY <1>2, <1>3, <1>4, OneSession

\* A reload resolves again, for the same vehicle, or leaves the session alone.
LEMMA ReloadKeeps ==
  ASSUME ProfilesInv, NEW s \in {"gui", "mcp"}, Reload(s) PROVE ProfilesInv'
<1>1. ASSUME session' = session PROVE ProfilesInv'
  BY <1>1, SameSession DEF ProfilesInv
<1>2. ASSUME NEW fresh, NEW manual, s = "mcp" => manual = session[s].manual,
             Reapplied(s, fresh, manual)
      PROVE  ProfilesInv'
  <2>1. CASE session' = session
    BY <1>1, <2>1
  <2>2. ASSUME NEW m \in Resolve(fresh, session[s].vehicle, manual),
               session' = [session EXCEPT ![s].match = m, ![s].table = m.profile.table]
        PROVE  ProfilesInv'
    <3>1. PICK r : r = [session[s] EXCEPT !.match = m, !.table = m.profile.table]
      OBVIOUS
    <3>2. session' = [session EXCEPT ![s] = r]
      BY <2>2, <3>1 DEF ProfilesInv
    <3>3. /\ DOMAIN r = SessionFields /\ r.match = m
          /\ r.vehicle = session[s].vehicle /\ r.manual = session[s].manual
      BY <3>1 DEF ProfilesInv, SessionFits, SessionFields
    <3>4. Fitting(m, session[s].vehicle, manual)
      BY <2>2, ResolveFits
    <3>5. Fitting(r.match, r.vehicle, IF s = "mcp" THEN r.manual ELSE None)
      BY <1>2, <3>3, <3>4 DEF Fitting
    <3> QED BY <3>2, <3>3, <3>5, OneSession
  <2> QED BY <1>2, <2>1, <2>2 DEF Reapplied
<1> QED BY <1>1, <1>2 DEF Reload

\* Every step of either session, and every edit of the files, keeps what fits.
LEMMA ProfilesKept == ProfilesInv /\ [ProfilesNext]_profileVars => ProfilesInv'
<1> SUFFICES ASSUME ProfilesInv, [ProfilesNext]_profileVars PROVE ProfilesInv'
  OBVIOUS
<1>1. ASSUME session' = session PROVE ProfilesInv'
  BY <1>1, SameSession DEF ProfilesInv
<1>2. ASSUME NEW s \in {"gui", "mcp"}, Close(s) PROVE ProfilesInv'
  BY <1>2, ClosedSession, OneSession DEF Close
<1> QED BY <1>1, <1>2, IdentifyKeeps, ResolutionKeeps, StoreKeeps, ReloadKeeps
        DEF ProfilesNext, profileVars, Choose, Edit

\* However often the files are edited and reloaded, a session's profile is its vehicle's,
\* the generic one, or the one chosen by hand (resolver.py, gui.py, mcp_tools.py).
THEOREM ProfilesStayTheVehicles == ProfilesSpec => []ProfileIsTheVehicles
<1>1. ProfilesInit => ProfilesInv
  <2> SUFFICES ASSUME ProfilesInit PROVE ProfilesInv
    OBVIOUS
  <2>1. session = [s \in {"gui", "mcp"} |-> Closed]
    BY DEF ProfilesInit
  <2> QED BY <2>1, ClosedSession DEF ProfilesInv, SessionFits
<1>2. ProfilesSpec => []ProfilesInv
  BY <1>1, ProfilesKept, PTL DEF ProfilesSpec
<1>3. ProfilesInv => ProfileIsTheVehicles
  <2> SUFFICES ASSUME ProfilesInv PROVE NeverAnotherMake /\ ChoiceIsHonoured
    BY DEF ProfileIsTheVehicles
  <2>1. NeverAnotherMake
    BY DEF NeverAnotherMake, ProfilesInv, SessionFits, Open, Fitting, Agrees
  <2>2. ChoiceIsHonoured
    BY DEF ChoiceIsHonoured, ProfilesInv, SessionFits, Open, Fitting
  <2> QED BY <2>1, <2>2
<1> QED BY <1>2, <1>3, PTL

-----------------------------------------------------------------------------
\* Induction over an initial segment of the naturals, for sets.
LEMMA Segment ==
  ASSUME NEW N \in Nat, NEW T, 0 \in T, \A n \in 1..N : n - 1 \in T => n \in T
  PROVE  0..N \subseteq T
<1> DEFINE Bad == 0..N \ T
           Less == {p \in Nat \X Nat : p[1] < p[2]}
<1> SUFFICES ASSUME Bad # {} PROVE FALSE
  OBVIOUS
<1>1. IsWellFoundedOn(Less, Nat)
  BY NatLessThanWellFounded DEF OpToRel
<1>2. PICK n \in Bad : \A m \in Bad : ~ (<<m, n>> \in Less)
  <2>1. Bad \subseteq Nat
    OBVIOUS
  <2> HIDE DEF Less, Bad
  <2> QED BY <1>1, <2>1, WFMin
<1>3. n \in 1..N /\ n - 1 \in T
  <2>1. n \in 1..N
    OBVIOUS
  <2>2. n - 1 \in 0..N /\ <<n - 1, n>> \in Less
    BY <2>1
  <2> HIDE DEF Less
  <2> QED BY <1>2, <2>1, <2>2
<1> QED BY <1>3

\* A set of positions has a last one.
LEMMA LastPosition ==
  ASSUME NEW N \in Nat, NEW T, T \subseteq 1..N, T # {}
  PROVE  \E i \in T : \A j \in T : j <= i
<1> DEFINE Low == {n \in 0..N : (\A j \in T : j <= n) => \E i \in T : \A j \in T : j <= i}
<1>1. 0 \in Low
  <2>1. \A j \in T : j >= 1
    OBVIOUS
  <2>2. PICK j \in T : TRUE
    OBVIOUS
  <2> QED BY <2>1, <2>2
<1>2. ASSUME NEW n \in 1..N, n - 1 \in Low PROVE n \in Low
  <2>1. CASE n \in T
    BY <2>1
  <2>2. CASE n \notin T
    <3>1. (\A j \in T : j <= n) => \A j \in T : j <= n - 1
      BY <2>2
    <3> QED BY <1>2, <3>1
  <2> QED BY <2>1, <2>2
<1>3. N \in Low
  <2> HIDE DEF Low
  <2> QED BY <1>1, <1>2, Segment
<1> QED BY <1>3

\* The chain of ancestors is what its recursion says.
LEMMA Ancestors ==
  ASSUME NEW library, NEW id
  PROVE  LET up == Ancestor(library, id)
         IN up = [n \in 0..MaxDepth |->
                    IF n = 0 THEN id
                    ELSE IF up[n - 1] \in DOMAIN library THEN library[up[n - 1]].extends
                                                          ELSE up[n - 1]]
<1> DEFINE F(x) == IF x \in DOMAIN library THEN library[x].extends ELSE x
           Upto(f, n) == f = [m \in 0..n |-> IF m = 0 THEN id ELSE F(f[m - 1])]
           T == {n \in 0..MaxDepth : \E f : Upto(f, n)}
<1> HIDE DEF F
<1>1. 0 \in T
  <2>1. Upto([m \in 0..0 |-> id], 0)
    OBVIOUS
  <2> HIDE DEF Upto
  <2> QED BY <2>1, DepthAssumption
<1>2. ASSUME NEW n \in 1..MaxDepth, n - 1 \in T PROVE n \in T
  <2>1. PICK f : Upto(f, n - 1)
    BY <1>2
  <2>2. PICK g : g = [m \in 0..n |-> IF m = n THEN F(f[n - 1]) ELSE f[m]]
    OBVIOUS
  <2>3. \A m \in 0..n : g[m] = IF m = 0 THEN id ELSE F(g[m - 1])
    BY <2>1, <2>2
  <2>4. Upto(g, n)
    BY <2>2, <2>3
  <2> QED BY <2>4
<1>3. \E f : Upto(f, MaxDepth)
  <2> HIDE DEF Upto
  <2>1. 0..MaxDepth \subseteq T
    <3> HIDE DEF T
    <3> QED BY <1>1, <1>2, DepthAssumption, Segment
  <2> QED BY <2>1, DepthAssumption
<1>4. Ancestor(library, id) = CHOOSE f : Upto(f, MaxDepth)
  BY DEF Ancestor, F
<1>5. Upto(Ancestor(library, id), MaxDepth)
  <2> HIDE DEF Upto
  <2> QED BY <1>3, <1>4
<1> QED BY <1>5 DEF F

\* So is the table that merging a chain leaves.
Layer(table, chain, n) == IF n = 0 THEN <<>> ELSE Over(table[n - 1], chain[n].pids)

LEMMA Merged ==
  ASSUME NEW chain, Len(chain) \in Nat
  PROVE  \E table : /\ table = [n \in 0..Len(chain) |-> Layer(table, chain, n)]
                    /\ Merge(chain) = table[Len(chain)]
<1> DEFINE N == Len(chain)
           Upto(f, n) == f = [m \in 0..n |-> Layer(f, chain, m)]
           T == {n \in 0..N : \E f : Upto(f, n)}
<1> HIDE DEF N
<1>0. N \in Nat
  BY DEF N
<1>1. 0 \in T
  <2>1. Upto([m \in 0..0 |-> <<>>], 0)
    BY DEF Layer
  <2> QED BY <1>0, <2>1
<1>2. ASSUME NEW n \in 1..N, n - 1 \in T PROVE n \in T
  <2>1. PICK f : Upto(f, n - 1)
    BY <1>2
  <2>2. PICK g : g = [m \in 0..n |-> IF m = n THEN Layer(f, chain, n) ELSE f[m]]
    OBVIOUS
  <2>3. \A m \in 0..n : g[m] = Layer(g, chain, m)
    BY <1>0, <2>1, <2>2 DEF Layer
  <2>4. Upto(g, n)
    BY <2>2, <2>3
  <2> QED BY <2>4
<1>3. \E f : Upto(f, N)
  <2> HIDE DEF Upto
  <2>1. 0..N \subseteq T
    <3> HIDE DEF T
    <3> QED BY <1>0, <1>1, <1>2, Segment
  <2> QED BY <1>0, <2>1
<1>4. Merge(chain) = (CHOOSE f : Upto(f, N))[N]
  BY DEF Merge, Layer, N
<1>5. Upto(CHOOSE f : Upto(f, N), N)
  <2> HIDE DEF Upto
  <2> QED BY <1>3
<1> QED BY <1>4, <1>5 DEF N

-----------------------------------------------------------------------------
\* A library: profiles by their identifier, which None never is.
IsLibrary(library) == /\ None \notin DOMAIN library
                      /\ \A id \in DOMAIN library : library[id].id = id

\* What is read from the disk is one.
LEMMA LoadIsLibrary == ASSUME NEW files \in Disks PROVE IsLibrary(Load(files))
<1> DEFINE good == {i \in DOMAIN files : files[i].parses = "yes"}
           with(id) == {i \in good : files[i].id = id}
           ids == {files[i].id : i \in good}
           last(id) == files[Max(with(id))]
<1>1. /\ Len(files) \in Nat /\ DOMAIN files = 1..Len(files)
      /\ \A i \in DOMAIN files : /\ files[i].id # None
                                 /\ {"id", "extends"} \subseteq DOMAIN files[i]
  BY DisksAssumption
<1>2. ASSUME NEW id \in ids PROVE Max(with(id)) \in with(id)
  <2>1. with(id) \subseteq 1..Len(files) /\ with(id) # {}
    BY <1>1
  <2> HIDE DEF with
  <2>2. \E i \in with(id) : \A j \in with(id) : j <= i
    BY <1>1, <2>1, LastPosition
  <2>3. \E i \in with(id) : \A j \in with(id) : i >= j
    BY <1>1, <2>1, <2>2
  <2> QED BY <2>3 DEF Max
<1>3. Load(files) = [id \in ids |-> [last(id) EXCEPT !.extends = Parent(last(id))]]
  BY DEF Load
<1>4. ASSUME NEW id \in ids PROVE Load(files)[id].id = id
  <2>1. PICK i \in DOMAIN files : i = Max(with(id)) /\ files[i].id = id
    BY <1>2
  <2>2. PICK parent :
          Load(files)[id] = [files[i] EXCEPT !.extends = parent]
    BY <1>3, <2>1
  <2>3. "id" \in DOMAIN files[i]
    BY <1>1
  <2> QED BY <2>1, <2>2, <2>3
<1>5. None \notin ids
  BY <1>1
<1>6. DOMAIN Load(files) = ids
  BY <1>3
<1> HIDE DEF ids
<1> QED BY <1>4, <1>5, <1>6 DEF IsLibrary

\* A chain that ends is made of profiles of the library, the last of them its own.
LEMMA ChainOfProfiles ==
  ASSUME NEW library, IsLibrary(library), NEW id, Resolves(library, id)
  PROVE  LET chain == Chain(library, id)
         IN /\ Len(chain) \in Nat \ {0} /\ DOMAIN chain = 1..Len(chain)
            /\ chain[Len(chain)].id = id
            /\ \A k \in 1..Len(chain) : chain[k].id \in DOMAIN library /\ library[chain[k].id] = chain[k]
<1> DEFINE up == Ancestor(library, id)
           ends == {n \in 1..MaxDepth : up[n] = None /\ up[n - 1] # None}
           n == Min(ends)
<1>1. /\ up[0] = id
      /\ \A m \in 1..MaxDepth : up[m] = IF up[m - 1] \in DOMAIN library
                                        THEN library[up[m - 1]].extends ELSE up[m - 1]
  <2> HIDE DEF up
  <2>1. up = [m \in 0..MaxDepth |->
                IF m = 0 THEN id
                ELSE IF up[m - 1] \in DOMAIN library THEN library[up[m - 1]].extends
                                                      ELSE up[m - 1]]
    BY Ancestors DEF up
  <2> QED BY <2>1, DepthAssumption
<1> HIDE DEF up
<1>2. ends # {} /\ ends \subseteq 1..MaxDepth
  BY DEF Resolves, Lengths, up
<1>3. \A m \in 0..MaxDepth, l \in ends : m >= l => up[m] = None
  <2> SUFFICES ASSUME NEW l \in ends
               PROVE  \A m \in 0..MaxDepth : m >= l => up[m] = None
    OBVIOUS
  <2> DEFINE T == {m \in 0..MaxDepth : m >= l => up[m] = None}
  <2>1. 0 \in T
    BY <1>2, DepthAssumption
  <2>2. ASSUME NEW m \in 1..MaxDepth, m - 1 \in T PROVE m \in T
    <3>1. CASE m = l
      BY <3>1
    <3>2. CASE m > l
      BY <1>1, <2>2, <3>2, <1>2 DEF IsLibrary
    <3>3. CASE m < l
      BY <3>3, <1>2
    <3> QED BY <3>1, <3>2, <3>3, <1>2
  <2>3. 0..MaxDepth \subseteq T
    <3> HIDE DEF T
    <3> QED BY <2>1, <2>2, DepthAssumption, Segment
  <2> QED BY <2>3
<1>4. PICK l : ends = {l} /\ l \in 1..MaxDepth /\ up[l] = None /\ up[l - 1] # None
  <2>1. PICK l \in ends : TRUE
    BY <1>2
  <2>2. ASSUME NEW m \in ends PROVE m = l
    BY <1>2, <1>3, <2>1, <2>2, DepthAssumption
  <2> QED BY <1>2, <2>1, <2>2
<1>5. n = l
  BY <1>4 DEF Min
<1>6. \A m \in 0..(l - 1) : up[m] \in DOMAIN library
  <2> SUFFICES ASSUME NEW m \in 0..(l - 1), up[m] \notin DOMAIN library PROVE FALSE
    OBVIOUS
  <2> DEFINE T == {j \in 0..MaxDepth : j >= m => up[j] = up[m]}
  <2>1. 0 \in T
    BY <1>4, DepthAssumption
  <2>2. ASSUME NEW j \in 1..MaxDepth, j - 1 \in T PROVE j \in T
    <3>1. CASE j = m
      BY <3>1
    <3>2. CASE j > m
      BY <1>1, <1>4, <2>2, <3>2
    <3>3. CASE j < m
      BY <3>3, <1>4
    <3> QED BY <3>1, <3>2, <3>3, <1>4
  <2>3. 0..MaxDepth \subseteq T
    <3> HIDE DEF T
    <3> QED BY <2>1, <2>2, DepthAssumption, Segment
  <2>4. up[l - 1] = up[m] /\ up[l] = up[m]
    BY <1>4, <2>3, DepthAssumption
  <2> QED BY <1>4, <2>4
<1>7. Chain(library, id) = [k \in 1..l |-> library[up[l - k]]]
  <2>1. Lengths(library, id) = ends
    BY DEF Lengths, up
  <2> HIDE DEF n, ends
  <2> QED BY <1>5, <2>1 DEF Chain, up, n
<1> DEFINE chain == Chain(library, id)
<1>8. Len(chain) = l /\ DOMAIN chain = 1..l
  BY <1>4, <1>7, DepthAssumption
<1>9. ASSUME NEW k \in 1..l PROVE /\ chain[k] = library[up[l - k]] /\ up[l - k] \in DOMAIN library
                                 /\ chain[k].id = up[l - k]
  <2>1. l - k \in 0..(l - 1)
    BY <1>4
  <2>2. up[l - k] \in DOMAIN library
    BY <1>6, <2>1
  <2> QED BY <1>7, <2>2 DEF IsLibrary
<1>10. chain[l].id = id
  BY <1>1, <1>4, <1>9
<1> HIDE DEF chain, ends
<1> QED BY <1>4, <1>8, <1>9, <1>10 DEF chain

\* Each PID of a merged table is defined by the nearest profile that has it.
LEMMA NearestLayer ==
  ASSUME NEW chain, Len(chain) \in Nat
  PROVE  LET table == Merge(chain)
         IN /\ DOMAIN table = UNION {DOMAIN chain[k].pids : k \in 1..Len(chain)}
            /\ \A pid \in DOMAIN table : \E k \in 1..Len(chain) :
                 /\ pid \in DOMAIN chain[k].pids /\ table[pid] = chain[k].pids[pid]
                 /\ \A j \in (k + 1)..Len(chain) : pid \notin DOMAIN chain[j].pids
<1> DEFINE N == Len(chain)
           P(k) == chain[k].pids
<1> HIDE DEF N, P
<1>1. PICK table : /\ table = [n \in 0..N |-> Layer(table, chain, n)]
                   /\ Merge(chain) = table[N]
  BY Merged DEF N
<1>2. /\ table[0] = <<>>
      /\ \A n \in 1..N : table[n] = Over(table[n - 1], P(n))
  <2>0. N \in Nat
    BY DEF N
  <2>1. \A n \in 0..N : table[n] = Layer(table, chain, n)
    BY <1>1
  <2> QED BY <2>0, <2>1 DEF Layer, P
<1> DEFINE Near(n) ==
             /\ DOMAIN table[n] = UNION {DOMAIN P(k) : k \in 1..n}
             /\ \A pid \in DOMAIN table[n] : \E k \in 1..n :
                  /\ pid \in DOMAIN P(k) /\ table[n][pid] = P(k)[pid]
                  /\ \A j \in (k + 1)..n : pid \notin DOMAIN P(j)
           T == {n \in 0..N : Near(n)}
<1>3. 0 \in T
  <2>1. DOMAIN table[0] = {}
    BY <1>2
  <2> QED BY <2>1 DEF N
<1>4. ASSUME NEW n \in 1..N, n - 1 \in T PROVE n \in T
  <2>1. n \in Nat \ {0} /\ n - 1 \in Nat /\ n \in 0..N
    BY DEF N
  <2>2. Near(n - 1)
    BY <1>4
  <2>3. /\ DOMAIN table[n] = DOMAIN table[n - 1] \cup DOMAIN P(n)
        /\ \A pid \in DOMAIN table[n] :
             table[n][pid] = IF pid \in DOMAIN P(n) THEN P(n)[pid] ELSE table[n - 1][pid]
    BY <1>2 DEF Over
  <2>4. DOMAIN table[n] = UNION {DOMAIN P(k) : k \in 1..n}
    <3>1. 1..n = 1..(n - 1) \cup {n}
      BY <2>1
    <3> QED BY <2>2, <2>3, <3>1
  <2>5. ASSUME NEW pid \in DOMAIN table[n]
        PROVE  \E k \in 1..n : /\ pid \in DOMAIN P(k) /\ table[n][pid] = P(k)[pid]
                               /\ \A j \in (k + 1)..n : pid \notin DOMAIN P(j)
    <3>1. CASE pid \in DOMAIN P(n)
      BY <2>1, <2>3, <3>1
    <3>2. CASE pid \notin DOMAIN P(n)
      <4>1. pid \in DOMAIN table[n - 1] /\ table[n][pid] = table[n - 1][pid]
        BY <2>3, <3>2
      <4>2. PICK k \in 1..(n - 1) : /\ pid \in DOMAIN P(k) /\ table[n - 1][pid] = P(k)[pid]
                                   /\ \A j \in (k + 1)..(n - 1) : pid \notin DOMAIN P(j)
        BY <2>2, <4>1
      <4>3. \A j \in (k + 1)..n : pid \notin DOMAIN P(j)
        BY <2>1, <3>2, <4>2
      <4>4. k \in 1..n
        BY <2>1
      <4> QED BY <4>1, <4>2, <4>3, <4>4
    <3> QED BY <3>1, <3>2
  <2> QED BY <2>1, <2>4, <2>5
<1>5. Near(N)
  <2> HIDE DEF Near
  <2>1. 0..N \subseteq T
    <3> HIDE DEF T
    <3> QED BY <1>3, <1>4, Segment DEF N
  <2> QED BY <2>1 DEF N
<1> QED BY <1>1, <1>5 DEF N, P

-----------------------------------------------------------------------------
\* A match is of its library, which has the profile; what a session decodes by is the
\* match's table.
OfLibrary(match) == /\ IsLibrary(match.from) /\ Resolves(match.from, match.id)
                    /\ match.profile = Resolved(match.from, match.id)

DecodesInv ==
  /\ disk \in Disks
  /\ shared # None => IsLibrary(shared)
  /\ DOMAIN session = {"gui", "mcp"}
  /\ \A s \in {"gui", "mcp"} :
       /\ DOMAIN session[s] = SessionFields
       /\ session[s].phase \in {"resolved", "open"} =>
            OfLibrary(session[s].match) /\ session[s].table = session[s].match.profile.table

\* The resolver finds no profile whose chain does not end.
LEMMA ResolveOfLibrary ==
  ASSUME NEW library, IsLibrary(library), NEW vehicle, NEW manual,
         NEW match \in Resolve(library, vehicle, manual)
  PROVE  OfLibrary(match)
<1> DEFINE byVin == Best(library, vehicle, VinScores(library, vehicle))
           byFingerprint == Best(library, vehicle, FingerprintScores(library, vehicle))
<1>1. ASSUME NEW id, NEW stage, Resolves(library, id), match = Match(library, id, stage)
      PROVE  OfLibrary(match)
  <2>1. match.from = library /\ match.id = id /\ match.profile = Resolved(library, id)
    BY <1>1 DEF Match
  <2> QED BY <1>1, <2>1 DEF OfLibrary
<1>2. ASSUME NEW id \in byVin \cup byFingerprint PROVE Resolves(library, id)
  <2>1. ASSUME NEW scores, id \in Best(library, vehicle, scores)
        PROVE  \E x \in scores : x[1] = id
    BY <2>1 DEF Best
  <2>2. \E x \in VinScores(library, vehicle) \cup FingerprintScores(library, vehicle) : x[1] = id
    BY <1>2, <2>1
  <2>3. id \in SpecificProfiles(library)
    BY <2>2 DEF VinScores, FingerprintScores
  <2> QED BY <2>3 DEF SpecificProfiles
<1>3. \E id, stage : Resolves(library, id) /\ match = Match(library, id, stage)
  <2>1. CASE manual # None
    BY <2>1 DEF Resolve
  <2>2. CASE manual = None /\ byVin # {}
    <3>1. PICK id \in byVin : match = Match(library, id, "vin")
      BY <2>2 DEF Resolve
    <3> QED BY <1>2, <3>1
  <2>3. CASE manual = None /\ byVin = {} /\ byFingerprint # {}
    <3>1. PICK id \in byFingerprint : match = Match(library, id, "fingerprint")
      BY <2>3 DEF Resolve
    <3> QED BY <1>2, <3>1
  <2>4. CASE manual = None /\ byVin = {} /\ byFingerprint = {}
    BY <2>4 DEF Resolve
  <2> QED BY <2>1, <2>2, <2>3, <2>4
<1> QED BY <1>1, <1>3

\* A step that replaces one session by a closed one or one that decodes by its match.
LEMMA OneDecodes ==
  ASSUME DecodesInv, disk' \in Disks, shared' # None => IsLibrary(shared'),
         NEW s \in {"gui", "mcp"}, NEW r, session' = [session EXCEPT ![s] = r],
         DOMAIN r = SessionFields,
         r.phase \in {"resolved", "open"} =>
           OfLibrary(r.match) /\ r.table = r.match.profile.table
  PROVE  DecodesInv'
<1>1. session'[s] = r /\ DOMAIN session' = {"gui", "mcp"}
  BY DEF DecodesInv
<1>2. \A t \in {"gui", "mcp"} \ {s} : session'[t] = session[t]
  BY DEF DecodesInv
<1>3. ASSUME NEW t \in {"gui", "mcp"}
      PROVE  /\ DOMAIN session'[t] = SessionFields
             /\ session'[t].phase \in {"resolved", "open"} =>
                  OfLibrary(session'[t].match) /\ session'[t].table = session'[t].match.profile.table
  <2>1. CASE t = s
    BY <1>1, <2>1
  <2>2. CASE t # s
    BY <1>2, <2>2 DEF DecodesInv
  <2> QED BY <2>1, <2>2
<1> QED BY <1>1, <1>3 DEF DecodesInv, OfLibrary, IsLibrary

\* A step that leaves the sessions alone.
LEMMA NoneDecodes ==
  ASSUME DecodesInv, disk' \in Disks, shared' # None => IsLibrary(shared'), session' = session
  PROVE  DecodesInv'
BY DEF DecodesInv, OfLibrary, IsLibrary

\* So every step keeps it.
LEMMA DecodesKept == DecodesInv /\ [ProfilesNext]_profileVars => DecodesInv'
<1> SUFFICES ASSUME DecodesInv, [ProfilesNext]_profileVars PROVE DecodesInv'
  OBVIOUS
<1>1. IsLibrary(Load(disk)) /\ (shared # None => IsLibrary(shared))
  BY LoadIsLibrary DEF DecodesInv
<1>2. ASSUME NEW s \in {"gui", "mcp"}, Identify(s) PROVE DecodesInv'
  <2>1. PICK vehicle \in Vehicles, manual \in IF s = "gui" THEN {chosen} ELSE ByHand :
          session' = [session EXCEPT ![s] = [Closed EXCEPT !.phase = "identifying",
                                               !.vehicle = vehicle, !.manual = manual]]
    BY <1>2 DEF Identify
  <2>2. PICK r : r = [Closed EXCEPT !.phase = "identifying", !.vehicle = vehicle,
                                    !.manual = manual]
    OBVIOUS
  <2>3. DOMAIN r = SessionFields /\ r.phase = "identifying"
    BY <2>2, ClosedSession DEF SessionFields
  <2>4. disk' \in Disks /\ (shared' # None => IsLibrary(shared'))
    BY <1>2 DEF Identify, DecodesInv
  <2> QED BY <2>1, <2>2, <2>3, <2>4, OneDecodes
<1>3. ASSUME NEW s \in {"gui", "mcp"}, Resolution(s) PROVE DecodesInv'
  <2> DEFINE taken(library) ==
               \E m \in Resolve(library, session[s].vehicle, session[s].manual) :
                 session' = [session EXCEPT ![s].phase = "resolved", ![s].match = m,
                                            ![s].table = m.profile.table]
  <2>4. PICK read \in {Load(disk), shared} :
          /\ read = shared => shared # None \/ read = Load(disk)
          /\ shared' \in {read, shared}
          /\ session' = [session EXCEPT ![s] = Closed] \/ taken(read)
    BY <1>3, ResolutionTakes
  <2>5. IsLibrary(read) /\ disk' = disk
    BY <1>1, <1>3, <2>4 DEF Resolution
  <2>1. disk' \in Disks /\ (shared' # None => IsLibrary(shared'))
    <3> HIDE DEF taken
    <3> QED BY <1>1, <2>4, <2>5 DEF DecodesInv
  <2>2. CASE session' = [session EXCEPT ![s] = Closed]
    BY <2>1, <2>2, ClosedSession, OneDecodes
  <2>3. ASSUME NEW library, IsLibrary(library),
               NEW m \in Resolve(library, session[s].vehicle, session[s].manual),
               session' = [session EXCEPT ![s].phase = "resolved", ![s].match = m,
                                          ![s].table = m.profile.table]
        PROVE  DecodesInv'
    <3>1. PICK r : r = [session[s] EXCEPT !.phase = "resolved", !.match = m,
                                          !.table = m.profile.table]
      OBVIOUS
    <3>2. session' = [session EXCEPT ![s] = r]
      BY <2>3, <3>1 DEF DecodesInv
    <3>3. DOMAIN r = SessionFields /\ r.match = m /\ r.table = m.profile.table
      BY <3>1 DEF DecodesInv, SessionFields
    <3>4. OfLibrary(m)
      BY <2>3, ResolveOfLibrary
    <3> QED BY <2>1, <3>2, <3>3, <3>4, OneDecodes
  <2> QED BY <2>2, <2>3, <2>4, <2>5
<1>4. ASSUME NEW s \in {"gui", "mcp"}, Store(s) PROVE DecodesInv'
  <2>1. PICK r : r = [session[s] EXCEPT !.phase = "open"]
    OBVIOUS
  <2>2. session' = [session EXCEPT ![s] = r] /\ session[s].phase = "resolved"
    BY <1>4, <2>1 DEF Store, DecodesInv
  <2>3. DOMAIN r = SessionFields /\ r.match = session[s].match /\ r.table = session[s].table
    BY <2>1 DEF DecodesInv, SessionFields
  <2>4. OfLibrary(r.match) /\ r.table = r.match.profile.table
    BY <2>2, <2>3 DEF DecodesInv
  <2>5. disk' \in Disks /\ (shared' # None => IsLibrary(shared'))
    BY <1>4 DEF Store, DecodesInv
  <2> QED BY <2>2, <2>3, <2>4, <2>5, OneDecodes
<1>5. ASSUME NEW s \in {"gui", "mcp"}, Reload(s) PROVE DecodesInv'
  <2>1. disk' \in Disks /\ (shared' # None => IsLibrary(shared'))
    BY <1>1, <1>5 DEF Reload, DecodesInv
  <2>2. CASE session' = session
    BY <2>1, <2>2, NoneDecodes
  <2>3. ASSUME NEW fresh, IsLibrary(fresh), NEW manual, Reapplied(s, fresh, manual)
        PROVE  DecodesInv'
    <3>1. ASSUME NEW m \in Resolve(fresh, session[s].vehicle, manual),
                 session' = [session EXCEPT ![s].match = m, ![s].table = m.profile.table]
          PROVE  DecodesInv'
      <4>1. PICK r : r = [session[s] EXCEPT !.match = m, !.table = m.profile.table]
        OBVIOUS
      <4>2. session' = [session EXCEPT ![s] = r]
        BY <3>1, <4>1 DEF DecodesInv
      <4>3. DOMAIN r = SessionFields /\ r.match = m /\ r.table = m.profile.table
        BY <4>1 DEF DecodesInv, SessionFields
      <4>4. OfLibrary(m)
        BY <2>3, <3>1, ResolveOfLibrary
      <4> QED BY <2>1, <4>2, <4>3, <4>4, OneDecodes
    <3> QED BY <2>2, <2>3, <3>1 DEF Reapplied
  <2>4. \/ session' = session
        \/ Reapplied(s, Load(disk), IF s = "gui" THEN chosen' ELSE session[s].manual)
    BY <1>5 DEF Reload
  <2> QED BY <1>1, <2>2, <2>3, <2>4
<1>6. ASSUME NEW s \in {"gui", "mcp"}, Close(s) PROVE DecodesInv'
  BY <1>6, ClosedSession, OneDecodes DEF Close, DecodesInv
<1>7. CASE Choose \/ Edit \/ UNCHANGED profileVars
  BY <1>7, NoneDecodes DEF Choose, Edit, profileVars, DecodesInv
<1> QED BY <1>2, <1>3, <1>4, <1>5, <1>6, <1>7 DEF ProfilesNext

\* Whatever profiles inherit from whatever, and however the files change under a session,
\* it decodes by the nearest definitions of one reading (library.py, model.py).
THEOREM NearestDefinitionsDecode == ProfilesSpec => []NearestDefinitionDecodes
<1>1. ProfilesInit => DecodesInv
  <2> SUFFICES ASSUME ProfilesInit PROVE DecodesInv
    OBVIOUS
  <2>1. session = [s \in {"gui", "mcp"} |-> Closed] /\ disk \in Disks /\ shared = None
    BY DEF ProfilesInit
  <2> QED BY <2>1, ClosedSession DEF DecodesInv
<1>2. DecodesInv => NearestDefinitionDecodes
  <2> SUFFICES ASSUME DecodesInv, NEW s \in DOMAIN session, Open(s)
               PROVE  LET library == session[s].match.from
                          lineage == session[s].match.profile.lineage
                          table   == session[s].table
                      IN /\ lineage[Len(lineage)] = session[s].match.id
                         /\ DOMAIN table = UNION {DOMAIN library[lineage[k]].pids : k \in DOMAIN lineage}
                         /\ \A pid \in DOMAIN table : \E k \in DOMAIN lineage :
                              /\ pid \in DOMAIN library[lineage[k]].pids
                              /\ table[pid] = library[lineage[k]].pids[pid]
                              /\ \A j \in (k + 1)..Len(lineage) :
                                   pid \notin DOMAIN library[lineage[j]].pids
    BY DEF NearestDefinitionDecodes
  <2>1. PICK m : m = session[s].match /\ OfLibrary(m) /\ session[s].table = m.profile.table
    BY DEF DecodesInv, Open
  <2>2. PICK library, id, chain : library = m.from /\ id = m.id /\ chain = Chain(library, id)
    OBVIOUS
  <2>3. PICK lineage : lineage = [k \in DOMAIN chain |-> chain[k].id]
    OBVIOUS
  <2>4. m.profile.table = Merge(chain) /\ m.profile.lineage = lineage
    BY <2>1, <2>2, <2>3 DEF OfLibrary, Resolved
  <2>5. /\ Len(chain) \in Nat \ {0} /\ DOMAIN chain = 1..Len(chain)
        /\ chain[Len(chain)].id = id
        /\ \A k \in 1..Len(chain) : library[chain[k].id] = chain[k]
    BY <2>1, <2>2, ChainOfProfiles DEF OfLibrary
  <2>6. Len(lineage) = Len(chain) /\ DOMAIN lineage = 1..Len(chain)
    BY <2>3, <2>5
  <2>7. lineage[Len(lineage)] = id /\ \A k \in 1..Len(chain) : library[lineage[k]] = chain[k]
    BY <2>3, <2>5, <2>6
  <2>8. PICK table : table = Merge(chain)
    OBVIOUS
  <2>9. /\ DOMAIN table = UNION {DOMAIN chain[k].pids : k \in 1..Len(chain)}
        /\ \A pid \in DOMAIN table : \E k \in 1..Len(chain) :
             /\ pid \in DOMAIN chain[k].pids /\ table[pid] = chain[k].pids[pid]
             /\ \A j \in (k + 1)..Len(chain) : pid \notin DOMAIN chain[j].pids
    BY <2>5, <2>8, NearestLayer
  <2>10. DOMAIN table = UNION {DOMAIN library[lineage[k]].pids : k \in DOMAIN lineage}
    BY <2>6, <2>7, <2>9
  <2>11. ASSUME NEW pid \in DOMAIN table
         PROVE  \E k \in DOMAIN lineage :
                  /\ pid \in DOMAIN library[lineage[k]].pids
                  /\ table[pid] = library[lineage[k]].pids[pid]
                  /\ \A j \in (k + 1)..Len(lineage) : pid \notin DOMAIN library[lineage[j]].pids
    <3>1. PICK k \in 1..Len(chain) :
             /\ pid \in DOMAIN chain[k].pids /\ table[pid] = chain[k].pids[pid]
             /\ \A j \in (k + 1)..Len(chain) : pid \notin DOMAIN chain[j].pids
      BY <2>9
    <3>2. \A j \in (k + 1)..Len(lineage) : j \in 1..Len(chain)
      BY <2>5, <2>6
    <3> QED BY <2>6, <2>7, <3>1, <3>2
  <2>12. /\ session[s].match.from = library /\ session[s].match.id = id
         /\ session[s].match.profile.lineage = lineage /\ session[s].table = table
    BY <2>1, <2>2, <2>4, <2>8
  <2> QED BY <2>7, <2>10, <2>11, <2>12
<1> QED BY <1>1, <1>2, DecodesKept, PTL DEF ProfilesSpec
=============================================================================
