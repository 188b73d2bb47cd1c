----------------------------- MODULE PingNetwork -----------------------------
(***************************************************************************)
(* CAN pings between tools on one UDP bus: requests 0x7E0 and echoes 0x7E1 *)
(* carry a number and nothing that says whose it is.  A "studio" is the    *)
(* Python program, whose tracker has a lock and serves the Tk thread, an   *)
(* agent's ping_bus and the receive thread; a "viewer" is the Rust one,    *)
(* whose user interface and receive threads share a locked map and counters*)
(* beside it.  Datagrams are lost, late, reordered, and may reach their    *)
(* own sender.                                                             *)
(***************************************************************************)
EXTENDS Naturals, FiniteSets, FiniteSetsExt

CONSTANTS Studios, Viewers,
          MaxNumber,    \* bound: numbers a tool gives; they do not wrap here
          MaxPings,     \* bound: pings sent, by all tools together
          MaxInFlight,  \* bound: datagram copies under way
          PingTimeout   \* ping_timeout and PING_TIMEOUT, in ticks

ASSUME BoundsAssumption == {MaxNumber, MaxPings, MaxInFlight, PingTimeout} \subseteq Nat

\* A tool is one program or the other.
ASSUME ToolsAssumption == Studios \cap Viewers = {}

Tools == Studios \cup Viewers
Numbers == 1..MaxNumber
Callers == {"ui", "agent"}
Old == PingTimeout + 1

VARIABLES seq,                   \* _seq or next_seq: the last number given
          pending,               \* _pending_pings: how old each is, Absent if it is not there
          sent, received,        \* pings_sent, pings_received or answered
          call,                  \* of each caller: where it is, and with which ping
          counting,              \* a viewer's receive thread between its two steps
          waited,                \* how long an agent waits for its ping
          wire,                  \* datagrams: one copy for each receiver
          answered, echoed,      \* history: pings answered; numbers of pings that
                                 \* were echoed, the tool's own echo of its own aside
          wiped, crossed         \* history: a reset hit an agent's ping; the counters
                                 \* changed between the two halves of a call

tracker == <<seq, pending, sent, received>>
threads == <<call, counting, waited>>
history == <<answered, echoed, wiped, crossed>>
vars == <<tracker, threads, wire, history>>

Absent == PingTimeout + 2
Idle == [at |-> "idle", n |-> 0]
Pending(t) == {n \in Numbers : pending[t][n] # Absent}
Without(t, N) == [pending EXCEPT ![t] = [n \in Numbers |-> IF n \in N THEN Absent ELSE @[n]]]
At(t, c) == call[t][c].at
Its(t, c) == call[t][c].n

Init ==
  /\ seq = [t \in Tools |-> 0]
  /\ pending = [t \in Tools |-> [n \in Numbers |-> Absent]]
  /\ sent = [t \in Tools |-> 0] /\ received = [t \in Tools |-> 0]
  /\ call = [t \in Tools |-> [c \in Callers |-> Idle]]
  /\ counting = [t \in Tools |-> FALSE] /\ waited = [t \in Tools |-> 0]
  /\ wire = {}
  /\ answered = [t \in Tools |-> {}] /\ echoed = [t \in Tools |-> {}]
  /\ wiped = [t \in Tools |-> FALSE] /\ crossed = [t \in Tools |-> FALSE]
-----------------------------------------------------------------------------
Go(t, c, where) ==
  call' = [call EXCEPT ![t][c] = IF where = "idle" THEN Idle ELSE [@ EXCEPT !.at = where]]

\* A studio drops a ping older than the timeout, a viewer one as old as it.
Expired(t) ==
  {n \in Pending(t) : pending[t][n] >= IF t \in Studios THEN Old ELSE PingTimeout}

\* A datagram for any of the tools on the bus, its sender among them.
Cast(id, n, by, rest) ==
  \E R \in SUBSET Tools :
    /\ wire' = rest \cup {[id |-> id, n |-> n, by |-> by, to |-> r] : r \in R}
    /\ Cardinality(wire') <= MaxInFlight

(* send_ping: the number is taken and entered before the frame goes out, so *)
(* that a fast responder finds it.  Only a studio's counter moves already.  *)
BeginPing(t, c) ==
  /\ call[t][c] = Idle /\ (c = "agent" => t \in Studios)
  /\ seq[t] < MaxNumber /\ MapThenSumSet(LAMBDA u : seq[u], Tools) < MaxPings
  /\ seq' = [seq EXCEPT ![t] = @ + 1]
  /\ pending' = [Without(t, IF t \in Studios THEN Expired(t) ELSE {}) EXCEPT ![t][seq'[t]] = 0]
  /\ sent' = IF t \in Studios THEN [sent EXCEPT ![t] = @ + 1] ELSE sent
  /\ call' = [call EXCEPT ![t][c] = [at |-> "send", n |-> seq'[t]]]
  /\ UNCHANGED <<received, counting, waited, wire, history>>

AfterSend(t, c) == IF t \in Viewers THEN "count" ELSE IF c = "agent" THEN "wait" ELSE "idle"

SendPing(t, c) ==
  /\ At(t, c) = "send"
  /\ Cast("ping", Its(t, c), t, wire)
  /\ Go(t, c, AfterSend(t, c))
  /\ UNCHANGED <<tracker, counting, waited, history>>

\* What an agent's ping leaves behind.
AgentLeaves(t) == /\ waited' = [waited EXCEPT ![t] = 0]
                  /\ wiped' = [wiped EXCEPT ![t] = FALSE]

\* The bus raises: the entry is withdrawn, and a studio's count with it.
SendFails(t, c) ==
  /\ At(t, c) = "send"
  /\ pending' = Without(t, {Its(t, c)})
  /\ sent' = IF t \in Studios /\ sent[t] > 0 THEN [sent EXCEPT ![t] = @ - 1] ELSE sent
  /\ Go(t, c, "idle")
  /\ crossed' = [crossed EXCEPT ![t] = @ \/ Its(t, c) \in answered[t]]
  /\ IF c = "agent" THEN AgentLeaves(t) ELSE UNCHANGED <<waited, wiped>>
  /\ UNCHANGED <<seq, received, counting, wire, answered, echoed>>

CountSent(t) ==
  /\ At(t, "ui") = "count"
  /\ sent' = [sent EXCEPT ![t] = @ + 1]
  /\ Go(t, "ui", "idle")
  /\ UNCHANGED <<seq, pending, received, counting, waited, wire, history>>
-----------------------------------------------------------------------------
(* ping_bus polls the tracker without its lock: a ping that is pending no  *)
(* longer is taken for answered.                                           *)
PingGone(t) ==
  /\ At(t, "agent") = "wait" /\ Its(t, "agent") \notin Pending(t)
  /\ Go(t, "agent", "told")
  /\ UNCHANGED <<tracker, counting, waited, wire, history>>

\* The deadline of the call, whatever the agent made it; or the call returns.
PingReturns(t) ==
  /\ At(t, "agent") \in {"wait", "told"}
  /\ Go(t, "agent", "idle")
  /\ AgentLeaves(t)
  /\ UNCHANGED <<tracker, counting, wire, answered, echoed, crossed>>
-----------------------------------------------------------------------------
(* The receive thread.  The auto-echo switch is read once for a ping, and the *)
(* user may turn it at any time.                                              *)

\* A studio tells its own ping that loops back by its number, a viewer does not.
MayEcho(t, m) == t \in Studios => m.n \notin Pending(t)

OnPing(t, m) ==
  /\ m.id = "ping"
  /\ \/ /\ MayEcho(t, m)
        /\ Cast("pong", m.n, "nobody", wire \ {m})
        /\ echoed' = [u \in Tools |-> IF u = t /\ u = m.by THEN echoed[u]
                                      ELSE echoed[u] \cup {m.n}]
     \/ wire' = wire \ {m} /\ UNCHANGED echoed
  /\ UNCHANGED <<tracker, threads, answered, wiped, crossed>>

Count(t) == IF t \in Studios
            THEN received' = [received EXCEPT ![t] = @ + 1] /\ UNCHANGED counting
            ELSE counting' = [counting EXCEPT ![t] = TRUE] /\ UNCHANGED received

\* Mutant: an answered ping stays in the map.
PongKept(t, m) ==
  /\ m.id = "pong" /\ wire' \in {wire, wire \ {m}}
  /\ IF m.n \in Pending(t)
     THEN answered' = [answered EXCEPT ![t] = @ \cup {m.n}] /\ Count(t)
     ELSE UNCHANGED <<answered, received, counting>>
  /\ UNCHANGED <<seq, pending, sent, call, waited, echoed, wiped, crossed>>

\* UDP may hand a copy over once more.
OnPong(t, m) ==
  /\ m.id = "pong" /\ wire' \in {wire, wire \ {m}}
  /\ IF m.n \in Pending(t)
     THEN /\ pending' = Without(t, {m.n})
          /\ answered' = [answered EXCEPT ![t] = @ \cup {m.n}]
          /\ Count(t)
     ELSE UNCHANGED <<pending, answered, received, counting>>
  /\ UNCHANGED <<seq, sent, call, waited, echoed, wiped, crossed>>

Receive(t) == \E m \in wire : /\ m.to = t /\ ~ counting[t]
                              /\ (OnPing(t, m) \/ OnPong(t, m))

CountAnswer(t) ==
  /\ counting[t]
  /\ received' = [received EXCEPT ![t] = @ + 1]
  /\ counting' = [counting EXCEPT ![t] = FALSE]
  /\ UNCHANGED <<seq, pending, sent, call, waited, wire, history>>
-----------------------------------------------------------------------------
(* Expiry: a studio's window refreshes its figures once per second, a       *)
(* viewer drops stale pings after a frame, of whatever kind, has come in.   *)

\* Mutant: the figures are made without clearing out what is overdue.
FiguresOnly(t) == /\ t \in Studios /\ call[t]["ui"] = Idle /\ Expired(t) # {}
                  /\ UNCHANGED vars

Refresh(t) == /\ t \in Studios /\ call[t]["ui"] = Idle /\ Expired(t) # {}
              /\ pending' = Without(t, Expired(t))
              /\ UNCHANGED <<seq, sent, received, threads, wire, history>>

DropStale(t) == /\ t \in Viewers /\ ~ counting[t] /\ Expired(t) # {}
                /\ pending' = Without(t, Expired(t))
                /\ UNCHANGED <<seq, sent, received, threads, wire, history>>

(* reset: in one go under a studio's lock, in steps in a viewer. *)
Busy(t) == counting[t] \/ \E c \in Callers : At(t, c) \in {"send", "count"}

\* Mutant: a reset clears the counters only.
ResetKeepsPending(t) ==
  /\ t \in Studios /\ call[t]["ui"] = Idle
  /\ crossed' = [crossed EXCEPT ![t] = @ \/ Busy(t)]
  /\ wiped' = [wiped EXCEPT ![t] = call[t]["agent"] # Idle]
  /\ sent' = [sent EXCEPT ![t] = 0] /\ received' = [received EXCEPT ![t] = 0]
  /\ UNCHANGED <<seq, pending, threads, wire, answered, echoed>>

Reset(t) ==
  /\ call[t]["ui"] = Idle
  /\ pending' = Without(t, Numbers)
  /\ crossed' = [crossed EXCEPT ![t] = @ \/ Busy(t)]
  /\ wiped' = [wiped EXCEPT ![t] = call[t]["agent"] # Idle]
  /\ IF t \in Studios
     THEN /\ sent' = [sent EXCEPT ![t] = 0] /\ received' = [received EXCEPT ![t] = 0]
          /\ UNCHANGED call
     ELSE Go(t, "ui", "reset sent") /\ UNCHANGED <<sent, received>>
  /\ UNCHANGED <<seq, counting, waited, wire, answered, echoed>>

ResetSent(t) ==
  /\ At(t, "ui") = "reset sent"
  /\ sent' = [sent EXCEPT ![t] = 0]
  /\ Go(t, "ui", "reset answered")
  /\ UNCHANGED <<seq, pending, received, counting, waited, wire, history>>

ResetAnswered(t) ==
  /\ At(t, "ui") = "reset answered"
  /\ received' = [received EXCEPT ![t] = 0]
  /\ Go(t, "ui", "idle")
  /\ UNCHANGED <<seq, pending, sent, counting, waited, wire, history>>

\* A tick of the clock for every ping there is.
Older(k) == IF k < Old THEN k + 1 ELSE k

Tick ==
  /\ pending' = [t \in Tools |-> [n \in Numbers |-> Older(pending[t][n])]]
  /\ waited' = [t \in Tools |-> IF At(t, "agent") \in {"send", "wait"}
                                THEN Older(waited[t]) ELSE waited[t]]
  /\ UNCHANGED <<seq, sent, received, call, counting, wire, history>>

Next == \/ \E t \in Tools :
             \/ \E c \in Callers : BeginPing(t, c) \/ SendPing(t, c) \/ SendFails(t, c)
             \/ CountSent(t) \/ PingGone(t) \/ PingReturns(t)
             \/ Receive(t) \/ CountAnswer(t) \/ Refresh(t) \/ DropStale(t)
             \/ Reset(t) \/ ResetSent(t) \/ ResetAnswered(t)
        \/ Tick

\* Time passes, sends return, and the window's refresh timer fires.  Nobody
\* has to answer.
Spec == /\ Init /\ [][Next]_vars /\ WF_vars(Tick)
        /\ \A t \in Tools : /\ WF_vars(Refresh(t))
                            /\ \A c \in Callers : WF_vars(SendPing(t, c) \/ SendFails(t, c))
-----------------------------------------------------------------------------
\* The tracker of either program is the abstract ledger: a ping answered,
\* expired, withdrawn or reset is never answered again by a late, duplicated or
\* foreign echo, and the count moves with the answers.
Ledger == INSTANCE PingLedger WITH
  outcome <- [t \in Tools |-> [n \in Numbers |->
               IF n \in answered[t] THEN "answered"
               ELSE IF n \in Pending(t) THEN "open"
               ELSE IF n > seq[t] THEN "none" ELSE "dropped"]],
  counted <- [t \in Tools |-> received[t] + IF counting[t] THEN 1 ELSE 0]

LedgerKept == Ledger!Spec

\* The loss shown (sent less received less pending) is never below zero while
\* nothing is being counted, unless a reset came between the two halves of a
\* send or of an answer, or a send failed whose number had been answered: max()
\* and saturating_sub() hide what is left then.
CountsAgree ==
  \A t \in Tools :
    /\ ~ crossed[t] /\ ~ counting[t]
    /\ At(t, "ui") \notin {"send", "count", "reset sent", "reset answered"}
    => received[t] + Cardinality(Pending(t)) <= sent[t]

\* A studio counts a ping answered only if another tool echoed it, though its
\* own frames may loop back to it.  The number is all it goes by, and so it also
\* takes the echo of another tool's ping that has the same number.
NotByItself ==
  \A t \in Studios, n \in Numbers : n \in answered[t] => n \in echoed[t]

\* ping_bus reports success, "pending no longer" being its only evidence.  That
\* means an answer as long as the ping is no older than ping_timeout, when
\* nobody resets the figures or disconnects meanwhile.
SuccessMeansAnswered ==
  \A t \in Studios :
    At(t, "agent") = "told" /\ waited[t] <= PingTimeout /\ ~ wiped[t]
      => Its(t, "agent") \in answered[t]

\* What is shown and said of pings is so: the figures of either program, what a
\* studio counts as answered, and what it tells an agent.
FiguresAreTrue == CountsAgree /\ NotByItself /\ SuccessMeansAnswered

\* A studio's ping does not stay open for ever on a bus where nothing answers.
PingsSettle ==
  \A t \in Studios, n \in Numbers : n \in Pending(t) ~> n \notin Pending(t)
=============================================================================
