---------------------------- MODULE NativeCollect ----------------------------
(***************************************************************************)
(* NativeCanDiagnosticInterface._request, _send_request and _collect       *)
(* (diag/native.py) on whole messages: how long a session waits for leave  *)
(* to send the rest of a long request, and for its replies.  The deadline  *)
(* and the settle window are countdowns that Tick advances.  The settle    *)
(* window opens with each answer; an ECU's "response pending" buys another *)
(* full timeout and closes the settle window, MaxPending times per         *)
(* request.  ECUs answer whenever they like, also after the session has    *)
(* stopped listening.  The spacing between the frames of a request takes   *)
(* no time here.                                                           *)
(***************************************************************************)
EXTENDS Integers, Sequences

CONSTANTS Senders,
          Timeout,      \* ticks of a full window
          Settle,       \* ticks of the settle window
          MaxPending,   \* MAX_RESPONSE_PENDING: 10
          FlowTimeout,  \* ticks a request waits for flow control
          Lengths,      \* frames a request may take
          MaxRequests,  \* bound: requests issued
          InFlight      \* bound: replies queued and not read

ASSUME TimesAssumption ==
  /\ Timeout \in Nat /\ Settle \in Nat /\ MaxPending \in Nat /\ FlowTimeout \in Nat
  /\ Lengths \subseteq Nat \ {0}
  /\ 0 < Settle /\ Settle < Timeout

VARIABLES phase,        \* "idle", "cleared", "held", "sending" or "collecting";
                        \* "failed": idle after a frame that could not be sent
          request,      \* number of the current request
          unsent,       \* frames of it that are still to go
          deadline,     \* ticks to the deadline
          settle,       \* ticks to the settle deadline, or Off
          pendingSeen,
          queue,        \* replies fed and not read yet
          responses,    \* replies of the current or last call
          owes,         \* ECU -> requests it has not answered
          waited,       \* history: ticks of the current wait
          leave,        \* history: the request flow control was heard in
          promised      \* history: ECU -> ticks left of the window it asked for

collectVars == <<phase, request, unsent, deadline, settle, pendingSeen, queue, responses,
                 owes, waited, leave, promised>>

Off == -1

CollectInit == /\ phase = "idle" /\ request = 0 /\ unsent = 0 /\ leave = 0
               /\ deadline = 0 /\ settle = Off /\ pendingSeen = 0
               /\ queue = <<>> /\ responses = <<>>
               /\ owes = [e \in Senders |-> {}]
               /\ waited = 0 /\ promised = [e \in Senders |-> 0]

\* _collect's start.
Listen == /\ phase' = "collecting" /\ deadline' = Timeout /\ settle' = Off
          /\ pendingSeen' = 0 /\ waited' = 0 /\ responses' = <<>>

\* Mutant: what is left of an earlier request stays in the queue.
BeginUncleared ==
  /\ phase \in {"idle", "failed"} /\ request < MaxRequests
  /\ phase' = "cleared" /\ request' = request + 1
  /\ promised' = [e \in Senders |-> 0]
  /\ responses' = <<>> /\ waited' = 0 /\ leave' = 0
  /\ UNCHANGED <<queue, unsent, deadline, settle, pendingSeen, owes>>

\* _request: what is left of an earlier request is dropped.  Until the request
\* goes out the capture loop may feed more.
Begin ==
  /\ phase \in {"idle", "failed"} /\ request < MaxRequests
  /\ phase' = "cleared" /\ request' = request + 1
  /\ queue' = <<>> /\ promised' = [e \in Senders |-> 0]
  /\ responses' = <<>> /\ waited' = 0 /\ leave' = 0
  /\ UNCHANGED <<unsent, deadline, settle, pendingSeen, owes>>

\* The first frame goes out; a request of one frame is done with that.
SendRequest ==
  /\ phase = "cleared"
  /\ owes' = [e \in Senders |-> owes[e] \cup {request}]
  /\ \E n \in Lengths :
       /\ unsent' = n - 1
       /\ IF n = 1 THEN Listen
          ELSE /\ phase' = "held" /\ deadline' = FlowTimeout
               /\ UNCHANGED <<settle, pendingSeen, waited, responses>>
  /\ UNCHANGED <<request, queue, promised, leave>>

\* The first frame cannot be sent: python-can's error leaves _request.
CannotSend ==
  /\ phase = "cleared" /\ phase' = "failed"
  /\ UNCHANGED <<request, unsent, deadline, settle, pendingSeen, queue, responses, owes,
                 waited, leave, promised>>

\* _await_flow_control takes the first flow control frame, whoever sent it and
\* whatever its status, and throws away every other frame on the way to it.
Held ==
  /\ phase = "held" /\ deadline > 0 /\ queue # <<>>
  /\ queue' = Tail(queue)
  /\ IF Head(queue).kind = "flow"
     THEN phase' = "sending" /\ leave' = Head(queue).heardIn
     ELSE UNCHANGED <<phase, leave>>
  /\ UNCHANGED <<request, unsent, deadline, settle, pendingSeen, responses, owes,
                 waited, promised>>

\* "Send anyway rather than abandon."
SendAnyway ==
  /\ phase = "held" /\ deadline = 0
  /\ phase' = "sending"
  /\ UNCHANGED <<request, unsent, deadline, settle, pendingSeen, queue, responses, owes,
                 waited, leave, promised>>

\* The next frame goes out, or cannot, as the first.
SendNext ==
  /\ phase = "sending"
  /\ \/ /\ unsent' = unsent - 1
        /\ IF unsent = 1 THEN Listen /\ leave' = 0
           ELSE UNCHANGED <<phase, deadline, settle, pendingSeen, waited, responses, leave>>
     \/ /\ phase' = "failed"
        /\ UNCHANGED <<unsent, deadline, settle, pendingSeen, waited, responses, leave>>
  /\ UNCHANGED <<request, queue, owes, promised>>

ReplyOf(e, kind, r) == [src |-> e, kind |-> kind, req |-> r, heardIn |-> request]

EcuAsksForTime(e) ==
  /\ Len(queue) < InFlight
  /\ \E r \in owes[e] : queue' = Append(queue, ReplyOf(e, "pending", r))
  /\ UNCHANGED <<phase, request, unsent, deadline, settle, pendingSeen, responses,
                 owes, waited, leave, promised>>

\* Any ECU the request reached; a late one serves as well as the one in time.
FlowControlComes ==
  /\ Len(queue) < InFlight /\ \E n \in Lengths : n > 1
  /\ \E e \in Senders : owes[e] # {}
  /\ queue' = Append(queue, [kind |-> "flow", heardIn |-> request])
  /\ UNCHANGED <<phase, request, unsent, deadline, settle, pendingSeen, responses,
                 owes, waited, leave, promised>>

EcuAnswers(e) ==
  /\ Len(queue) < InFlight
  /\ \E r \in owes[e] : /\ queue' = Append(queue, ReplyOf(e, "answer", r))
                        /\ owes' = [owes EXCEPT ![e] = @ \ {r}]
  /\ UNCHANGED <<phase, request, unsent, deadline, settle, pendingSeen, responses,
                 waited, leave, promised>>

Expired == deadline = 0 \/ settle = 0

\* Mutant: every request for more time is granted.
TakePendingAlways(e) ==
  /\ pendingSeen' = IF pendingSeen <= MaxPending THEN pendingSeen + 1 ELSE pendingSeen
  /\ deadline' = Timeout /\ settle' = Off
  /\ promised' = [promised EXCEPT ![e] = Timeout]
  /\ UNCHANGED responses

\* Mutant: more time is promised and the deadline stays.
TakePendingNoExtension(e) ==
  /\ pendingSeen' = IF pendingSeen <= MaxPending THEN pendingSeen + 1 ELSE pendingSeen
  /\ IF pendingSeen + 1 <= MaxPending
     THEN /\ settle' = Off
          /\ promised' = [promised EXCEPT ![e] = Timeout]
     ELSE UNCHANGED <<settle, promised>>
  /\ UNCHANGED <<deadline, responses>>

\* Past MaxPending the count no longer matters and stays where it is.
TakePending(e) ==
  /\ pendingSeen' = IF pendingSeen <= MaxPending THEN pendingSeen + 1 ELSE pendingSeen
  /\ IF pendingSeen + 1 <= MaxPending
     THEN /\ deadline' = Timeout /\ settle' = Off
          /\ promised' = [promised EXCEPT ![e] = Timeout]
     ELSE UNCHANGED <<deadline, settle, promised>>
  /\ UNCHANGED responses

TakeAnswer(reply) ==
  /\ responses' = Append(responses, reply)
  /\ settle' = Settle
  /\ promised' = [promised EXCEPT ![reply.src] = 0]
  /\ UNCHANGED <<pendingSeen, deadline>>

Receive ==
  /\ phase = "collecting" /\ ~Expired /\ queue # <<>>
  /\ queue' = Tail(queue)
  /\ CASE Head(queue).kind = "pending" -> TakePending(Head(queue).src)
       [] Head(queue).kind = "answer" -> TakeAnswer(Head(queue))
       [] OTHER -> UNCHANGED <<settle, pendingSeen, deadline, responses, promised>>
  /\ UNCHANGED <<phase, request, unsent, owes, waited, leave>>

\* The flow control an answer's first frame calls for cannot be sent: the error
\* leaves _collect, and what it has gathered is lost.
CollectFails ==
  /\ phase = "collecting" /\ ~Expired
  /\ phase' = "failed" /\ responses' = <<>>
  /\ UNCHANGED <<request, unsent, deadline, settle, pendingSeen, queue, owes, waited,
                 leave, promised>>

Return == /\ phase = "collecting" /\ Expired
          /\ phase' = "idle"
          /\ UNCHANGED <<request, unsent, deadline, settle, pendingSeen, queue,
                         responses, owes, waited, leave, promised>>

Tick == /\ (phase = "collecting" /\ ~Expired) \/ (phase = "held" /\ deadline > 0)
        /\ deadline' = deadline - 1
        /\ settle' = IF phase = "held" \/ settle = Off THEN settle ELSE settle - 1
        /\ waited' = waited + 1
        /\ promised' = [e \in Senders |-> IF promised[e] > 0 THEN promised[e] - 1 ELSE 0]
        /\ UNCHANGED <<phase, request, unsent, pendingSeen, queue, responses, owes, leave>>

CollectNext ==
  \/ Begin \/ SendRequest \/ CannotSend \/ Held \/ SendAnyway \/ SendNext
  \/ Receive \/ CollectFails \/ Return \/ Tick \/ FlowControlComes
  \/ \E e \in Senders : EcuAsksForTime(e) \/ EcuAnswers(e)

CollectSpec == CollectInit /\ [][CollectNext]_collectVars
-----------------------------------------------------------------------------
CollectTypeOK == /\ phase \in {"idle", "cleared", "held", "sending", "collecting", "failed"}
                 /\ request \in 0..MaxRequests /\ leave \in 0..request
                 /\ unsent \in Nat
                 /\ pendingSeen \in 0..(MaxPending + 1)
                 /\ deadline \in Nat /\ settle \in Off..Settle
                 /\ Len(queue) <= InFlight
                 /\ \A e \in Senders : owes[e] \subseteq 1..request

\* However often the ECUs ask for more time, the wait for the replies is over
\* within MaxPending + 1 timeouts; that for flow control within its own.
WaitIsBounded ==
  \/ phase \in {"held", "sending", "failed"} /\ waited <= FlowTimeout
  \/ phase \notin {"held", "sending"} /\ waited <= (MaxPending + 1) * Timeout

\* A reply that was queued before _request cleared the queue is never returned
\* for it, and neither is an ECU's request for more time.
RepliesHeardSinceCleared ==
  \A i \in DOMAIN responses :
    responses[i].heardIn = request /\ responses[i].kind = "answer"

\* Not an invariant: a late answer to an earlier request, fed after the clearing
\* (also before this request has gone out), is returned as an answer to this one.
RepliesAreToThisRequest ==
  \A i \in DOMAIN responses : responses[i].req = request

\* A call that returns nothing listened for a full timeout after the request
\* and after every extension it granted.
EmptyMeansWaitedOut ==
  phase = "idle" /\ request > 0 /\ responses = <<>> =>
    waited >= Timeout /\ \A e \in Senders : promised[e] = 0

\* The rest of a request goes out on flow control heard since the clearing, be
\* it given to another request, or after the whole wait for one.
RestGoesOnLeave == phase = "sending" => leave = request \/ waited = FlowTimeout

\* What _request may be relied on for (native.py): nothing it returns was there
\* before it cleared the queue, it was sent when it was time to, and it returns
\* nothing only if there was time for an answer.
AnswerIsHonest == RepliesHeardSinceCleared /\ EmptyMeansWaitedOut /\ RestGoesOnLeave

\* _await_flow_control: nobody's answer is thrown away.  Not an invariant: what
\* comes before the flow control, a refusal included, is gone.
EarlyAnswerIsReturned ==
  phase = "held" /\ queue # <<>> => Head(queue).kind # "answer"

\* "Give it another full window" (native.py, _collect): a call never returns
\* while the window it granted an ECU that asked for time is still open.  Not an
\* invariant: the answer of another ECU starts the one settle deadline.
PendingEcuKeepsItsWindow ==
  phase = "idle" => \A e \in Senders : promised[e] = 0
=============================================================================
