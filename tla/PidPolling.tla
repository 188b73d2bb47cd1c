----------------------------- MODULE PidPolling -----------------------------
(***************************************************************************)
(* diag/j1979/polling.py: a PidPoller asks its PIDs one after the other,   *)
(* cycle after cycle, on a thread of its own, and hands each cycle's       *)
(* samples to a CsvRecorder.  stop() raises an event, joins the thread     *)
(* with a timeout and closes the recording, on whatever thread calls it.   *)
(* Actions here change `pollers` only; the module that composes them says  *)
(* who may call them and what becomes of a request.                        *)
(***************************************************************************)
EXTENDS Naturals

CONSTANTS MaxPollers,  \* bound: PidPoller objects made
          Pids         \* PIDs a poller asks in a cycle

ASSUME PidsAssumption == Pids \in Nat \ {0}

VARIABLE pollers

Pollers == 1..MaxPollers

\* Where its thread is: "check" in the loop of run, "cycle" in that of
\* poll_cycle, "waiting" for a reply, "record" before recorder.write,
\* "writing" past its test that the file is open, "ended".
NewPoller(session, file) ==
  [at |-> "unused", session |-> session, stop |-> FALSE, asked |-> 0,
   got |-> 0, file |-> file, lost |-> 0]

Alive(p) == pollers[p].at \notin {"unused", "ended"}

Unused(p) == pollers[p].at = "unused" /\ \A q \in 1..(p - 1) : pollers[q].at # "unused"

Becomes(p, at) == pollers' = [pollers EXCEPT ![p].at = at]

\* start() on a poller just made.
Start(p, session, file) ==
  /\ Unused(p)
  /\ pollers' = [pollers EXCEPT ![p] = [NewPoller(session, file) EXCEPT !.at = "check"]]

CycleBegins(p) == pollers' = [pollers EXCEPT ![p].at = "cycle", ![p].asked = 0]

Ends(p, lost) ==
  pollers' = [pollers EXCEPT ![p].at = "ended", ![p].asked = 0, ![p].got = 0,
                             ![p].lost = @ + lost]

\* run: the event is looked at before every cycle, the duration after it.
RunChecks(p, expired) ==
  /\ pollers[p].at = "check"
  /\ IF pollers[p].stop \/ (expired /\ pollers[p].asked > 0)
     THEN Ends(p, 0)
     ELSE CycleBegins(p)

CycleOver(p) == pollers[p].asked = Pids \/ pollers[p].stop

CycleEnds(p) == pollers[p].at = "cycle" /\ CycleOver(p) /\ Becomes(p, "record")

\* A session that is not open refuses (NotConnectedError), which counts as a
\* PID that failed: the cycle goes on.
Ask(p, sessionOpen) ==
  /\ pollers[p].at = "cycle" /\ ~ CycleOver(p)
  /\ pollers' = [pollers EXCEPT ![p].asked = @ + 1,
                                ![p].at = IF sessionOpen THEN "waiting" ELSE "cycle"]

\* A reading if there is anybody to hear, or none, or a DiagnosticError.
Answered(p, audible) ==
  /\ pollers[p].at = "waiting"
  /\ \E n \in 0..(IF audible THEN 1 ELSE 0) :
       pollers' = [pollers EXCEPT ![p].at = "cycle", ![p].got = @ + n]

\* TransportError, kept in `error`, or what python-can raises, not caught: the
\* thread ends inside the cycle, and the samples not yet written go with it.
LinkFails(p) == pollers[p].at = "waiting" /\ Ends(p, pollers[p].got)

\* The end of a cycle; what it got is handed on.
CycleDone(p, lost) ==
  pollers' = [pollers EXCEPT ![p].at = "check", ![p].got = 0, ![p].lost = @ + lost]

\* Recorder.write leaves at once when the file is closed already.
Record(p) ==
  /\ pollers[p].at = "record"
  /\ \/ /\ pollers[p].got = 0 \/ pollers[p].file = "none"
        /\ CycleDone(p, 0)
     \/ /\ pollers[p].got > 0 /\ pollers[p].file = "closed"
        /\ CycleDone(p, pollers[p].got)
     \/ /\ pollers[p].got > 0 /\ pollers[p].file = "open"
        /\ Becomes(p, "writing")

\* Row by row and a flush; a file closed meanwhile raises ValueError.
Written(p) ==
  /\ pollers[p].at = "writing"
  /\ IF pollers[p].file = "open" THEN CycleDone(p, 0) ELSE Ends(p, pollers[p].got)

PollerStep(p, sessionOpen, expired) ==
  RunChecks(p, expired) \/ CycleEnds(p) \/ Ask(p, sessionOpen) \/ Record(p) \/ Written(p)

-----------------------------------------------------------------------------
(* stop(), in two parts: the thread that calls it waits in between. *)

\* Mutant: the recording is closed but the thread is told nothing.
RaiseNothing(p) == UNCHANGED pollers

RaiseStop(p) == pollers' = [pollers EXCEPT ![p].stop = TRUE]

\* Join returned or timed out: the recording is closed either way.
CloseFile(p) ==
  pollers' = [pollers EXCEPT ![p].file = IF @ = "open" THEN "closed" ELSE @]

\* "Lose one cycle at most" (CsvRecorder.write): a recording closed while its
\* poller still waits for an answer (the join of stop() timed out), or a thread
\* that ends inside a cycle, costs the samples of one cycle, never more.
AtMostOneCycleLost == \A p \in Pollers : pollers[p].lost <= Pids
=============================================================================
