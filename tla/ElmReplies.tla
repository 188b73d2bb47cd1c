------------------------------ MODULE ElmReplies ------------------------------
(* What an ELM327 prints for a request, and what the studio makes of it       *)
(* (diag/elm327/protocol.py clean_reply, diag/elm327/interface.py _request    *)
(* and _collect): one line per CAN frame, headers on, those of several ECUs   *)
(* in any order, among chatter and status words.  A line may come out         *)
(* spoilt: with an odd number of digits, with nothing after its header, with  *)
(* an error word behind its bytes, or run into the next one.  A line that     *)
(* lost whole bytes is taken for a shorter frame and left to NativeFrames.    *)
EXTENDS IsoTp, SequencesExt

CONSTANTS Ecus,
          Lengths,        \* ECU -> bytes of its answer
          MaxRequests, MaxSpoilt, MaxNoise   \* bounds

VARIABLES extended,       \* whether the protocol in force has 29-bit identifiers
          request,        \* number of the request
          told,           \* ECU -> frames of its answer sent so far
          lost,           \* ECU -> those of them no line shows as they were
          printed,        \* the lines since the command
          transfers,      \* ECU -> its transfer in the session's reassembler
          outcome,        \* what the call returned or raised
          spoilt, noise   \* lines of either sort, which are bounded

vars == <<extended, request, told, lost, printed, transfers, outcome, spoilt, noise>>

None == "none"
NoFrame == Frame("none", 0, <<>>)
Message(e) == [i \in 1..Lengths[e] |-> <<e, request, i>>]
Frames(e) == Segment(Message(e))
Waiting == [kind |-> "waiting"]
NoTransfers == [e \in Ecus |-> NoTransfer]

Init == /\ extended \in BOOLEAN /\ request = 0
        /\ told = [e \in Ecus |-> 0] /\ lost = [e \in Ecus |-> {}]
        /\ printed = <<>> /\ transfers = NoTransfers
        /\ outcome = [kind |-> "ready"] /\ spoilt = 0 /\ noise = 0

-----------------------------------------------------------------------------
(* The adapter. *)

Line(kind, e, frame) == [kind |-> kind, src |-> e, frame |-> frame]
Sends(e) == outcome = Waiting /\ told[e] < Len(Frames(e))

Prints(e) ==
  /\ Sends(e)
  /\ printed' = Append(printed, Line("frame", e, Frames(e)[told[e] + 1]))
  /\ told' = [told EXCEPT ![e] = @ + 1]
  /\ UNCHANGED <<extended, request, lost, transfers, outcome, spoilt, noise>>

Spoils(e) ==
  /\ Sends(e) /\ spoilt < MaxSpoilt
  /\ \E kind \in {"odd", "bare", "DATA ERROR"} : printed' = Append(printed, Line(kind, e, NoFrame))
  /\ told' = [told EXCEPT ![e] = @ + 1]
  /\ lost' = [lost EXCEPT ![e] = @ \cup {told[e] + 1}]
  /\ spoilt' = spoilt + 1
  /\ UNCHANGED <<extended, request, transfers, outcome, noise>>

\* The return between the line of e and that of f is missing.
RunsTogether(e, f) ==
  /\ Sends(e) /\ Sends(f) /\ e # f /\ spoilt < MaxSpoilt
  /\ printed' = Append(printed, Line("glued", e, NoFrame))
  /\ told' = [told EXCEPT ![e] = @ + 1, ![f] = @ + 1]
  /\ lost' = [lost EXCEPT ![e] = @ \cup {told[e] + 1}, ![f] = @ \cup {told[f] + 1}]
  /\ spoilt' = spoilt + 1
  /\ UNCHANGED <<extended, request, transfers, outcome, noise>>

\* Chatter, anywhere; a status word instead of data or after it.
Adds(kind) ==
  /\ outcome = Waiting /\ noise < MaxNoise
  /\ kind = "NO DATA" => \A e \in Ecus : told[e] = 0
  /\ printed' = Append(printed, Line(kind, None, NoFrame))
  /\ noise' = noise + 1
  /\ UNCHANGED <<extended, request, told, lost, transfers, outcome, spoilt>>

-----------------------------------------------------------------------------
(* The session. *)

\* Mutant: the transfers of the reply before stay.
RequestKeepsTransfers ==
  /\ outcome # Waiting /\ request < MaxRequests
  /\ request' = request + 1 /\ outcome' = Waiting
  /\ told' = [e \in Ecus |-> 0] /\ lost' = [e \in Ecus |-> {}]
  /\ printed' = <<>>
  /\ UNCHANGED <<extended, transfers, spoilt, noise>>

Request ==
  /\ outcome # Waiting /\ request < MaxRequests
  /\ request' = request + 1 /\ outcome' = Waiting
  /\ told' = [e \in Ecus |-> 0] /\ lost' = [e \in Ecus |-> {}]
  /\ printed' = <<>> /\ transfers' = NoTransfers
  /\ UNCHANGED <<extended, spoilt, noise>>

Statuses == {"NO DATA", "BUFFER FULL", "DATA ERROR"}
Chatter == {"SEARCHING...", "BUS INIT: OK"}

\* What clean_reply leaves: the lines that are neither chatter nor a status
\* word, and the last status word.  Chatter in front of a frame is cut off.
Data(lines) == SelectSeq(lines, LAMBDA l : l.kind \notin Statuses \cup Chatter)
Status(lines) ==
  LET words == SelectSeq(lines, LAMBDA l : l.kind \in Statuses)
  IN IF words = <<>> THEN None ELSE Last(words).kind

\* parse_frame_line: two lines in one leave an odd number of digits behind a
\* header of three, and more than eight bytes behind one of eight.
BadLine(l) == l.kind = "odd" \/ (l.kind = "glued" /\ ~ extended)
TooLong(l) == l.kind = "glued" /\ extended

Collected == [transfers |-> transfers, responses |-> <<>>, errors |-> 0, escaped |-> FALSE]

\* One line of _collect: a ProtocolError is noted and the loop goes on; a frame
\* of more than eight bytes is no ProtocolError, and ends the call.
Collect(sofar, l) ==
  CASE sofar.escaped \/ l.kind = "bare" -> sofar
    [] BadLine(l) -> [sofar EXCEPT !.errors = @ + 1]
    [] TooLong(l) -> [sofar EXCEPT !.escaped = TRUE]
    [] OTHER ->
         LET out == ProcessFrame(sofar.transfers[l.src], l.frame)
         IN [sofar EXCEPT !.transfers[l.src] = out.transfer,
                          !.errors = @ + IF out.error THEN 1 ELSE 0,
                          !.responses = IF out.message = <<>> THEN @
                                        ELSE Append(@, [src |-> l.src, data |-> out.message])]

PendingSources(trs) == {e \in Ecus : trs[e] # NoTransfer}

\* The prompt ends the reply, whatever the ECUs had still to say.
Prompt ==
  /\ outcome = Waiting
  /\ IF Status(printed) # None
     THEN /\ outcome' = [kind |-> IF Status(printed) = "NO DATA" THEN "nothing" ELSE "refused"]
          /\ UNCHANGED transfers
     ELSE LET all == FoldLeft(Collect, Collected, Data(printed))
          IN IF all.escaped
             THEN outcome' = [kind |-> "escaped"] /\ transfers' = all.transfers
             ELSE /\ outcome' = [kind |-> "answers", responses |-> all.responses,
                        errors |-> all.errors + Cardinality(PendingSources(all.transfers))]
                  /\ transfers' = NoTransfers
  /\ UNCHANGED <<extended, request, told, lost, printed, spoilt, noise>>

Next == \/ Request \/ Prompt
        \/ \E e \in Ecus : Prints(e) \/ Spoils(e) \/ \E f \in Ecus : RunsTogether(e, f)
        \/ \E kind \in {"SEARCHING...", "NO DATA", "BUFFER FULL"} : Adds(kind)

Spec == Init /\ [][Next]_vars
-----------------------------------------------------------------------------
Whole(e) == told[e] = Len(Frames(e)) /\ lost[e] = {}
Begun(e) == told[e] > 0 /\ 1 \notin lost[e]

\* "Keeping what survives a bad line" (interface.py, _collect): a call that
\* returns answers returns exactly those whose frames were all printed, each
\* once and as it was sent, however the lines of the ECUs mix and whatever an
\* earlier reply left in the reassembler; and an answer that began and did not
\* come through is noted in last_errors.
RepliesAsPrinted ==
  outcome.kind = "answers" =>
    /\ ToSet(outcome.responses) = {[src |-> e, data |-> Message(e)] : e \in {d \in Ecus : Whole(d)}}
    /\ IsInjective(outcome.responses)
    /\ (\E e \in Ecus : Begun(e) /\ ~ Whole(e)) => outcome.errors > 0

\* The same words for every line: no line makes the call fail.  Not an invariant:
\* with 29-bit identifiers two lines run together make a frame of more than eight
\* bytes, whose ValueError _collect does not catch.
BadLineCostsItself == outcome.kind # "escaped"
=============================================================================
