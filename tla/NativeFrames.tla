---------------------------- MODULE NativeFrames ----------------------------
(***************************************************************************)
(* The frame path of diag/native.py: ECUs answer a request with ISO-TP     *)
(* messages; the application's capture loop pushes their frames into a     *)
(* bounded QueueFrameSource that drops its oldest frame when full; the     *)
(* session takes them out one by one, feeds the reassembler, and answers a *)
(* first frame with flow control.  Each request starts by resetting the    *)
(* reassembler and clearing the queue.  The ECUs are outside the           *)
(* repository: they send a first frame and hold the rest back until they   *)
(* are cleared to send.                                                    *)
(***************************************************************************)
EXTENDS IsoTp, FiniteSets, SequencesExt

CONSTANTS Sources,     \* sources answering on the bus
          Script,      \* the lengths of the messages of each
          QueueSize,   \* QueueFrameSource(maxsize): 512 in the code
          MaxNoise,    \* bound: malformed frames on the bus
          MaxResets,   \* bound: requests after the first one
          MaxShort     \* bound: messages with frames that reach us a byte short

\* Messages are not empty and fit a transfer; a frame that lost a byte has one left.
ASSUME ScriptAssumption == Script \in [Sources -> Seq(1..MaxLen)] /\ NextChunk > 1

VARIABLES current,     \* ECU -> index of the message it is sending
          toSend,      \* ECU -> frames of it still to send
          allowed,     \* ECU -> flow control received for it
          frames,      \* the QueueFrameSource
          holding,     \* the frame the capture loop is inside feed() with
          sawFull,     \* put_nowait has just raised queue.Full
          transfers,   \* ECU -> its transfer in the IsoTpManager
          listening,   \* the session's call has not failed
          delivered,   \* history: ECU -> messages handed to the session
          dropped,     \* history: frames lost: by the queue, or flow control
                       \* that could not be sent
          noise, requests,
          shortened    \* history: messages a frame of which arrived short

ecuVars == <<current, toSend, allowed>>
frameVars == <<ecuVars, frames, holding, sawFull, transfers, listening, delivered, dropped,
          noise, requests, shortened>>

Message(e, k) == [i \in 1..Script[e][k] |-> <<e, k, i>>]
NoFrame == <<>>

FramesInit == /\ current = [e \in Sources |-> 0]
              /\ toSend = [e \in Sources |-> <<>>]
              /\ allowed = [e \in Sources |-> FALSE]
              /\ frames = <<>> /\ holding = NoFrame /\ sawFull = FALSE
              /\ transfers = [e \in Sources |-> NoTransfer]
              /\ delivered = [e \in Sources |-> <<>>]
              /\ dropped = 0 /\ noise = 0 /\ requests = 0 /\ shortened = {}
              /\ listening = TRUE

-----------------------------------------------------------------------------
(* The bus.  One frame at a time is in the capture loop's hands. *)

Arrives(e, f) == holding = NoFrame /\ holding' = [src |-> e, frame |-> f]

StartMessage(e) ==
  /\ toSend[e] = <<>> /\ current[e] < Len(Script[e])
  /\ current' = [current EXCEPT ![e] = @ + 1]
  /\ toSend' = [toSend EXCEPT ![e] = Segment(Message(e, current[e] + 1))]
  /\ allowed' = [allowed EXCEPT ![e] = FALSE]
  /\ UNCHANGED <<frames, holding, sawFull, transfers, listening, delivered, dropped, noise,
                 requests, shortened>>

Short(f) == [f EXCEPT !.data = Front(@)]

SendFrame(e) ==
  /\ toSend[e] # <<>>
  /\ LET f == Head(toSend[e])
     IN /\ f.pci = "CF" => allowed[e]
        /\ \/ Arrives(e, f) /\ UNCHANGED shortened
           \/ /\ f.pci = "CF" /\ Cardinality(shortened) < MaxShort
              /\ Arrives(e, Short(f))
              /\ shortened' = shortened \cup {<<e, current[e]>>}
  /\ toSend' = [toSend EXCEPT ![e] = Tail(@)]
  /\ UNCHANGED <<current, allowed, frames, sawFull, transfers, listening, delivered, dropped,
                 noise, requests>>

\* N_Bs timeout: its first frame is gone and no flow control will come.  It
\* is far longer than the session's poll interval, so a first frame still
\* on its way to the reassembler is answered in time.
EcuGivesUp(e) ==
  /\ toSend[e] # <<>> /\ Head(toSend[e]).pci = "CF" /\ ~allowed[e]
  /\ holding = NoFrame
  /\ \A i \in DOMAIN frames : frames[i].src # e
  /\ toSend' = [toSend EXCEPT ![e] = <<>>]
  /\ UNCHANGED <<current, allowed, frames, holding, sawFull, transfers, listening, delivered,
                 dropped, noise, requests, shortened>>

\* Frames an ECU emits that carry no message: an empty or overlong single
\* frame, a first frame announcing what fits a single one, a flow control
\* frame, an undefined PCI.
Malformed == { Frame("SF", SingleMax + 1, Padded(<<>>, SingleMax)),
               Frame("FF", 1, Padded(<<>>, FirstChunk)),
               Frame("FC", 0, <<>>), Frame("other", 0, <<>>) }

Noise(e) == /\ noise < MaxNoise
            /\ noise' = noise + 1
            /\ \E f \in Malformed : Arrives(e, f)
            /\ UNCHANGED <<ecuVars, frames, sawFull, transfers, listening, delivered, dropped,
                           requests, shortened>>

-----------------------------------------------------------------------------
(* QueueFrameSource.feed in the capture thread: put_nowait, and on a full  *)
(* queue get_nowait and round again.  The session runs in between.         *)

FeedPut == /\ holding # NoFrame /\ ~ sawFull /\ Len(frames) < QueueSize
           /\ frames' = Append(frames, holding)
           /\ holding' = NoFrame
           /\ UNCHANGED <<ecuVars, sawFull, transfers, listening, delivered, dropped, noise,
                          requests, shortened>>

FeedFull == /\ holding # NoFrame /\ ~ sawFull /\ Len(frames) = QueueSize
            /\ sawFull' = TRUE
            /\ UNCHANGED <<ecuVars, frames, holding, transfers, listening, delivered, dropped,
                           noise, requests, shortened>>

\* By now the session may have drained the queue: then feed returns, and the
\* frame it was called with is the one that is lost.
FeedDropOldest == /\ sawFull
                  /\ sawFull' = FALSE
                  /\ dropped' = dropped + 1
                  /\ IF frames = <<>>
                     THEN holding' = NoFrame /\ UNCHANGED frames
                     ELSE frames' = Tail(frames) /\ UNCHANGED holding
                  /\ UNCHANGED <<ecuVars, transfers, listening, delivered, noise, requests,
                                 shortened>>

-----------------------------------------------------------------------------
(* The session. *)

\* _request before it sends: reset the reassembler, clear the queue.
BeginRequest == /\ requests < MaxResets
                /\ requests' = requests + 1
                /\ transfers' = [e \in Sources |-> NoTransfer] /\ listening' = TRUE
                /\ frames' = <<>>
                /\ dropped' = dropped + Len(frames)
                /\ UNCHANGED <<ecuVars, holding, sawFull, delivered, noise, shortened>>

\* Mutant: one reassembler for the bus, whatever the source of a frame.
TakeFrameShared ==
  /\ listening /\ frames # <<>>
  /\ frames' = Tail(frames)
  /\ LET e == Head(frames).src
         out == ProcessFrame(transfers[e], Head(frames).frame)
     IN /\ transfers' = [x \in Sources |-> out.transfer]
        /\ allowed' = [allowed EXCEPT ![e] = @ \/ out.fc]
        /\ delivered' = IF out.message = <<>> THEN delivered
                        ELSE [delivered EXCEPT ![e] = Append(@, out.message)]
  /\ UNCHANGED <<current, toSend, holding, sawFull, dropped, noise, requests, shortened,
                 listening>>

\* _collect's recv and _feed: a ProtocolError costs nothing but this frame.
TakeFrame ==
  /\ listening /\ frames # <<>>
  /\ frames' = Tail(frames)
  /\ LET e == Head(frames).src
         out == ProcessFrame(transfers[e], Head(frames).frame)
     IN /\ transfers' = [transfers EXCEPT ![e] = out.transfer]
        /\ allowed' = [allowed EXCEPT ![e] = @ \/ out.fc]
        /\ delivered' = IF out.message = <<>> THEN delivered
                        ELSE [delivered EXCEPT ![e] = Append(@, out.message)]
  /\ UNCHANGED <<current, toSend, holding, sawFull, dropped, noise, requests, shortened,
                 listening>>

\* The flow control cannot be sent: the error ends the call, and whatever the
\* reassembler has by then is reset by the next one.
FlowControlRefused ==
  /\ listening /\ frames # <<>>
  /\ ProcessFrame(transfers[Head(frames).src], Head(frames).frame).fc
  /\ listening' = FALSE
  /\ frames' = Tail(frames)
  /\ transfers' = [e \in Sources |-> NoTransfer]
  /\ dropped' = dropped + 1
  /\ UNCHANGED <<ecuVars, holding, sawFull, delivered, noise, requests, shortened>>

FramesNext == \/ \E e \in Sources : StartMessage(e) \/ SendFrame(e) \/ EcuGivesUp(e) \/ Noise(e)
              \/ FeedPut \/ FeedFull \/ FeedDropOldest \/ BeginRequest \/ TakeFrame
              \/ FlowControlRefused

FramesSpec == FramesInit /\ [][FramesNext]_frameVars
-----------------------------------------------------------------------------
FramesTypeOK == /\ current \in [Sources -> Nat]
                /\ allowed \in [Sources -> BOOLEAN]
                /\ Len(frames) <= QueueSize
                /\ \A e \in Sources : transfers[e].sn \in 0..(SnMod - 1)

\* Whatever the queue drops, wherever a request resets, and however frames
\* of several ECUs and malformed ones interleave, a message handed to the
\* session is one its ECU sent, each at most once and in order.  Only a
\* consecutive frame that lost bytes corrupts a message: the reassembler
\* takes what is there.
Authentic ==
  \A e \in Sources :
    /\ \A i \in DOMAIN delivered[e] :
         LET k == delivered[e][i][1][2]
         IN delivered[e][i] = Message(e, k) \/ <<e, k>> \in shortened
    /\ \A i, j \in DOMAIN delivered[e] :
         i < j => delivered[e][i][1][2] < delivered[e][j][1][2]

\* expected_total_len - buffer.len() is computed in usize on every
\* consecutive frame: a transfer in progress always has bytes outstanding.
NoUnderflow ==
  \A e \in Sources : transfers[e] # NoTransfer => Remaining(transfers[e]) > 0

\* Nothing dropped or refused, nothing missing: when the bus is quiet and the queue is
\* empty, every message was handed over.  Malformed frames cost nothing.
Lossless ==
  \A e \in Sources :
    toSend[e] = <<>> /\ frames = <<>> /\ holding = NoFrame /\ dropped = 0 /\ requests = 0
      /\ shortened = {}
      => Len(delivered[e]) = current[e]

\* The way of a message through the queue and the reassembler (native.py,
\* isotp_manager.rs): nothing is invented, subtracted below zero, or lost.
FramesKeepTheirMessage == Authentic /\ NoUnderflow /\ Lossless
=============================================================================
