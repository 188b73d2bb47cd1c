------------------------------ MODULE MC_Native ------------------------------
(* The layers of a session on ISO-TP, which the modules treat apart; a        *)
(* behaviour exercises one of them.                                           *)
(* "round trip": segment() against the reassembler with the code's sizes, at  *)
(* the boundaries: 7/8 bytes, full and padded last frames, two wraps of the   *)
(* sequence number (111..125, 230..240).                                      *)
(* "frames": two ECUs; chunks scaled down (2 bytes, numbers wrap at 3) so     *)
(* that a message of eight bytes wraps, pads its last frame and overruns the  *)
(* queue.                                                                     *)
(* "collect": two ECUs, two requests of one or three frames, windows of 2 and *)
(* 1 ticks, two extensions.                                                   *)
(* "printed": the lines an ELM327 prints for two requests, two lines          *)
(* spoilt, with the same messages and chunks as "frames".                     *)
EXTENDS NativeFrames, NativeCollect, TLC

CONSTANTS a, b

Messages == [e \in {a, b} |-> IF e = a THEN <<8, 2>> ELSE <<4>>]

VARIABLES part,
          msg, fed, transfer, message, flowControls,
          extended, asked, told, lost, printed, transferOf, outcome, spoilt, chatter

tripVars == <<msg, fed, transfer, message, flowControls>>
replyVars == <<extended, asked, told, lost, printed, transferOf, outcome, spoilt, chatter>>
allVars == <<part, tripVars, frameVars, replyVars, collectVars>>

Trip == INSTANCE IsoTpRoundTrip WITH
          SingleMax <- 7, FirstChunk <- 6, NextChunk <- 7, SnMod <- 16, MaxLen <- 4095,
          Lengths <- (1..24) \cup (111..125) \cup (230..240)
Printed == INSTANCE ElmReplies WITH
            Ecus <- {a, b}, Lengths <- [e \in {a, b} |-> IF e = a THEN 4 ELSE 2],
            MaxRequests <- 2, MaxSpoilt <- 2, MaxNoise <- 1,
            request <- asked, transfers <- transferOf, noise <- chatter

NativeInit ==
  /\ part \in {"round trip", "frames", "printed", "collect"}
  /\ IF part = "round trip" THEN Trip!Init
     ELSE msg = <<>> /\ fed = 0 /\ transfer = <<>> /\ message = <<>> /\ flowControls = 0
  /\ FramesInit /\ CollectInit
  /\ Printed!Init /\ (part = "printed" \/ ~ extended)

TripStep == /\ part = "round trip" /\ Trip!Next
            /\ UNCHANGED <<part, frameVars, replyVars, collectVars>>
FrameStep == part = "frames" /\ FramesNext /\ UNCHANGED <<part, tripVars, replyVars, collectVars>>
CollectStep == part = "collect" /\ CollectNext /\ UNCHANGED <<part, tripVars, frameVars, replyVars>>
ReplyStep == /\ part = "printed" /\ Printed!Next
             /\ UNCHANGED <<part, tripVars, frameVars, collectVars>>
NativeNext == TripStep \/ FrameStep \/ CollectStep \/ ReplyStep

\* The fairness of the modules; a call of the session goes on and time passes.
NativeSpec == /\ NativeInit /\ [][NativeNext]_allVars
              /\ WF_allVars(TripStep)
-----------------------------------------------------------------------------
\* The properties of the modules that are instances here, under their names there.
EveryMessageArrives == part = "round trip" ~> message = msg
RepliesAsPrinted == Printed!RepliesAsPrinted
=============================================================================
