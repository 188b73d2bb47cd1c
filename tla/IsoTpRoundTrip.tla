--------------------------- MODULE IsoTpRoundTrip ---------------------------
(***************************************************************************)
(* segment() against the reassembler, with the sizes of the code: one      *)
(* message of any of the given lengths, its frames fed in order.           *)
(***************************************************************************)
EXTENDS IsoTp

CONSTANT Lengths       \* message lengths tried

VARIABLES msg, fed, transfer, message, flowControls
vars == <<msg, fed, transfer, message, flowControls>>

Init == /\ msg \in {[i \in 1..n |-> <<i>>] : n \in Lengths}
        /\ fed = 0 /\ transfer = NoTransfer /\ message = <<>> /\ flowControls = 0

Feed == /\ fed < Len(Segment(msg))
        /\ LET out == ProcessFrame(transfer, Segment(msg)[fed + 1])
           IN /\ transfer' = out.transfer
              /\ message' = out.message
              /\ flowControls' = flowControls + (IF out.fc THEN 1 ELSE 0)
              /\ ~out.error
        /\ fed' = fed + 1
        /\ UNCHANGED msg

Next == Feed
Spec == Init /\ [][Next]_vars /\ WF_vars(Next)
-----------------------------------------------------------------------------
\* The message comes out whole with its last frame and not a frame before;
\* flow control is asked for exactly when there is more than one frame.
WholeWithLastFrame ==
  /\ message # <<>> <=> fed = Len(Segment(msg))
  /\ message # <<>> => message = msg /\ transfer = NoTransfer
  /\ fed > 0 => (flowControls = 1 <=> Len(Segment(msg)) > 1)

\* Every frame is accepted: the sender's numbering and the receiver's agree
\* through every wrap.
EveryMessageArrives == <>(message = msg)
=============================================================================
