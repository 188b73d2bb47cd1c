-------------------------------- MODULE IsoTp --------------------------------
(***************************************************************************)
(* ISO 15765-2 as the studio speaks it: segmentation (diag/isotp.py and    *)
(* isotp.rs carry the same format) and the receiving side, one             *)
(* IsoTpReassembler per source inside isotp_manager.rs.  A byte is told    *)
(* apart from every other byte and nothing more.                           *)
(***************************************************************************)
EXTENDS Naturals, Sequences

CONSTANTS SingleMax,   \* data bytes of a single frame: 7
          FirstChunk,  \* data bytes of a first frame: 6
          NextChunk,   \* data bytes of a consecutive frame: 7
          SnMod,       \* sequence numbers wrap at 16
          MaxLen       \* longest message a first frame announces: 4095

ASSUME SizesAssumption ==
  /\ SingleMax \in Nat \ {0} /\ FirstChunk \in Nat \ {0} /\ NextChunk \in Nat \ {0}
  /\ SnMod \in Nat \ {0, 1}
  /\ MaxLen \in Nat /\ MaxLen > SingleMax /\ FirstChunk < SingleMax + 1

Pad == <<"pad">>

Least(a, b) == IF a <= b THEN a ELSE b

Frame(pci, n, data) == [pci |-> pci, n |-> n, data |-> data]

Padded(bytes, size) == [i \in 1..size |-> IF i <= Len(bytes) THEN bytes[i] ELSE Pad]

\* Consecutive frames it takes to carry what a first frame leaves over.
Following(len) == (len - FirstChunk + NextChunk - 1) \div NextChunk

\* The i-th consecutive frame of a message.
Consecutive(msg, i) ==
  LET from == FirstChunk + (i - 1) * NextChunk
  IN Frame("CF", i % SnMod,
           Padded(SubSeq(msg, from + 1, Least(from + NextChunk, Len(msg))), NextChunk))

Segment(msg) ==
  IF Len(msg) <= SingleMax
  THEN <<Frame("SF", Len(msg), Padded(msg, SingleMax))>>
  ELSE <<Frame("FF", Len(msg), SubSeq(msg, 1, FirstChunk))>>
       \o [i \in 1..Following(Len(msg)) |-> Consecutive(msg, i)]

-----------------------------------------------------------------------------
(* Receiving.  A transfer is a message being reassembled; the manager keeps *)
(* at most one per source.                                                  *)

NoTransfer == [total |-> 0, buffer |-> <<>>, sn |-> 0]
\* Mutant: consecutive frames are expected from zero.
StartedAtZero(f) == [total |-> f.n, buffer |-> f.data, sn |-> 0]

Started(f) == [total |-> f.n, buffer |-> f.data, sn |-> 1]

\* What one frame makes of the transfer of its source: the transfer after
\* it, the message it completed (<<>> for none), whether flow control is due
\* and whether a ProtocolError is raised.
Outcome(tr, message, fc, error) ==
  [transfer |-> tr, message |-> message, fc |-> fc, error |-> error]

OnSingle(tr, f) ==
  IF f.n = 0 \/ f.n > SingleMax \/ f.n > Len(f.data)
  THEN Outcome(tr, <<>>, FALSE, TRUE)
  ELSE Outcome(tr, SubSeq(f.data, 1, f.n), FALSE, FALSE)

OnFirst(tr, f) ==
  IF Len(f.data) < FirstChunk \/ f.n <= SingleMax \/ f.n > MaxLen
  THEN Outcome(tr, <<>>, FALSE, TRUE)
  ELSE Outcome(Started(f), <<>>, TRUE, FALSE)

NextSn(n) == (n + 1) % SnMod

\* In usize: it must never go below zero.
Remaining(tr) == tr.total - Len(tr.buffer)

OnConsecutive(tr, f) ==
  LET taken == SubSeq(f.data, 1, Least(Remaining(tr), Len(f.data)))
      grown == [tr EXCEPT !.buffer = @ \o taken, !.sn = NextSn(@)]
  IN CASE tr = NoTransfer -> Outcome(tr, <<>>, FALSE, FALSE)
       [] tr # NoTransfer /\ f.n # tr.sn -> Outcome(NoTransfer, <<>>, FALSE, TRUE)
       [] tr # NoTransfer /\ f.n = tr.sn ->
            IF Len(grown.buffer) >= tr.total
            THEN Outcome(NoTransfer, grown.buffer, FALSE, FALSE)
            ELSE Outcome(grown, <<>>, FALSE, FALSE)

ProcessFrame(tr, f) ==
  CASE f.pci = "SF" -> OnSingle(tr, f)
    [] f.pci = "FF" -> OnFirst(tr, f)
    [] f.pci = "CF" -> OnConsecutive(tr, f)
    [] OTHER -> Outcome(tr, <<>>, FALSE, FALSE)
=============================================================================
