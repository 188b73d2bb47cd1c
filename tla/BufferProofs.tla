----------------------------- MODULE BufferProofs -----------------------------
(***************************************************************************)
(* The two bounded buffers frames go through, for any constants.  The      *)
(* queue of a native session, with the reassembler behind it: whatever it  *)
(* drops, the messages handed over are those the ECUs sent.  The trace     *)
(* buffer, for any number of callers, any capacity and any number of       *)
(* frames: its layout invariant is inductive, and from it every call is    *)
(* one atomic step of the abstract log.                                    *)
(***************************************************************************)
EXTENDS NativeFrames, TraceRing, SequenceTheorems, TLAPS

-----------------------------------------------------------------------------
(* The frames of a native session. *)

\* A byte on the bus is one of a message or padding.
Datum == (Sources \X Nat \X Nat) \cup {Pad}
BusFrame == [pci : {"SF", "FF", "CF", "FC", "other"}, n : Nat, data : Seq(Datum)]
Item == [src : Sources, frame : BusFrame]
Transfer == [total : Nat, buffer : Seq(Datum), sn : Nat]

\* The frames of message k of e: the one it opens with, and, when they are several, the
\* i-th consecutive one, which carries the bytes from Start(i) on.
Long(e, k) == Script[e][k] > SingleMax
Start(i) == FirstChunk + (i - 1) * NextChunk + 1
FramesOf(e, k) == Segment(Message(e, k))
Opens(e, k, f) == f = FramesOf(e, k)[1]
Follows(e, k, i, f) ==
  /\ Long(e, k) /\ i \in 1..Following(Script[e][k])
  /\ LET whole == FramesOf(e, k)[i + 1]
     IN f = whole \/ (<<e, k>> \in shortened /\ f = Short(whole))
Genuine(e, f) == \E k \in 1..current[e] : Opens(e, k, f) \/ \E i \in Nat : Follows(e, k, i, f)

\* Where its first byte belongs: the message and the place in it.
Msg(f) == f.data[1][2]
Place(f) == f.data[1][3]
Before(f, g) == Msg(f) < Msg(g) \/ (Msg(f) = Msg(g) /\ Place(f) < Place(g))

\* The frames on their way to the session, in their order: the queue, and behind it the
\* one the capture loop is feeding.
Way == IF holding = NoFrame THEN frames ELSE Append(frames, holding)
From(e) == {p \in 1..Len(Way) : Way[p].src = e /\ Way[p].frame \notin Malformed}
Sent(e) == {Way[p].frame : p \in From(e)}
Unsent(e) == {toSend[e][j] : j \in 1..Len(toSend[e])}
ToCome(e) == Sent(e) \cup Unsent(e)

\* What an ECU has still to send is the rest of its current message, and nobody has
\* answered a first frame it has not sent.
EcuInv(e) ==
  /\ current[e] <= Len(Script[e])
  /\ toSend[e] # <<>> =>
       LET all == FramesOf(e, current[e])
           n == Len(toSend[e])
       IN /\ current[e] > 0 /\ n <= Len(all)
          /\ \A j \in 1..n : toSend[e][j] = all[Len(all) - n + j]
          /\ n = Len(all) => ~ allowed[e]

\* What is on its way was sent in its order, before what is not sent yet.  While the
\* first frame of a message is under way its ECU waits for leave, and a consecutive frame
\* of the current message went out on leave.
WayInv(e) ==
  /\ \A f \in Sent(e) : Genuine(e, f)
  /\ \A p, q \in From(e) : p < q => Before(Way[p].frame, Way[q].frame)
  /\ \A f \in Sent(e), g \in Unsent(e) : Before(f, g)
  /\ \A f \in Sent(e) : f.pci = "FF" => /\ Msg(f) = current[e] /\ ~ allowed[e]
                                        /\ toSend[e] # <<>> /\ Head(toSend[e]).pci = "CF"
  /\ \A f \in Sent(e) : f.pci = "CF" /\ Msg(f) = current[e] => allowed[e]

\* A transfer in progress is of one message, which the consecutive frames to come belong
\* to.  Unless a frame was short, it holds the beginning of the message; or a frame was
\* lost, and the ones to come are too few to complete it.
Coming(e) == {f \in Sent(e) : f.pci = "CF"} \cup (IF allowed[e] THEN Unsent(e) ELSE {})
Size(e) == Len(transfers[e].buffer)
Whole(e, k, i) ==
  /\ Size(e) = Start(i) - 1
  /\ \/ \A m \in 1..Size(e) : transfers[e].buffer[m] = <<e, k, m>>
     \/ \A f \in Coming(e) : Place(f) >= Start(i + 1)
IsTransferOf(e, k) ==
  /\ Long(e, k) /\ transfers[e].total = Script[e][k]
  /\ Size(e) \in FirstChunk..(Script[e][k] - 1) /\ transfers[e].buffer[1] = <<e, k, 1>>
  /\ k = current[e] => allowed[e]
  /\ \A f \in Coming(e) : Msg(f) = k /\ Place(f) > Size(e)
  /\ <<e, k>> \in shortened \/ \E i \in Nat \ {0} : Whole(e, k, i)
TransferInv(e) == transfers[e] # NoTransfer => \E k \in 1..current[e] : IsTransferOf(e, k)

\* What has been delivered was sent, and comes before what is still to come.
Number(e, i) == delivered[e][i][1][2]
DeliveredInv(e) ==
  /\ \A i \in 1..Len(delivered[e]) :
       /\ Number(e, i) \in 1..current[e]
       /\ delivered[e][i] = Message(e, Number(e, i)) \/ <<e, Number(e, i)>> \in shortened
       /\ \A f \in ToCome(e) : Number(e, i) < Msg(f)
  /\ \A i, j \in 1..Len(delivered[e]) : i < j => Number(e, i) < Number(e, j)

\* When nothing was lost, what is still to come goes on from what has come: with the
\* next frame of the transfer, or the first of the next message.
NextPlace(f) == IF Place(f) = 1 THEN Start(1) ELSE Place(f) + NextChunk
Awaited(e, k, place) == \E f \in ToCome(e) : Msg(f) = k /\ Place(f) = place
GoesOn(e, f) ==
  IF Long(e, Msg(f)) /\ NextPlace(f) <= Script[e][Msg(f)]
  THEN Awaited(e, Msg(f), NextPlace(f))
  ELSE Msg(f) < current[e] => Awaited(e, Msg(f) + 1, 1)
Due(e) == Len(delivered[e]) + 1
NothingLost == dropped = 0 /\ requests = 0 /\ shortened = {}
LosslessInv(e) ==
  /\ \A i \in 1..Len(delivered[e]) : Number(e, i) = i
  /\ \A f \in ToCome(e) : GoesOn(e, f)
  /\ IF transfers[e] = NoTransfer
     THEN Due(e) <= current[e] => Awaited(e, Due(e), 1)
     ELSE /\ transfers[e].buffer[1][2] = Due(e)
          /\ Awaited(e, Due(e), Size(e) + 1)
          /\ \E i \in Nat \ {0} : Size(e) = Start(i) - 1 /\ transfers[e].sn = i % SnMod

\* The induction hypothesis.
CountsInv == dropped \in Nat /\ requests \in Nat
WayTypes == /\ frames \in Seq(Item) /\ holding \in Item \cup {NoFrame}
            /\ sawFull => holding # NoFrame
TablesInv ==
  /\ current \in [Sources -> Nat] /\ toSend \in [Sources -> Seq(BusFrame)]
  /\ allowed \in [Sources -> BOOLEAN] /\ transfers \in [Sources -> Transfer]
  /\ delivered \in [Sources -> Seq(Seq(Datum))]
EcuHolds(e) == EcuInv(e) /\ WayInv(e) /\ TransferInv(e) /\ DeliveredInv(e)
FramesInv ==
  /\ CountsInv /\ WayTypes /\ TablesInv
  /\ \A e \in Sources : EcuHolds(e) /\ (NothingLost => LosslessInv(e))

\* The sizes are numbers, and the lengths of the messages too.
LEMMA FrameSizes ==
  /\ SingleMax \in Nat \ {0} /\ FirstChunk \in Nat \ {0} /\ NextChunk \in Nat \ {0, 1}
  /\ SnMod \in Nat \ {0, 1} /\ MaxLen \in Nat /\ SingleMax < MaxLen /\ FirstChunk <= SingleMax
  /\ \A e \in Sources : Script[e] \in Seq(1..MaxLen) /\ Len(Script[e]) \in Nat
  /\ \A e \in Sources : \A k \in 1..Len(Script[e]) : Script[e][k] \in 1..MaxLen
BY SizesAssumption, ScriptAssumption

\* The consecutive frames of a message start one chunk apart.
LEMMA StartsApart ==
  ASSUME NEW i \in Nat \ {0}
  PROVE  /\ Start(i) \in Nat /\ Start(i) > FirstChunk /\ Start(i + 1) = Start(i) + NextChunk
         /\ \A j \in Nat \ {0} : i < j => Start(i) + NextChunk <= Start(j)
<1>1. /\ (i - 1) * NextChunk \in Nat
      /\ i * NextChunk = (i - 1) * NextChunk + NextChunk
  BY FrameSizes
<1>2. ASSUME NEW j \in Nat \ {0}, i < j PROVE Start(i) + NextChunk <= Start(j)
  <2>1. PICK d \in Nat : j - 1 = i + d
    <3>1. j - 1 - i \in Nat /\ j - 1 = i + (j - 1 - i)
      BY <1>2
    <3> QED BY <3>1
  <2>2. (j - 1) * NextChunk = i * NextChunk + d * NextChunk /\ d * NextChunk \in Nat
    BY <2>1, FrameSizes
  <2> QED BY <1>1, <2>2, FrameSizes DEF Start
<1>3. Start(i + 1) = Start(i) + NextChunk
  <2>1. i + 1 - 1 = i
    OBVIOUS
  <2> QED BY <1>1, <2>1, FrameSizes DEF Start
<1> QED BY <1>1, <1>2, <1>3, FrameSizes DEF Start

\* There are as many of them as start inside the message.
LEMMA FollowingStart ==
  ASSUME NEW len \in Nat, len > FirstChunk
  PROVE  /\ Following(len) \in Nat
         /\ \A i \in Nat \ {0} : i <= Following(len) <=> Start(i) <= len
<1> DEFINE x == len - FirstChunk + NextChunk - 1
           q == x \div NextChunk
<1>1. x \in Nat /\ NextChunk \in Nat \ {0}
  BY FrameSizes
<1>2. q \in Nat /\ NextChunk * q <= x /\ x < NextChunk * (q + 1)
  BY <1>1, Z3
<1>3. ASSUME NEW i \in Nat \ {0}, i <= q PROVE Start(i) <= len
  <2>1. PICK d \in Nat : q = i + d
    <3>1. q - i \in Nat /\ q = i + (q - i)
      BY <1>2, <1>3
    <3> QED BY <3>1
  <2>2. /\ NextChunk * q = i * NextChunk + d * NextChunk /\ d * NextChunk \in Nat
        /\ i * NextChunk = (i - 1) * NextChunk + NextChunk /\ (i - 1) * NextChunk \in Nat
    BY <2>1, <1>1
  <2> QED BY <1>2, <2>2, FrameSizes DEF Start
<1>4. ASSUME NEW i \in Nat \ {0}, i > q PROVE Start(i) > len
  <2>1. PICK d \in Nat : i = q + 1 + d
    <3>1. i - (q + 1) \in Nat /\ i = q + 1 + (i - (q + 1))
      BY <1>2, <1>4
    <3> QED BY <3>1
  <2>2. /\ i * NextChunk = NextChunk * (q + 1) + d * NextChunk /\ d * NextChunk \in Nat
        /\ i * NextChunk = (i - 1) * NextChunk + NextChunk /\ (i - 1) * NextChunk \in Nat
    BY <1>1, <1>2, <2>1
  <2> QED BY <1>2, <2>2, FrameSizes DEF Start
<1>5. Following(len) = q
  BY DEF Following
<1>6. \A i \in Nat \ {0} : Start(i) \in Nat
  BY StartsApart
<1> HIDE DEF q, x
<1> QED BY <1>2, <1>3, <1>4, <1>5, <1>6

\* A message byte by byte.
LEMMA MessageIs ==
  ASSUME NEW e \in Sources, NEW k \in 1..Len(Script[e])
  PROVE  /\ Message(e, k) \in Seq(Datum) /\ Len(Message(e, k)) = Script[e][k]
         /\ Script[e][k] \in 1..MaxLen
         /\ \A m \in 1..Script[e][k] : Message(e, k)[m] = <<e, k, m>>
<1>1. Script[e][k] \in 1..MaxLen /\ Len(Script[e]) \in Nat
  BY FrameSizes
<1>2. \A m \in 1..Script[e][k] : <<e, k, m>> \in Datum
  BY <1>1, FrameSizes DEF Datum
<1>3. Message(e, k) \in [1..Script[e][k] -> Datum]
  BY <1>2 DEF Message
<1>4. \A m \in 1..Script[e][k] : Message(e, k)[m] = <<e, k, m>>
  BY DEF Message
<1>5. Script[e][k] \in Nat
  BY <1>1, FrameSizes
<1> HIDE DEF Message
<1>6. Message(e, k) \in Seq(Datum) /\ Len(Message(e, k)) = Script[e][k]
  BY <1>3, <1>5
<1> QED BY <1>1, <1>4, <1>6

\* The frames of a message.
LEMMA SegmentIs ==
  ASSUME NEW e \in Sources, NEW k \in 1..Len(Script[e])
  PROVE  LET all == FramesOf(e, k)
             len == Script[e][k]
         IN /\ \E S : all \in Seq(S)
            /\ ~ Long(e, k) =>
                 Len(all) = 1 /\ all[1] = Frame("SF", len, Padded(Message(e, k), SingleMax))
            /\ Long(e, k) =>
                 /\ Following(len) \in Nat /\ Len(all) = 1 + Following(len)
                 /\ all[1] = Frame("FF", len, SubSeq(Message(e, k), 1, FirstChunk))
                 /\ \A i \in 1..Following(len) : all[i + 1] = Consecutive(Message(e, k), i)
<1> DEFINE len == Script[e][k]
           rest == [i \in 1..Following(Len(Message(e, k))) |-> Consecutive(Message(e, k), i)]
           first == Frame("FF", Len(Message(e, k)), SubSeq(Message(e, k), 1, FirstChunk))
<1>1. len \in 1..MaxLen /\ Len(Message(e, k)) = len
  BY MessageIs
<1>2. CASE ~ Long(e, k)
  <2>1. FramesOf(e, k) = <<Frame("SF", len, Padded(Message(e, k), SingleMax))>>
    BY <1>1, <1>2, FrameSizes DEF Segment, Long, FramesOf
  <2>2. \E S : FramesOf(e, k) \in Seq(S)
    <3>1. PICK f : FramesOf(e, k) = <<f>>
      BY <2>1
    <3>2. <<f>> \in Seq({f})
      OBVIOUS
    <3> QED BY <3>1, <3>2
  <2> QED BY <1>2, <2>1, <2>2
<1>3. CASE Long(e, k)
  <2>1. FramesOf(e, k) = <<first>> \o rest
    <3>1. ~ (Len(Message(e, k)) <= SingleMax)
      BY <1>1, <1>3, FrameSizes DEF Long
    <3> QED BY <3>1, Zenon DEF Segment, FramesOf
  <2>2. Following(len) \in Nat
    BY <1>1, <1>3, FrameSizes, FollowingStart DEF Long
  <2>3. \A i \in 1..Following(len) : rest[i] = Consecutive(Message(e, k), i)
    BY <1>1
  <2>4. PICK S : /\ first \in S
                 /\ \A i \in 1..Following(len) : Consecutive(Message(e, k), i) \in S
    <3>1. /\ first \in {first} \cup {Consecutive(Message(e, k), i) : i \in 1..Following(len)}
          /\ \A i \in 1..Following(len) : Consecutive(Message(e, k), i) \in
               {first} \cup {Consecutive(Message(e, k), j) : j \in 1..Following(len)}
      OBVIOUS
    <3> QED BY <3>1
  <2>5. rest \in Seq(S) /\ Len(rest) = Following(len) /\ <<first>> \in Seq(S)
    <3>1. rest \in [1..Following(len) -> S]
      BY <1>1, <2>4
    <3> HIDE DEF rest, first
    <3>2. rest \in Seq(S) /\ Len(rest) = Following(len)
      BY <2>2, <3>1
    <3> QED BY <2>4, <3>2 DEF first
  <2> HIDE DEF rest, first
  <2>6. /\ Len(<<first>> \o rest) = 1 + Following(len) /\ (<<first>> \o rest)[1] = first
        /\ \A i \in 1..Following(len) : (<<first>> \o rest)[i + 1] = rest[i]
        /\ <<first>> \o rest \in Seq(S)
    BY <2>2, <2>5
  <2> QED BY <1>1, <1>3, <2>1, <2>2, <2>3, <2>6 DEF first
<1> QED BY <1>2, <1>3

\* Padding.
LEMMA PaddedIs ==
  ASSUME NEW s \in Seq(Datum), NEW size \in Nat
  PROVE  /\ Padded(s, size) \in Seq(Datum) /\ Len(Padded(s, size)) = size
         /\ \A m \in 1..size : Padded(s, size)[m] = IF m <= Len(s) THEN s[m] ELSE Pad
<1>1. Pad \in Datum
  BY DEF Datum
<1>2. \A m \in 1..size : Padded(s, size)[m] = IF m <= Len(s) THEN s[m] ELSE Pad
  BY DEF Padded
<1>3. \A m \in 1..size : Padded(s, size)[m] \in Datum
  <2> HIDE DEF Datum
  <2> QED BY <1>1, <1>2
<1>4. Padded(s, size) = [m \in 1..size |-> Padded(s, size)[m]]
  BY DEF Padded
<1> HIDE DEF Padded, Datum
<1>5. Padded(s, size) \in [1..size -> Datum]
  BY <1>3, <1>4
<1>6. Padded(s, size) \in Seq(Datum) /\ Len(Padded(s, size)) = size
  BY <1>5
<1> QED BY <1>2, <1>6

\* The frame a message opens with.
LEMMA OpeningIs ==
  ASSUME NEW e \in Sources, NEW k \in 1..Len(Script[e]), NEW f, Opens(e, k, f)
  PROVE  /\ f \in BusFrame /\ f.n = Script[e][k] /\ Msg(f) = k /\ Place(f) = 1
         /\ ~ Long(e, k) => /\ f.pci = "SF" /\ f.n \in 1..SingleMax
                            /\ Len(f.data) = SingleMax /\ SubSeq(f.data, 1, f.n) = Message(e, k)
         /\ Long(e, k) => /\ f.pci = "FF" /\ f.n > SingleMax /\ f.n <= MaxLen
                          /\ Len(f.data) = FirstChunk
                          /\ \A m \in 1..FirstChunk : f.data[m] = <<e, k, m>>
<1> DEFINE len == Script[e][k]
<1>1. /\ Message(e, k) \in Seq(Datum) /\ Len(Message(e, k)) = len /\ len \in 1..MaxLen
      /\ \A m \in 1..len : Message(e, k)[m] = <<e, k, m>>
  BY MessageIs
<1>2. len \in Nat \ {0} /\ MaxLen \in Nat /\ len <= MaxLen /\ SingleMax \in Nat \ {0}
      /\ FirstChunk \in Nat \ {0} /\ FirstChunk <= SingleMax
  BY <1>1, FrameSizes
<1>3. CASE ~ Long(e, k)
  <2>1. f = Frame("SF", len, Padded(Message(e, k), SingleMax))
    BY <1>3, SegmentIs DEF Opens
  <2> DEFINE d == Padded(Message(e, k), SingleMax)
  <2>2. /\ d \in Seq(Datum) /\ Len(d) = SingleMax
        /\ \A m \in 1..SingleMax : d[m] = IF m <= len THEN Message(e, k)[m] ELSE Pad
    BY <1>1, <1>2, PaddedIs
  <2> HIDE DEF d
  <2>3. f.pci = "SF" /\ f.n = len /\ f.data = d /\ f \in BusFrame
    BY <1>2, <2>1, <2>2 DEF Frame, BusFrame, d
  <2>4. len <= SingleMax
    BY <1>2, <1>3 DEF Long
  <2>5. d[1] = <<e, k, 1>>
    BY <1>1, <1>2, <2>2, <2>4
  <2>6. SubSeq(d, 1, len) = Message(e, k)
    <3> HIDE DEF len
    <3>1. /\ SubSeq(d, 1, len) \in Seq(Datum) /\ Len(SubSeq(d, 1, len)) = len
          /\ \A m \in 1..len : SubSeq(d, 1, len)[m] = d[m]
      <4> HIDE DEF Datum
      <4> QED BY <1>2, <2>2, <2>4
    <3>2. \A m \in 1..len : SubSeq(d, 1, len)[m] = Message(e, k)[m]
      BY <1>2, <2>2, <2>4, <3>1
    <3> HIDE DEF Message, Datum
    <3> QED BY <1>1, <1>2, <3>1, <3>2
  <2>7. Msg(f) = k /\ Place(f) = 1
    BY <2>3, <2>5 DEF Msg, Place
  <2>8. SubSeq(f.data, 1, f.n) = Message(e, k)
    BY <2>3, <2>6
  <2> QED BY <1>2, <1>3, <2>2, <2>3, <2>4, <2>7, <2>8
<1>4. CASE Long(e, k)
  <2>1. f = Frame("FF", len, SubSeq(Message(e, k), 1, FirstChunk))
    BY <1>4, SegmentIs DEF Opens
  <2>2. len > SingleMax
    BY <1>4 DEF Long
  <2> DEFINE d == SubSeq(Message(e, k), 1, FirstChunk)
  <2>3. /\ d \in Seq(Datum) /\ Len(d) = FirstChunk
        /\ \A m \in 1..FirstChunk : d[m] = <<e, k, m>>
    <3> HIDE DEF len, Datum, Message
    <3>1. /\ d \in Seq(Datum) /\ Len(d) = FirstChunk
          /\ \A m \in 1..FirstChunk : d[m] = Message(e, k)[m]
      BY <1>1, <1>2, <2>2
    <3> QED BY <1>1, <1>2, <2>2, <3>1
  <2> HIDE DEF d
  <2>4. f.pci = "FF" /\ f.n = len /\ f.data = d /\ f \in BusFrame
    BY <1>2, <2>1, <2>3 DEF Frame, BusFrame, d
  <2>5. d[1] = <<e, k, 1>>
    BY <1>2, <2>3
  <2> QED BY <1>2, <1>4, <2>2, <2>3, <2>4, <2>5 DEF Msg, Place
<1> QED BY <1>3, <1>4

\* A part of a sequence.
LEMMA SubSeqIs ==
  ASSUME NEW S, NEW s \in Seq(S), NEW i \in Nat \ {0}, NEW j \in Nat, i <= j + 1, j <= Len(s)
  PROVE  /\ SubSeq(s, i, j) \in Seq(S) /\ Len(SubSeq(s, i, j)) = j - i + 1
         /\ \A m \in 1..(j - i + 1) : SubSeq(s, i, j)[m] = s[i + m - 1]
OBVIOUS

\* A consecutive frame that arrives whole.
LEMMA ConsecutiveIs ==
  ASSUME NEW e \in Sources, NEW k \in 1..Len(Script[e]), Long(e, k),
         NEW i \in 1..Following(Script[e][k]), NEW f,
         f = FramesOf(e, k)[i + 1]
  PROVE  /\ f \in BusFrame /\ f.pci = "CF" /\ f.n = i % SnMod
         /\ i \in Nat \ {0} /\ Start(i) \in Nat /\ Start(i) <= Script[e][k]
         /\ Len(f.data) = NextChunk
         /\ \A m \in 1..NextChunk : Start(i) + m - 1 <= Script[e][k] =>
              f.data[m] = <<e, k, Start(i) + m - 1>>
<1> DEFINE len == Script[e][k]
<1>1. /\ Message(e, k) \in Seq(Datum) /\ Len(Message(e, k)) = len /\ len \in 1..MaxLen
      /\ \A m \in 1..len : Message(e, k)[m] = <<e, k, m>>
  BY MessageIs
<1>2. /\ len \in Nat \ {0} /\ SingleMax \in Nat \ {0} /\ NextChunk \in Nat \ {0}
      /\ FirstChunk \in Nat \ {0} /\ FirstChunk <= SingleMax /\ len > SingleMax
      /\ SnMod \in Nat \ {0}
  BY <1>1, FrameSizes DEF Long
<1>3. i \in Nat \ {0}
  <2>1. Following(len) \in Nat
    BY <1>2, FollowingStart
  <2> QED BY <2>1
<1>4. Start(i) \in Nat /\ Start(i) > FirstChunk /\ Start(i) <= len
  <2>1. len > FirstChunk /\ len \in Nat /\ Following(len) \in Nat
    BY <1>2, FollowingStart
  <2>2. i <= Following(len)
    BY <1>3, <2>1
  <2> HIDE DEF Start, Following, len
  <2> QED BY <1>3, <2>1, <2>2, StartsApart, FollowingStart
<1> DEFINE last == Least(Start(i) - 1 + NextChunk, len)
           part == SubSeq(Message(e, k), Start(i), last)
<1>5. f = Frame("CF", i % SnMod, Padded(part, NextChunk))
  <2>0. f = Consecutive(Message(e, k), i)
    BY SegmentIs
  <2>1. FirstChunk + (i - 1) * NextChunk + 1 = Start(i)
    BY DEF Start
  <2>2. FirstChunk + (i - 1) * NextChunk = Start(i) - 1
    <3>1. (i - 1) * NextChunk \in Nat
      BY <1>2, <1>3
    <3> QED BY <1>2, <3>1 DEF Start
  <2>3. f = Frame("CF", i % SnMod,
              Padded(SubSeq(Message(e, k), FirstChunk + (i - 1) * NextChunk + 1,
                            Least(FirstChunk + (i - 1) * NextChunk + NextChunk,
                                  Len(Message(e, k)))), NextChunk))
    BY <2>0, Zenon DEF Consecutive
  <2> HIDE DEF Start
  <2> QED BY <1>1, <2>1, <2>2, <2>3
<1>6. last \in Nat /\ last <= len /\ last >= Start(i) /\ last <= Start(i) - 1 + NextChunk
      /\ (last = len \/ last = Start(i) - 1 + NextChunk)
  <2> HIDE DEF Start, len
  <2> QED BY <1>2, <1>4 DEF Least
<1>7. /\ part \in Seq(Datum) /\ Len(part) = last - Start(i) + 1
      /\ \A m \in 1..(last - Start(i) + 1) : part[m] = Message(e, k)[Start(i) + m - 1]
  <2> HIDE DEF Start, len, last, Message, Datum
  <2>1. /\ part \in Seq(Datum) /\ Len(part) = last - Start(i) + 1
        /\ \A m \in 1..(last - Start(i) + 1) : part[m] = Message(e, k)[Start(i) + m - 1]
    <3>1. Start(i) \in Nat \ {0} /\ last <= Len(Message(e, k))
      BY <1>1, <1>4, <1>6, <1>2
    <3>2. last - Start(i) + 1 \in Nat /\ Start(i) <= last + 1
      BY <1>2, <1>4, <1>6
    <3> HIDE DEF last
    <3>3. /\ SubSeq(Message(e, k), Start(i), last) \in Seq(Datum)
          /\ Len(SubSeq(Message(e, k), Start(i), last)) = last - Start(i) + 1
          /\ \A m \in 1..(last - Start(i) + 1) :
               SubSeq(Message(e, k), Start(i), last)[m] = Message(e, k)[Start(i) + m - 1]
      BY <1>1, <1>6, <3>1, <3>2, SubSeqIs
    <3> QED BY <3>3
  <2> QED BY <2>1
<1> HIDE DEF part
<1> DEFINE d == Padded(part, NextChunk)
<1>8. /\ d \in Seq(Datum) /\ Len(d) = NextChunk
      /\ \A m \in 1..NextChunk : d[m] = IF m <= Len(part) THEN part[m] ELSE Pad
  BY <1>2, <1>7, PaddedIs
<1> HIDE DEF d
<1>9. ASSUME NEW m \in 1..NextChunk, Start(i) + m - 1 <= len
      PROVE  d[m] = <<e, k, Start(i) + m - 1>>
  <2> HIDE DEF Start, len, last, Message, Datum
  <2>1. m <= last - Start(i) + 1 /\ m \in 1..(last - Start(i) + 1)
    BY <1>2, <1>4, <1>6, <1>9
  <2>2. d[m] = Message(e, k)[Start(i) + m - 1]
    BY <1>7, <1>8, <2>1
  <2>3. Start(i) + m - 1 \in 1..len
    BY <1>2, <1>4, <1>9
  <2> QED BY <1>1, <2>2, <2>3
<1>10. f.pci = "CF" /\ f.n = i % SnMod /\ f.data = d
  BY <1>5 DEF Frame, d
<1>11. f \in BusFrame
  <2>1. i % SnMod \in Nat
    BY <1>2, <1>3
  <2> HIDE DEF Datum
  <2> QED BY <1>5, <1>8, <2>1 DEF Frame, BusFrame, d
<1> QED BY <1>3, <1>4, <1>8, <1>9, <1>10, <1>11

\* The same frame, whole or short.
LEMMA PartIs ==
  ASSUME NEW e \in Sources, NEW k \in 1..Len(Script[e]), Long(e, k),
         NEW i \in 1..Following(Script[e][k]), NEW whole, whole = FramesOf(e, k)[i + 1],
         NEW f, f = whole \/ f = Short(whole)
  PROVE  /\ f \in BusFrame /\ f.pci = "CF" /\ f.n = i % SnMod /\ Msg(f) = k /\ Place(f) = Start(i)
         /\ i \in Nat \ {0} /\ Start(i) \in Nat /\ Start(i) > FirstChunk
         /\ Start(i) <= Script[e][k] /\ f \notin Malformed
         /\ Len(f.data) \in Nat \ {0} /\ Len(f.data) <= NextChunk
         /\ f = whole => Len(f.data) = NextChunk
         /\ \A m \in 1..Len(f.data) : Start(i) + m - 1 <= Script[e][k] =>
              f.data[m] = <<e, k, Start(i) + m - 1>>
<1>1. /\ whole \in BusFrame /\ whole.pci = "CF" /\ whole.n = i % SnMod
      /\ i \in Nat \ {0} /\ Start(i) \in Nat /\ Start(i) <= Script[e][k]
      /\ Len(whole.data) = NextChunk
      /\ \A m \in 1..NextChunk : Start(i) + m - 1 <= Script[e][k] =>
           whole.data[m] = <<e, k, Start(i) + m - 1>>
  <2>1. \A w : w = FramesOf(e, k)[i + 1] =>
          /\ w \in BusFrame /\ w.pci = "CF" /\ w.n = i % SnMod
          /\ i \in Nat \ {0} /\ Start(i) \in Nat /\ Start(i) <= Script[e][k]
          /\ Len(w.data) = NextChunk
          /\ \A m \in 1..NextChunk : Start(i) + m - 1 <= Script[e][k] =>
               w.data[m] = <<e, k, Start(i) + m - 1>>
    BY ConsecutiveIs
  <2> QED BY <2>1
<1>2. Start(i) > FirstChunk /\ NextChunk \in Nat \ {0, 1}
  BY <1>1, StartsApart, FrameSizes
<1>3. whole.data \in Seq(Datum)
  <2> HIDE DEF Datum
  <2> QED BY <1>1 DEF BusFrame
<1>4. Msg(f) = k /\ Place(f) = Start(i)
  <2>1. f.data[1] = whole.data[1]
    <3>1. CASE f = Short(whole)
      <4>1. f.data = SubSeq(whole.data, 1, NextChunk - 1)
        BY <1>1, <3>1 DEF Short, Front, BusFrame
      <4> HIDE DEF Datum
      <4> QED BY <1>1, <1>2, <1>3, <4>1
    <3> QED BY <3>1
  <2>2. whole.data[1] = <<e, k, Start(i)>>
    <3>1. Start(i) + 1 - 1 = Start(i) /\ 1 \in 1..NextChunk
      BY <1>1, <1>2
    <3> QED BY <1>1, <3>1
  <2> QED BY <2>1, <2>2 DEF Msg, Place
<1>5. f.pci = "CF" => f \notin Malformed
  BY DEF Malformed, Frame
<1>6. CASE f = whole
  <2> QED BY <1>1, <1>2, <1>4, <1>6, <1>5
<1>7. CASE f = Short(whole)
  <2>1. f = [whole EXCEPT !.data = SubSeq(whole.data, 1, NextChunk - 1)]
    BY <1>1, <1>7 DEF Short, Front
  <2> DEFINE d == SubSeq(whole.data, 1, NextChunk - 1)
  <2>2. /\ d \in Seq(Datum) /\ Len(d) = NextChunk - 1
        /\ \A m \in 1..(NextChunk - 1) : d[m] = whole.data[m]
    <3> HIDE DEF Datum
    <3> QED BY <1>1, <1>2, <1>3
  <2> HIDE DEF d
  <2>3. f.data = d /\ f.pci = "CF" /\ f.n = i % SnMod /\ f \in BusFrame
    <3> HIDE DEF Datum
    <3>1. f = [whole EXCEPT !.data = d]
      BY <2>1 DEF d
    <3> QED BY <1>1, <2>2, <3>1 DEF BusFrame
  <2>4. \A m \in 1..(NextChunk - 1) : m \in 1..NextChunk
    BY <1>2
  <2>5. NextChunk - 1 \in Nat \ {0} /\ NextChunk - 1 <= NextChunk
    BY <1>2
  <2> QED BY <1>1, <1>2, <1>4, <1>7, <1>5, <2>2, <2>3, <2>4, <2>5
<1> QED BY <1>6, <1>7

\* A consecutive frame as it arrives.
LEMMA FollowIs ==
  ASSUME NEW e \in Sources, NEW k \in 1..Len(Script[e]), NEW i \in Nat, NEW f,
         Follows(e, k, i, f)
  PROVE  /\ f \in BusFrame /\ f.pci = "CF" /\ f.n = i % SnMod /\ Msg(f) = k /\ Place(f) = Start(i)
         /\ i \in Nat \ {0} /\ Start(i) \in Nat /\ Start(i) > FirstChunk
         /\ Start(i) <= Script[e][k] /\ Long(e, k)
         /\ Len(f.data) \in Nat \ {0} /\ Len(f.data) <= NextChunk
         /\ <<e, k>> \notin shortened => Len(f.data) = NextChunk
         /\ \A m \in 1..Len(f.data) : Start(i) + m - 1 <= Script[e][k] =>
              f.data[m] = <<e, k, Start(i) + m - 1>>
<1>1. Long(e, k) /\ i \in 1..Following(Script[e][k])
  BY DEF Follows
<1>2. PICK whole : /\ whole = FramesOf(e, k)[i + 1]
                   /\ f = whole \/ (<<e, k>> \in shortened /\ f = Short(whole))
  BY DEF Follows
<1> DEFINE Fits(j, w, g) ==
             /\ g \in BusFrame /\ g.pci = "CF" /\ g.n = j % SnMod /\ Msg(g) = k
             /\ Place(g) = Start(j)
             /\ j \in Nat \ {0} /\ Start(j) \in Nat /\ Start(j) > FirstChunk
             /\ Start(j) <= Script[e][k]
             /\ Len(g.data) \in Nat \ {0} /\ Len(g.data) <= NextChunk
             /\ g = w => Len(g.data) = NextChunk
             /\ \A m \in 1..Len(g.data) : Start(j) + m - 1 <= Script[e][k] =>
                  g.data[m] = <<e, k, Start(j) + m - 1>>
<1>3. ASSUME NEW j \in 1..Following(Script[e][k]), NEW w, w = FramesOf(e, k)[j + 1],
             NEW g, g = w \/ g = Short(w)
      PROVE  Fits(j, w, g)
  BY <1>1, <1>3, PartIs, SMTT(60)
<1> HIDE DEF Fits
<1>4. Fits(i, whole, f)
  BY <1>1, <1>2, <1>3
<1>5. <<e, k>> \notin shortened => f = whole
  BY <1>2
<1> QED BY <1>1, <1>4, <1>5 DEF Fits

\* The place in its message where the j-th of its frames begins.
Spot(j) == IF j = 1 THEN 1 ELSE Start(j - 1)

\* Which frames there can be, of the messages an ECU has begun.
Known(e, f) ==
  /\ f \in BusFrame /\ f \notin Malformed
  /\ Msg(f) \in 1..current[e] /\ Place(f) \in 1..Script[e][Msg(f)]
  /\ \/ /\ Place(f) = 1 /\ Opens(e, Msg(f), f)
        /\ f.pci = IF Long(e, Msg(f)) THEN "FF" ELSE "SF"
     \/ /\ Place(f) > FirstChunk /\ Long(e, Msg(f)) /\ f.pci = "CF"
        /\ \E i \in Nat \ {0} : Place(f) = Start(i) /\ Follows(e, Msg(f), i, f)

\* The frames of a message.
LEMMA FramesAre ==
  ASSUME NEW e \in Sources, NEW k \in 1..Len(Script[e]), NEW j \in 1..Len(FramesOf(e, k))
  PROVE  LET f == FramesOf(e, k)[j]
         IN /\ f \in BusFrame /\ Msg(f) = k /\ Place(f) = Spot(j) /\ Spot(j) \in 1..Script[e][k]
            /\ j = 1 => Opens(e, k, f)
            /\ j # 1 => Follows(e, k, j - 1, f) /\ Long(e, k) /\ j - 1 \in Nat \ {0}
<1> DEFINE all == FramesOf(e, k)
           len == Script[e][k]
<1>1. len \in Nat \ {0} /\ FirstChunk \in Nat \ {0} /\ SingleMax \in Nat /\ FirstChunk <= SingleMax
  BY FrameSizes
<1>2. CASE j = 1
  <2>1. Opens(e, k, all[1])
    BY DEF Opens
  <2> HIDE DEF all
  <2>2. all[1] \in BusFrame /\ Msg(all[1]) = k /\ Place(all[1]) = 1
    BY <2>1, OpeningIs
  <2>3. Spot(1) = 1 /\ 1 \in 1..len
    BY <1>1 DEF Spot
  <2> QED BY <1>2, <2>1, <2>2, <2>3 DEF all
<1>3. CASE j # 1
  <2> HIDE DEF all
  <2>1. Long(e, k) /\ Following(len) \in Nat /\ Len(all) = 1 + Following(len)
    <3>1. /\ ~ Long(e, k) => Len(all) = 1
          /\ Long(e, k) => Following(len) \in Nat /\ Len(all) = 1 + Following(len)
      BY SegmentIs DEF all
    <3>2. PICK n : n = Len(all)
      OBVIOUS
    <3>3. j \in 1..n
      BY <3>2 DEF all
    <3>4. n # 1
      BY <1>3, <3>3
    <3> QED BY <3>1, <3>2, <3>4
  <2>2. PICK i \in 1..Following(len) : j = i + 1 /\ i \in Nat \ {0} /\ i = j - 1
    <3>1. j \in 1..Len(all)
      BY DEF all
    <3>2. j - 1 \in 1..Following(len) /\ j = (j - 1) + 1 /\ j - 1 \in Nat \ {0}
      BY <1>3, <2>1, <3>1
    <3> QED BY <3>2
  <2>3. Follows(e, k, i, all[j])
    BY <2>1, <2>2 DEF Follows, all
  <2> HIDE DEF len
  <2>4. /\ all[j] \in BusFrame /\ Msg(all[j]) = k /\ Place(all[j]) = Start(i)
        /\ Start(i) \in Nat /\ Start(i) > FirstChunk /\ Start(i) <= len
    <3>1. PICK g : g = all[j]
      OBVIOUS
    <3>2. Follows(e, k, i, g) /\ i \in Nat
      BY <2>2, <2>3, <3>1
    <3>3. /\ g \in BusFrame /\ Msg(g) = k /\ Place(g) = Start(i)
          /\ Start(i) \in Nat /\ Start(i) > FirstChunk /\ Start(i) <= len
      BY <3>2, FollowIs DEF len
    <3> QED BY <3>1, <3>3
  <2>5. Spot(j) = Start(i) /\ Start(i) \in 1..len
    BY <1>1, <1>3, <2>2, <2>4 DEF Spot
  <2> QED BY <1>3, <2>1, <2>2, <2>3, <2>4, <2>5 DEF all, len
<1> QED BY <1>2, <1>3

\* They begin further on from frame to frame.
LEMMA SpotsGrow ==
  ASSUME NEW i \in Nat \ {0}, NEW j \in Nat \ {0}, i < j
  PROVE  Spot(i) \in Nat /\ Spot(j) \in Nat /\ Spot(i) < Spot(j) /\ Spot(j) > FirstChunk
<1>1. j - 1 \in Nat \ {0} /\ j # 1 /\ Spot(j) = Start(j - 1)
  BY DEF Spot
<1>2. Start(j - 1) \in Nat /\ Start(j - 1) > FirstChunk /\ FirstChunk \in Nat \ {0}
  BY <1>1, StartsApart, FrameSizes
<1>3. CASE i = 1
  BY <1>1, <1>2, <1>3 DEF Spot
<1>4. CASE i # 1
  <2>1. i - 1 \in Nat \ {0} /\ i - 1 < j - 1 /\ Spot(i) = Start(i - 1)
    BY <1>4 DEF Spot
  <2>2. Start(i - 1) + NextChunk <= Start(j - 1) /\ Start(i - 1) \in Nat
    BY <1>1, <2>1, StartsApart
  <2> QED BY <1>1, <1>2, <2>1, <2>2, FrameSizes
<1> QED BY <1>3, <1>4

\* A frame of a message an ECU has begun is one of those.
LEMMA GenuineIs ==
  ASSUME current \in [Sources -> Nat], NEW e \in Sources, current[e] <= Len(Script[e]),
         NEW f, Genuine(e, f)
  PROVE  Known(e, f)
<1>1. current[e] \in Nat /\ Len(Script[e]) \in Nat
  BY FrameSizes
<1>2. PICK k \in 1..current[e] : Opens(e, k, f) \/ \E i \in Nat : Follows(e, k, i, f)
  BY DEF Genuine
<1>3. k \in 1..Len(Script[e]) /\ k \in 1..current[e]
  BY <1>1, <1>2
<1>4. Script[e][k] \in Nat \ {0} /\ FirstChunk \in Nat \ {0} /\ SingleMax \in Nat \ {0}
      /\ FirstChunk <= SingleMax
  BY <1>3, FrameSizes
<1>5. CASE Opens(e, k, f)
  <2>1. /\ f \in BusFrame /\ f.n = Script[e][k] /\ Msg(f) = k /\ Place(f) = 1
        /\ ~ Long(e, k) => f.pci = "SF" /\ f.n \in 1..SingleMax
        /\ Long(e, k) => f.pci = "FF" /\ f.n > SingleMax
    BY <1>3, <1>5, OpeningIs
  <2>2. f \notin Malformed
    BY <1>4, <2>1 DEF Malformed, Frame
  <2>3. f.pci = IF Long(e, k) THEN "FF" ELSE "SF"
    BY <2>1
  <2> QED BY <1>3, <1>4, <1>5, <2>1, <2>2, <2>3 DEF Known
<1>6. ASSUME NEW i \in Nat, Follows(e, k, i, f) PROVE Known(e, f)
  <2>1. /\ i \in Nat \ {0} /\ f.pci = "CF" /\ Msg(f) = k /\ Place(f) = Start(i) /\ f \in BusFrame
        /\ Start(i) > FirstChunk /\ Start(i) \in Nat /\ Start(i) <= Script[e][k] /\ Long(e, k)
    BY <1>3, <1>6, FollowIs
  <2>2. f \notin Malformed
    BY <2>1 DEF Malformed, Frame
  <2>3. Start(i) \in 1..Script[e][k]
    BY <1>4, <2>1
  <2> QED BY <1>3, <1>6, <2>1, <2>2, <2>3 DEF Known
<1> QED BY <1>2, <1>5, <1>6

\* The way as a sequence.
LEMMA WayIs ==
  ASSUME WayTypes
  PROVE  /\ \A x \in Item : x # NoFrame
         /\ Way \in Seq(Item) /\ Len(Way) \in Nat
         /\ holding = NoFrame => Way = frames
         /\ holding # NoFrame => /\ Len(Way) = Len(frames) + 1 /\ Way[Len(Way)] = holding
                                 /\ \A p \in 1..Len(frames) : Way[p] = frames[p]
<1>1. \A x \in Item : x # NoFrame
  <2> TAKE x \in Item
  <2>1. x = [src |-> x.src, frame |-> x.frame]
    BY DEF Item
  <2>2. "src" \in DOMAIN x
    BY <2>1
  <2>3. DOMAIN <<>> = {}
    OBVIOUS
  <2> QED BY <2>2, <2>3 DEF NoFrame
<1> HIDE DEF NoFrame, Item
<1>2. frames \in Seq(Item) /\ holding \in Item \cup {NoFrame}
  BY DEF WayTypes
<1> QED BY <1>1, <1>2 DEF Way

\* What is left of the way when frames have gone from its front.
LEMMA WayShortens ==
  ASSUME WayTypes, NEW d \in Nat, d <= Len(Way), Len(Way') = Len(Way) - d,
         \A p \in 1..Len(Way') : Way'[p] = Way[p + d], NEW e \in Sources, WayInv(e)
  PROVE  /\ Sent(e)' \subseteq Sent(e)
         /\ \A p, q \in From(e)' : p < q => Before(Way'[p].frame, Way'[q].frame)
         /\ (\A p \in 1..d : p \notin From(e)) => Sent(e)' = Sent(e)
<1>1. Len(Way) \in Nat /\ Len(Way') \in Nat
  BY WayIs
<1>2. ASSUME NEW p \in From(e)' PROVE p \in Nat /\ p + d \in From(e) /\ Way'[p] = Way[p + d]
  <2>1. p \in 1..Len(Way') /\ Way'[p].src = e /\ Way'[p].frame \notin Malformed
    BY <1>2 DEF From
  <2>2. Way'[p] = Way[p + d] /\ p + d \in 1..Len(Way) /\ p \in Nat
    BY <1>1, <2>1
  <2> QED BY <2>1, <2>2 DEF From
<1>3. Sent(e)' \subseteq Sent(e)
  <2>1. ASSUME NEW f \in Sent(e)' PROVE f \in Sent(e)
    <3>1. PICK p \in From(e)' : f = Way'[p].frame
      BY <2>1 DEF Sent
    <3> QED BY <1>2, <3>1 DEF Sent
  <2> QED BY <2>1
<1>4. ASSUME NEW p \in From(e)', NEW q \in From(e)', p < q
      PROVE  Before(Way'[p].frame, Way'[q].frame)
  <2>1. p + d \in From(e) /\ q + d \in From(e) /\ p + d < q + d
    BY <1>2, <1>4
  <2>2. Before(Way[p + d].frame, Way[q + d].frame)
    BY <2>1 DEF WayInv
  <2> QED BY <1>2, <2>2
<1>5. ASSUME \A p \in 1..d : p \notin From(e), NEW f \in Sent(e) PROVE f \in Sent(e)'
  <2>1. PICK p \in From(e) : f = Way[p].frame
    BY DEF Sent
  <2>2. p \in 1..Len(Way) /\ p \notin 1..d /\ Way[p].src = e /\ Way[p].frame \notin Malformed
    BY <1>5, <2>1 DEF From
  <2>3. PICK q \in 1..Len(Way') : p = q + d
    <3>1. p - d \in 1..Len(Way') /\ p = (p - d) + d
      BY <1>1, <2>2
    <3> QED BY <3>1
  <2>4. Way'[q] = Way[p]
    BY <2>3
  <2>5. q \in From(e)'
    BY <2>2, <2>3, <2>4 DEF From
  <2> QED BY <2>1, <2>4, <2>5 DEF Sent
<1> QED BY <1>3, <1>4, <1>5

\* What has been begun remains so.
LEMMA GenuineKept ==
  ASSUME NEW e \in Sources, current[e] \in Nat, current'[e] \in Nat, current[e] <= current'[e],
         shortened \subseteq shortened', NEW f, Genuine(e, f)
  PROVE  Genuine(e, f)'
<1>1. PICK k \in 1..current[e] : Opens(e, k, f) \/ \E i \in Nat : Follows(e, k, i, f)
  BY DEF Genuine
<1>2. k \in 1..current'[e]
  BY <1>1
<1>3. Opens(e, k, f) => Opens(e, k, f)'
  BY DEF Opens, FramesOf, Segment, Message, Frame, Padded, Consecutive, Following, Least
<1>4. ASSUME NEW i \in Nat, Follows(e, k, i, f) PROVE Follows(e, k, i, f)'
  BY <1>4 DEF Follows
<1> QED BY <1>1, <1>2, <1>3, <1>4 DEF Genuine

\* A frame counts the same wherever it is: what matters is what it carries.
Alike(f, g) == Msg(f) = Msg(g) /\ Place(f) = Place(g)

\* A transfer keeps its message while nothing else comes and its ECU may go on.
LEMMA TransferKept ==
  ASSUME NEW e \in Sources, current[e] \in Nat, TransferInv(e), transfers'[e] = transfers[e],
         shortened \subseteq shortened',
         \A f \in Coming(e)' : \E g \in Coming(e) : Alike(f, g),
         \/ current'[e] = current[e] /\ (allowed[e] => allowed'[e])
         \/ current'[e] = current[e] + 1
  PROVE  TransferInv(e)'
<1> SUFFICES ASSUME transfers[e] # NoTransfer PROVE \E k \in 1..current'[e] : IsTransferOf(e, k)'
  BY DEF TransferInv
<1>1. PICK k \in 1..current[e] : IsTransferOf(e, k)
  BY DEF TransferInv
<1>2. k \in 1..current'[e] /\ (k = current'[e] => current'[e] = current[e])
  BY <1>1
<1>3. Size(e)' = Size(e)
  BY DEF Size
<1>4. <<e, k>> \in shortened \/ \E i \in Nat \ {0} : Whole(e, k, i)
  BY <1>1 DEF IsTransferOf
<1>5. ASSUME NEW i \in Nat \ {0}, Whole(e, k, i) PROVE Whole(e, k, i)'
  <2>1. Size(e)' = Start(i) - 1
    BY <1>3, <1>5 DEF Whole
  <2>2. ASSUME \A f \in Coming(e) : Place(f) >= Start(i + 1)
        PROVE  \A f \in Coming(e)' : Place(f) >= Start(i + 1)
    BY <2>2 DEF Alike
  <2>3. ASSUME \A m \in 1..Size(e) : transfers[e].buffer[m] = <<e, k, m>>
        PROVE  \A m \in 1..Size(e)' : transfers'[e].buffer[m] = <<e, k, m>>
    BY <1>3, <2>3
  <2>4. \/ \A m \in 1..Size(e) : transfers[e].buffer[m] = <<e, k, m>>
        \/ \A f \in Coming(e) : Place(f) >= Start(i + 1)
    BY <1>5 DEF Whole
  <2> QED BY <2>1, <2>2, <2>3, <2>4 DEF Whole
<1>6. <<e, k>> \in shortened' \/ \E i \in Nat \ {0} : Whole(e, k, i)'
  BY <1>4, <1>5
<1>7. \A f \in Coming(e)' : Msg(f) = k /\ Place(f) > Size(e)'
  BY <1>1, <1>3 DEF IsTransferOf, Alike
<1>8. k = current'[e] => allowed'[e]
  BY <1>1, <1>2 DEF IsTransferOf
<1>9. /\ Long(e, k) /\ transfers'[e].total = Script[e][k]
      /\ Size(e)' \in FirstChunk..(Script[e][k] - 1) /\ transfers'[e].buffer[1] = <<e, k, 1>>
  BY <1>1, <1>3 DEF IsTransferOf
<1> QED BY <1>2, <1>6, <1>7, <1>8, <1>9 DEF IsTransferOf, Long

\* So does what was delivered.
LEMMA DeliveredKept ==
  ASSUME NEW e \in Sources, current[e] \in Nat, current'[e] \in Nat, current[e] <= current'[e],
         DeliveredInv(e), delivered'[e] = delivered[e], shortened \subseteq shortened',
         \A f \in ToCome(e)' : Msg(f) = current[e] + 1 \/ \E g \in ToCome(e) : Alike(f, g)
  PROVE  DeliveredInv(e)'
<1>1. \A i : Number(e, i)' = Number(e, i)
  BY DEF Number
<1>2. ASSUME NEW i \in 1..Len(delivered[e])
      PROVE  /\ Number(e, i) \in 1..current'[e]
             /\ delivered[e][i] = Message(e, Number(e, i)) \/ <<e, Number(e, i)>> \in shortened'
             /\ \A f \in ToCome(e)' : Number(e, i) < Msg(f)
  <2>1. /\ Number(e, i) \in 1..current[e]
        /\ delivered[e][i] = Message(e, Number(e, i)) \/ <<e, Number(e, i)>> \in shortened
        /\ \A f \in ToCome(e) : Number(e, i) < Msg(f)
    BY <1>2 DEF DeliveredInv
  <2>2. ASSUME NEW f \in ToCome(e)' PROVE Number(e, i) < Msg(f)
    BY <2>1 DEF Alike
  <2>3. Number(e, i) \in 1..current'[e]
    BY <2>1
  <2> QED BY <2>1, <2>2, <2>3
<1>3. \A i, j \in 1..Len(delivered[e]) : i < j => Number(e, i) < Number(e, j)
  BY DEF DeliveredInv
<1>4. \A k : Message(e, k)' = Message(e, k)
  BY DEF Message
<1> HIDE DEF Number, Message, ToCome
<1> QED BY <1>1, <1>2, <1>3, <1>4 DEF DeliveredInv

\* Nothing is missing when all that was to come still is.
LEMMA LosslessKept ==
  ASSUME NEW e \in Sources, LosslessInv(e), current'[e] = current[e],
         transfers'[e] = transfers[e], delivered'[e] = delivered[e],
         \A f \in ToCome(e)' : \E g \in ToCome(e) : Alike(f, g),
         \A f \in ToCome(e) : \E g \in ToCome(e)' : Alike(f, g)
  PROVE  LosslessInv(e)'
<1>1. \A k, p : Awaited(e, k, p) => Awaited(e, k, p)'
  BY DEF Awaited, Alike
<1>2. /\ Due(e)' = Due(e) /\ Size(e)' = Size(e) /\ \A i : Number(e, i)' = Number(e, i)
  BY DEF Due, Size, Number
<1>3. ASSUME NEW f \in ToCome(e)' PROVE GoesOn(e, f)'
  <2>1. PICK g \in ToCome(e) : Msg(g) = Msg(f) /\ Place(g) = Place(f)
    BY DEF Alike
  <2>2. GoesOn(e, g)
    BY <2>1 DEF LosslessInv
  <2>3. NextPlace(g) = NextPlace(f)
    BY <2>1 DEF NextPlace
  <2> QED BY <1>1, <2>1, <2>2, <2>3 DEF GoesOn
<1>4. /\ \A i \in 1..Len(delivered[e]) : Number(e, i) = i
      /\ IF transfers[e] = NoTransfer
         THEN Due(e) <= current[e] => Awaited(e, Due(e), 1)
         ELSE /\ transfers[e].buffer[1][2] = Due(e)
              /\ Awaited(e, Due(e), Size(e) + 1)
              /\ \E i \in Nat \ {0} : Size(e) = Start(i) - 1 /\ transfers[e].sn = i % SnMod
  BY DEF LosslessInv
<1>5. IF transfers'[e] = NoTransfer
      THEN Due(e)' <= current'[e] => Awaited(e, Due(e), 1)'
      ELSE /\ transfers'[e].buffer[1][2] = Due(e)'
           /\ Awaited(e, Due(e), Size(e) + 1)'
           /\ \E i \in Nat \ {0} : Size(e)' = Start(i) - 1 /\ transfers'[e].sn = i % SnMod
  BY <1>1, <1>2, <1>4
<1> QED BY <1>2, <1>3, <1>4, <1>5 DEF LosslessInv

\* An ECU that does nothing itself, while frames of it may go from the way.
LEMMA Untouched ==
  ASSUME NEW e \in Sources, TablesInv, EcuHolds(e),
         current'[e] = current[e], toSend'[e] = toSend[e], allowed'[e] = allowed[e],
         transfers'[e] = transfers[e] \/ transfers'[e] = NoTransfer, delivered'[e] = delivered[e],
         shortened \subseteq shortened', Sent(e)' \subseteq Sent(e),
         \A p, q \in From(e)' : p < q => Before(Way'[p].frame, Way'[q].frame)
  PROVE  /\ EcuHolds(e)'
         /\ LosslessInv(e) /\ Sent(e)' = Sent(e) /\ transfers'[e] = transfers[e]
              => LosslessInv(e)'
<1>1. EcuInv(e) /\ WayInv(e) /\ TransferInv(e) /\ DeliveredInv(e) /\ current[e] \in Nat
  BY DEF EcuHolds, TablesInv
<1>2. Unsent(e)' = Unsent(e)
  BY DEF Unsent
<1>3. ToCome(e)' \subseteq ToCome(e) /\ Coming(e)' \subseteq Coming(e)
  BY <1>2 DEF ToCome, Coming
<1>4. EcuInv(e)'
  BY <1>1 DEF EcuInv
<1>5. WayInv(e)'
  <2>1. \A f \in Sent(e)' : Genuine(e, f)'
    <3>1. ASSUME NEW f \in Sent(e)' PROVE Genuine(e, f)'
      <4>1. Genuine(e, f)
        BY <1>1 DEF WayInv
      <4> QED BY <1>1, <4>1, GenuineKept
    <3> QED BY <3>1
  <2>2. \A f \in Sent(e)', g \in Unsent(e)' : Before(f, g)
    BY <1>1, <1>2 DEF WayInv
  <2>3. \A f \in Sent(e)' : f.pci = "FF" =>
          /\ Msg(f) = current'[e] /\ ~ allowed'[e]
          /\ toSend'[e] # <<>> /\ Head(toSend'[e]).pci = "CF"
    BY <1>1 DEF WayInv
  <2>4. \A f \in Sent(e)' : f.pci = "CF" /\ Msg(f) = current'[e] => allowed'[e]
    BY <1>1 DEF WayInv
  <2> QED BY <2>1, <2>2, <2>3, <2>4 DEF WayInv
<1>6. \A f : Alike(f, f)
  BY DEF Alike
<1>7. TransferInv(e)'
  <2>1. CASE transfers'[e] = NoTransfer
    BY <2>1 DEF TransferInv
  <2>2. CASE transfers'[e] = transfers[e]
    BY <1>1, <1>3, <1>6, <2>2, TransferKept
  <2> QED BY <2>1, <2>2
<1>8. DeliveredInv(e)'
  BY <1>1, <1>3, <1>6, DeliveredKept
<1>9. ASSUME LosslessInv(e), Sent(e)' = Sent(e), transfers'[e] = transfers[e]
      PROVE  LosslessInv(e)'
  <2>1. ToCome(e)' = ToCome(e)
    BY <1>2, <1>9 DEF ToCome
  <2> QED BY <1>6, <1>9, <2>1, LosslessKept
<1> QED BY <1>4, <1>5, <1>7, <1>8, <1>9 DEF EcuHolds

\* Whatever only takes frames from the front of the way keeps all that holds of the ECUs.
LEMMA WayMoves ==
  ASSUME FramesInv, NEW d \in Nat, d <= Len(Way), Len(Way') = Len(Way) - d,
         \A p \in 1..Len(Way') : Way'[p] = Way[p + d],
         UNCHANGED <<ecuVars, delivered, shortened>>,
         transfers' = transfers \/ transfers' = [e \in Sources |-> NoTransfer],
         WayTypes', CountsInv',
         NothingLost' => NothingLost /\ d = 0 /\ transfers' = transfers
  PROVE  FramesInv'
<1>1. /\ CountsInv /\ WayTypes /\ TablesInv
      /\ \A e \in Sources : EcuHolds(e) /\ (NothingLost => LosslessInv(e))
  BY DEF FramesInv
<1>2. /\ current' = current /\ toSend' = toSend /\ allowed' = allowed
      /\ delivered' = delivered /\ shortened' = shortened
  BY DEF ecuVars
<1>3. TablesInv'
  <2>1. NoTransfer \in Transfer
    <3>1. <<>> \in Seq(Datum)
      <4> HIDE DEF Datum
      <4> QED OBVIOUS
    <3> HIDE DEF Datum
    <3> QED BY <3>1 DEF NoTransfer, Transfer
  <2> HIDE DEF Transfer, NoTransfer, BusFrame, Datum
  <2>2. transfers' \in [Sources -> Transfer]
    BY <1>1, <2>1 DEF TablesInv
  <2> QED BY <1>1, <1>2, <2>2 DEF TablesInv
<1>4. ASSUME NEW e \in Sources PROVE EcuHolds(e)' /\ (NothingLost' => LosslessInv(e)')
  <2>1. /\ Sent(e)' \subseteq Sent(e)
        /\ \A p, q \in From(e)' : p < q => Before(Way'[p].frame, Way'[q].frame)
        /\ (\A p \in 1..d : p \notin From(e)) => Sent(e)' = Sent(e)
    <3>1. WayInv(e)
      BY <1>1 DEF EcuHolds
    <3> QED BY <1>1, <3>1, WayShortens
  <2>2. transfers'[e] = transfers[e] \/ transfers'[e] = NoTransfer
    OBVIOUS
  <2>3. /\ EcuHolds(e)'
        /\ LosslessInv(e) /\ Sent(e)' = Sent(e) /\ transfers'[e] = transfers[e]
             => LosslessInv(e)'
    <3>1. /\ current'[e] = current[e] /\ toSend'[e] = toSend[e] /\ allowed'[e] = allowed[e]
          /\ delivered'[e] = delivered[e] /\ shortened \subseteq shortened'
      BY <1>2
    <3> QED BY <1>1, <2>1, <2>2, <3>1, Untouched
  <2>4. ASSUME NothingLost' PROVE LosslessInv(e)'
    <3>1. NothingLost /\ d = 0 /\ transfers' = transfers
      BY <2>4
    <3>2. Sent(e)' = Sent(e)
      BY <2>1, <3>1
    <3> QED BY <1>1, <2>3, <3>1, <3>2
  <2> QED BY <2>3, <2>4
<1> QED BY <1>3, <1>4 DEF FramesInv

\* The capture loop queues a frame, or finds the queue full.
LEMMA FeedKeeps ==
  ASSUME FramesInv, FeedPut \/ FeedFull
  PROVE  FramesInv'
<1>1. CountsInv /\ WayTypes
  BY DEF FramesInv
<1>2. /\ frames \in Seq(Item) /\ holding \in Item \cup {NoFrame} /\ holding # NoFrame
      /\ sawFull => holding # NoFrame
  BY <1>1 DEF WayTypes, FeedPut, FeedFull
<1>3. /\ UNCHANGED <<ecuVars, delivered, shortened>> /\ transfers' = transfers
      /\ CountsInv' /\ (NothingLost' => NothingLost)
  BY <1>1 DEF FeedPut, FeedFull, CountsInv, NothingLost
<1>4. Way' = Way /\ WayTypes'
  <2>1. CASE FeedPut
    <3>1. frames' = Append(frames, holding) /\ holding' = NoFrame /\ sawFull' = FALSE
      BY <2>1 DEF FeedPut
    <3> HIDE DEF Item, NoFrame
    <3>2. frames' \in Seq(Item)
      BY <1>2, <3>1
    <3> QED BY <1>2, <3>1, <3>2 DEF Way, WayTypes
  <2>2. CASE FeedFull
    BY <1>2, <2>2 DEF Way, WayTypes, FeedFull
  <2> QED BY <2>1, <2>2
<1>5. Len(Way) \in Nat
  BY <1>1, WayIs
<1>6. /\ 0 \in Nat /\ 0 <= Len(Way) /\ Len(Way') = Len(Way) - 0
      /\ \A p \in 1..Len(Way') : Way'[p] = Way[p + 0]
  BY <1>4, <1>5
<1>7. NothingLost' => NothingLost /\ 0 = 0 /\ transfers' = transfers
  BY <1>3
<1> QED BY <1>3, <1>4, <1>6, <1>7, WayMoves

\* The oldest frame in the queue is dropped, or the one the loop holds.
LEMMA DropKeeps ==
  ASSUME FramesInv, FeedDropOldest
  PROVE  FramesInv'
<1>1. CountsInv /\ WayTypes
  BY DEF FramesInv
<1>2. /\ frames \in Seq(Item) /\ holding \in Item /\ holding # NoFrame
  BY <1>1 DEF WayTypes, FeedDropOldest
<1>3. /\ UNCHANGED <<ecuVars, delivered, shortened>> /\ transfers' = transfers
      /\ CountsInv' /\ ~ NothingLost'
  BY <1>1 DEF FeedDropOldest, CountsInv, NothingLost
<1>4. Way \in Seq(Item) /\ Len(Way) \in Nat
  BY <1>1, WayIs
<1>5. /\ WayTypes' /\ Len(Way) >= 1 /\ Len(Way') = Len(Way) - 1
      /\ \A p \in 1..Len(Way') : Way'[p] = Way[p + 1]
  <2> HIDE DEF Item, NoFrame
  <2>1. Way = Append(frames, holding)
    BY <1>2 DEF Way
  <2>2. CASE frames = <<>>
    <3>1. holding' = NoFrame /\ frames' = <<>> /\ sawFull' = FALSE
      BY <2>2 DEF FeedDropOldest
    <3>2. Way' = <<>>
      BY <3>1 DEF Way
    <3>3. WayTypes'
      BY <3>1 DEF WayTypes
    <3>4. Len(Way) = 1 /\ Len(Way') = 0
      BY <2>1, <2>2, <3>2
    <3> QED BY <3>3, <3>4
  <2>3. CASE frames # <<>>
    <3>1. holding' = holding /\ frames' = Tail(frames) /\ sawFull' = FALSE
      BY <2>3 DEF FeedDropOldest
    <3>2. Way' = Append(Tail(frames), holding)
      BY <1>2, <3>1 DEF Way
    <3>3. WayTypes'
      <4>1. Tail(frames) \in Seq(Item)
        BY <1>2, <2>3
      <4> QED BY <1>2, <3>1, <4>1 DEF WayTypes
    <3>4. /\ Len(Way) = Len(frames) + 1 /\ Len(frames) \in Nat /\ Len(Way') = Len(frames)
          /\ \A p \in 1..Len(frames) : Way'[p] = Way[p + 1]
      <4>1. /\ Tail(frames) \in Seq(Item) /\ Len(Tail(frames)) = Len(frames) - 1
            /\ \A p \in 1..(Len(frames) - 1) : Tail(frames)[p] = frames[p + 1]
            /\ Len(frames) \in Nat \ {0}
        BY <1>2, <2>3
      <4>2. /\ Len(Way) = Len(frames) + 1 /\ Way[Len(frames) + 1] = holding
            /\ \A p \in 1..Len(frames) : Way[p] = frames[p]
        BY <1>2, <2>1
      <4>3. /\ Len(Way') = Len(Tail(frames)) + 1 /\ Way'[Len(Tail(frames)) + 1] = holding
            /\ \A p \in 1..Len(Tail(frames)) : Way'[p] = Tail(frames)[p]
        BY <1>2, <3>2, <4>1
      <4>4. ASSUME NEW p \in 1..Len(frames) PROVE Way'[p] = Way[p + 1]
        <5>1. CASE p = Len(frames)
          BY <4>1, <4>2, <4>3, <5>1
        <5>2. CASE p # Len(frames)
          <6>1. p \in 1..(Len(frames) - 1) /\ p + 1 \in 1..Len(frames)
            <7>1. PICK n \in Nat : n = Len(frames)
              BY <1>2
            <7>2. p \in 1..n /\ p # n
              BY <5>2, <7>1
            <7>3. p \in 1..(n - 1) /\ p + 1 \in 1..n
              BY <7>2
            <7> QED BY <7>1, <7>3
          <6> QED BY <4>1, <4>2, <4>3, <6>1
        <5> QED BY <5>1, <5>2
      <4> QED BY <4>1, <4>2, <4>3, <4>4
    <3> QED BY <3>3, <3>4
  <2> QED BY <2>2, <2>3
<1> QED BY <1>3, <1>4, <1>5, WayMoves

\* A request forgets the transfers and the frames in the queue.
LEMMA RequestKeeps ==
  ASSUME FramesInv, BeginRequest
  PROVE  FramesInv'
<1>1. CountsInv /\ WayTypes
  BY DEF FramesInv
<1>2. /\ frames \in Seq(Item) /\ Len(frames) \in Nat /\ holding \in Item \cup {NoFrame}
      /\ sawFull => holding # NoFrame
  BY <1>1 DEF WayTypes
<1>3. /\ UNCHANGED <<ecuVars, delivered, shortened>>
      /\ transfers' = [e \in Sources |-> NoTransfer]
      /\ CountsInv' /\ ~ NothingLost' /\ frames' = <<>> /\ holding' = holding
      /\ sawFull' = sawFull
  BY <1>1, <1>2 DEF BeginRequest, CountsInv, NothingLost
<1>4. WayTypes'
  <2> HIDE DEF Item, NoFrame
  <2> QED BY <1>2, <1>3 DEF WayTypes
<1>5. Len(Way) \in Nat
  BY <1>1, WayIs
<1>6. /\ Len(frames) <= Len(Way) /\ Len(Way') = Len(Way) - Len(frames)
      /\ \A p \in 1..Len(Way') : Way'[p] = Way[p + Len(frames)]
  <2> HIDE DEF Item, NoFrame
  <2>1. CASE holding = NoFrame
    <3>1. Way' = <<>> /\ Way = frames
      BY <1>3, <2>1 DEF Way
    <3> QED BY <1>2, <3>1
  <2>2. CASE holding # NoFrame
    <3>1. Way' = Append(<<>>, holding) /\ Way = Append(frames, holding) /\ holding \in Item
      BY <1>2, <1>3, <2>2 DEF Way
    <3>2. Len(Way') = 1 /\ Way'[1] = holding
      BY <3>1
    <3>3. Len(Way) = Len(frames) + 1 /\ Way[1 + Len(frames)] = holding
      BY <1>2, <3>1
    <3> QED BY <1>2, <3>2, <3>3
  <2> QED BY <2>1, <2>2
<1> QED BY <1>2, <1>3, <1>4, <1>6, WayMoves

\* A frame that carries no message is a frame.
LEMMA MalformedAre == Malformed \subseteq BusFrame
<1>1. <<>> \in Seq(Datum)
  <2> HIDE DEF Datum
  <2> QED OBVIOUS
<1>2. /\ SingleMax \in Nat \ {0} /\ FirstChunk \in Nat \ {0}
  BY FrameSizes
<1>3. Padded(<<>>, SingleMax) \in Seq(Datum) /\ Padded(<<>>, FirstChunk) \in Seq(Datum)
  BY <1>1, <1>2, PaddedIs
<1>4. ASSUME NEW f \in Malformed PROVE f \in BusFrame
  <2> HIDE DEF Datum, Padded
  <2>1. CASE f = Frame("SF", SingleMax + 1, Padded(<<>>, SingleMax))
    BY <1>2, <1>3, <2>1 DEF Frame, BusFrame
  <2>2. CASE f = Frame("FF", 1, Padded(<<>>, FirstChunk))
    BY <1>2, <1>3, <2>2 DEF Frame, BusFrame
  <2>3. CASE f = Frame("FC", 0, <<>>) \/ f = Frame("other", 0, <<>>)
    <3>1. PICK d \in Seq(Datum) : d = <<>>
      BY <1>1
    <3>2. f = Frame("FC", 0, d) \/ f = Frame("other", 0, d)
      BY <2>3, <3>1
    <3> QED BY <3>2 DEF Frame, BusFrame
  <2> QED BY <2>1, <2>2, <2>3 DEF Malformed
<1> QED BY <1>4

\* The way when a frame joins it.
LEMMA WayGrows ==
  ASSUME WayTypes, NEW s \in Sources, NEW f \in BusFrame, Arrives(s, f),
         UNCHANGED <<frames, sawFull>>
  PROVE  /\ WayTypes'
         /\ \A e \in Sources : e # s \/ f \in Malformed =>
              /\ Sent(e)' = Sent(e)
              /\ WayInv(e) => \A p, q \in From(e)' : p < q => Before(Way'[p].frame, Way'[q].frame)
         /\ f \notin Malformed =>
              /\ Sent(s)' = Sent(s) \cup {f}
              /\ WayInv(s) /\ (\A g \in Sent(s) : Before(g, f)) =>
                   \A p, q \in From(s)' : p < q => Before(Way'[p].frame, Way'[q].frame)
<1> DEFINE x == [src |-> s, frame |-> f]
           n == Len(Way)
<1>1. x \in Item /\ x.src = s /\ x.frame = f
  BY DEF Item
<1>2. /\ holding = NoFrame /\ holding' = x /\ frames' = frames /\ sawFull' = sawFull
      /\ x # NoFrame /\ Way = frames /\ Way \in Seq(Item) /\ n \in Nat
  BY <1>1, WayIs DEF Arrives
<1> HIDE DEF x
<1>3. WayTypes'
  <2> HIDE DEF Item, NoFrame
  <2> QED BY <1>1, <1>2 DEF WayTypes
<1>4. Len(Way') = n + 1 /\ Way'[n + 1] = x /\ \A p \in 1..n : Way'[p] = Way[p]
  <2>1. Way' = Append(Way, x)
    BY <1>2 DEF Way
  <2> HIDE DEF Item, NoFrame, Way
  <2> QED BY <1>1, <1>2, <2>1
<1>5. \A p \in 1..(n + 1) : p \in 1..n \/ p = n + 1
  BY <1>2
<1>6. 1..n \subseteq 1..(n + 1) /\ n + 1 \in 1..(n + 1) /\ n + 1 \notin 1..n
  BY <1>2
<1> HIDE DEF n
<1>7. ASSUME NEW e \in Sources, e # s \/ f \in Malformed
      PROVE  /\ Sent(e)' = Sent(e)
             /\ WayInv(e) => \A p, q \in From(e)' : p < q => Before(Way'[p].frame, Way'[q].frame)
  <2>1. From(e)' = From(e)
    BY <1>1, <1>4, <1>5, <1>6, <1>7 DEF From, n
  <2>2. \A p \in From(e) : Way'[p] = Way[p]
    BY <1>4 DEF From, n
  <2> QED BY <2>1, <2>2 DEF Sent, WayInv
<1>8. ASSUME f \notin Malformed
      PROVE  /\ Sent(s)' = Sent(s) \cup {f}
             /\ WayInv(s) /\ (\A g \in Sent(s) : Before(g, f)) =>
                  \A p, q \in From(s)' : p < q => Before(Way'[p].frame, Way'[q].frame)
  <2>1. From(s)' = From(s) \cup {n + 1}
    <3>1. \A p \in From(s) : p \in 1..n
      BY DEF From, n
    <3> QED BY <1>1, <1>4, <1>5, <1>6, <1>8, <3>1 DEF From, n
  <2>2. \A p \in From(s) : Way'[p] = Way[p] /\ p \in 1..n
    BY <1>4 DEF From, n
  <2>3. Sent(s)' = Sent(s) \cup {f}
    BY <1>1, <1>4, <2>1, <2>2 DEF Sent
  <2>4. ASSUME WayInv(s), \A g \in Sent(s) : Before(g, f),
               NEW p \in From(s)', NEW q \in From(s)', p < q
        PROVE  Before(Way'[p].frame, Way'[q].frame)
    <3>1. p \in 1..(n + 1) /\ q \in 1..(n + 1) /\ n \in Nat
      BY <1>2, <1>6, <2>1, <2>2 DEF n
    <3>2. p # n + 1
      BY <2>4, <3>1
    <3>3. p \in From(s) /\ Way'[p] = Way[p]
      BY <2>1, <2>2, <3>2
    <3>4. CASE q = n + 1
      <4>1. Way'[q].frame = f
        BY <1>1, <1>4, <3>4
      <4>2. Way[p].frame \in Sent(s)
        BY <3>3 DEF Sent
      <4> QED BY <2>4, <3>3, <4>1, <4>2
    <3>5. CASE q # n + 1
      <4>1. q \in From(s) /\ Way'[q] = Way[q]
        BY <2>1, <2>2, <3>5
      <4> QED BY <2>4, <3>3, <4>1 DEF WayInv
    <3> QED BY <3>4, <3>5
  <2> QED BY <2>3, <2>4
<1> QED BY <1>3, <1>7, <1>8

\* A malformed frame on the bus.
LEMMA NoiseKeeps ==
  ASSUME FramesInv, NEW s \in Sources, Noise(s)
  PROVE  FramesInv'
<1>1. /\ CountsInv /\ WayTypes /\ TablesInv
      /\ \A e \in Sources : EcuHolds(e) /\ (NothingLost => LosslessInv(e))
  BY DEF FramesInv
<1>2. PICK f \in Malformed : Arrives(s, f)
  BY DEF Noise
<1>3. /\ current' = current /\ toSend' = toSend /\ allowed' = allowed
      /\ frames' = frames /\ sawFull' = sawFull /\ transfers' = transfers
      /\ delivered' = delivered /\ dropped' = dropped /\ requests' = requests
      /\ shortened' = shortened
  BY DEF Noise, ecuVars
<1>4. CountsInv' /\ TablesInv' /\ (NothingLost' => NothingLost)
  BY <1>1, <1>3 DEF CountsInv, TablesInv, NothingLost
<1>5. /\ WayTypes'
      /\ \A e \in Sources :
              /\ Sent(e)' = Sent(e)
              /\ WayInv(e) => \A p, q \in From(e)' : p < q => Before(Way'[p].frame, Way'[q].frame)
  <2>1. f \in BusFrame
    BY MalformedAre
  <2> QED BY <1>1, <1>2, <1>3, <2>1, WayGrows
<1>6. ASSUME NEW e \in Sources PROVE EcuHolds(e)' /\ (NothingLost' => LosslessInv(e)')
  <2>1. EcuHolds(e)' /\ (LosslessInv(e) => LosslessInv(e)')
    BY <1>1, <1>3, <1>5, Untouched DEF EcuHolds
  <2> QED BY <1>1, <1>4, <2>1
<1> QED BY <1>4, <1>5, <1>6 DEF FramesInv

\* How much has been delivered.
LEMMA DeliveredCount ==
  ASSUME TablesInv, NEW e \in Sources
  PROVE  Len(delivered[e]) \in Nat /\ DOMAIN delivered[e] = 1..Len(delivered[e])
<1> HIDE DEF Datum
<1>1. delivered[e] \in Seq(Seq(Datum))
  BY DEF TablesInv
<1>2. PICK S : S = Seq(Datum)
  OBVIOUS
<1>3. PICK q \in Seq(S) : q = delivered[e]
  BY <1>1, <1>2
<1>4. Len(q) \in Nat /\ DOMAIN q = 1..Len(q)
  OBVIOUS
<1> QED BY <1>3, <1>4

\* They are a sequence of frames.
LEMMA FramesSeq ==
  ASSUME NEW e \in Sources, NEW k \in 1..Len(Script[e])
  PROVE  /\ FramesOf(e, k) \in Seq(BusFrame) /\ Len(FramesOf(e, k)) \in Nat \ {0}
         /\ ~ Long(e, k) => Len(FramesOf(e, k)) = 1
         /\ Long(e, k) => /\ Following(Script[e][k]) \in Nat
                          /\ Len(FramesOf(e, k)) = 1 + Following(Script[e][k])
<1> DEFINE all == FramesOf(e, k)
<1>1. /\ \E S : all \in Seq(S)
      /\ ~ Long(e, k) => Len(all) = 1
      /\ Long(e, k) => Following(Script[e][k]) \in Nat /\ Len(all) = 1 + Following(Script[e][k])
  BY SegmentIs
<1>2. \A j \in 1..Len(all) : all[j] \in BusFrame
  BY FramesAre
<1> HIDE DEF all
<1>3. all \in Seq(BusFrame) /\ Len(all) \in Nat
  <2>1. PICK S : all \in Seq(S)
    BY <1>1
  <2> HIDE DEF BusFrame
  <2>2. all \in [1..Len(all) -> S] /\ Len(all) \in Nat
    BY <2>1
  <2>3. all \in [1..Len(all) -> BusFrame]
    BY <1>2, <2>2
  <2> QED BY <2>2, <2>3
<1>4. Len(all) # 0
  <2>1. CASE Long(e, k)
    <3>1. PICK n \in Nat : Len(all) = 1 + n
      BY <1>1, <2>1
    <3> QED BY <3>1
  <2>2. CASE ~ Long(e, k)
    <3>1. Len(all) = 1
      BY <1>1, <2>2, Zenon
    <3> QED BY <3>1
  <2> QED BY <2>1, <2>2
<1> QED BY <1>1, <1>3, <1>4, Zenon DEF all

\* The next one begins where the last one ends, if the message has so many bytes.
LEMMA FramesGoOn ==
  ASSUME NEW e \in Sources, NEW k \in 1..Len(Script[e]), NEW j \in Nat \ {0},
         NEW f, Place(f) = Spot(j)
  PROVE  /\ NextPlace(f) = Spot(j + 1) /\ Spot(j + 1) = Start(j)
         /\ Long(e, k) => (Start(j) <= Script[e][k] <=> j + 1 \in 1..Len(FramesOf(e, k)))
<1>1. j + 1 \in Nat \ {0, 1} /\ j + 1 - 1 = j
  OBVIOUS
<1>2. Spot(j + 1) = Start(j) /\ Start(j) \in Nat
  BY <1>1, StartsApart DEF Spot
<1>3. NextPlace(f) = Start(j)
  <2>1. CASE j = 1
    BY <2>1 DEF Spot, NextPlace
  <2>2. CASE j # 1
    <3>1. j - 1 \in Nat \ {0} /\ j - 1 + 1 = j /\ Spot(j) = Start(j - 1)
      BY <2>2 DEF Spot
    <3>2. Start(j - 1) \in Nat /\ Start(j - 1) > FirstChunk /\ Start(j) = Start(j - 1) + NextChunk
      <4>1. /\ Start(j - 1) \in Nat /\ Start(j - 1) > FirstChunk
            /\ Start(j - 1 + 1) = Start(j - 1) + NextChunk
        BY <3>1, StartsApart
      <4> QED BY <3>1, <4>1
    <3> QED BY <3>1, <3>2, FrameSizes DEF NextPlace
  <2> QED BY <2>1, <2>2
<1>4. ASSUME Long(e, k) PROVE Start(j) <= Script[e][k] <=> j + 1 \in 1..Len(FramesOf(e, k))
  <2> DEFINE len == Script[e][k]
  <2>1. len \in Nat /\ len > FirstChunk
    BY <1>4, FrameSizes DEF Long
  <2>2. Following(len) \in Nat /\ (j <= Following(len) <=> Start(j) <= len)
    BY <2>1, FollowingStart
  <2>3. Len(FramesOf(e, k)) = 1 + Following(len)
    BY <1>4, FramesSeq
  <2> QED BY <2>2, <2>3
<1> QED BY <1>2, <1>3, <1>4

\* An ECU begins its next message.
LEMMA StartKeepsOwn ==
  ASSUME TablesInv, NEW s \in Sources, EcuHolds(s), StartMessage(s)
  PROVE  EcuHolds(s)' /\ (LosslessInv(s) => LosslessInv(s)')
<1>k. PICK k : k = current[s]
  OBVIOUS
<1>a. PICK all : all = FramesOf(s, k + 1)
  OBVIOUS
<1>1. /\ EcuInv(s) /\ WayInv(s) /\ TransferInv(s) /\ DeliveredInv(s)
      /\ k \in Nat /\ toSend[s] \in Seq(BusFrame) /\ toSend[s] = <<>> /\ k < Len(Script[s])
      /\ k + 1 \in 1..Len(Script[s]) /\ Len(Script[s]) \in Nat
  <2>1. Len(Script[s]) \in Nat
    BY FrameSizes
  <2>2. EcuInv(s) /\ WayInv(s) /\ TransferInv(s) /\ DeliveredInv(s)
    BY DEF EcuHolds
  <2>3. k \in Nat /\ toSend[s] \in Seq(BusFrame)
    <3> HIDE DEF BusFrame
    <3> QED BY <1>k DEF TablesInv
  <2>4. toSend[s] = <<>> /\ k < Len(Script[s])
    BY <1>k DEF StartMessage
  <2>5. k + 1 \in 1..Len(Script[s])
    BY <2>1, <2>3, <2>4
  <2> QED BY <2>1, <2>2, <2>3, <2>4, <2>5
<1>2. /\ current'[s] = k + 1 /\ toSend'[s] = all /\ allowed'[s] = FALSE
      /\ transfers'[s] = transfers[s] /\ delivered'[s] = delivered[s] /\ shortened' = shortened
      /\ Way' = Way
  <2>1. /\ current' = [current EXCEPT ![s] = @ + 1]
        /\ toSend' = [toSend EXCEPT ![s] = Segment(Message(s, current[s] + 1))]
        /\ allowed' = [allowed EXCEPT ![s] = FALSE]
        /\ frames' = frames /\ holding' = holding /\ transfers' = transfers
        /\ delivered' = delivered /\ shortened' = shortened
    BY DEF StartMessage
  <2>2. current \in [Sources -> Nat] /\ DOMAIN toSend = Sources /\ DOMAIN allowed = Sources
    BY DEF TablesInv
  <2> QED BY <1>k, <1>a, <2>1, <2>2 DEF FramesOf, Way
<1>3. /\ all \in Seq(BusFrame) /\ Len(all) \in Nat \ {0}
      /\ \A j \in 1..Len(all) : /\ all[j] \in BusFrame /\ Msg(all[j]) = k + 1
                                /\ Place(all[j]) = Spot(j)
  BY <1>1, <1>a, FramesSeq, FramesAre
<1>4. FramesOf(s, k + 1)' = all
  BY <1>a DEF FramesOf, Segment, Message, Frame, Padded, Consecutive, Following, Least
<1>5. From(s)' = From(s) /\ Sent(s)' = Sent(s)
  BY <1>2 DEF From, Sent
<1>6. Unsent(s) = {} /\ Unsent(s)' = {all[j] : j \in 1..Len(all)}
  <2>1. Len(toSend[s]) = 0
    BY <1>1
  <2>2. Unsent(s) = {}
    BY <2>1 DEF Unsent
  <2> QED BY <1>2, <2>2 DEF Unsent
<1>7. /\ ToCome(s) = Sent(s) /\ ToCome(s) \subseteq ToCome(s)'
      /\ \A f \in ToCome(s)' : f \in ToCome(s) \/ \E j \in 1..Len(all) : f = all[j]
      /\ \A j \in 1..Len(all) : all[j] \in ToCome(s)'
  BY <1>5, <1>6 DEF ToCome
<1>8. \A f \in Sent(s) : Known(s, f) /\ Msg(f) \in 1..k /\ f.pci # "FF"
  <2>1. ASSUME NEW f \in Sent(s) PROVE Known(s, f) /\ f.pci # "FF"
    <3>1. Genuine(s, f) /\ f.pci # "FF"
      BY <1>1 DEF WayInv
    <3> QED BY <1>1, <3>1, GenuineIs DEF EcuInv, TablesInv
  <2> QED BY <1>k, <2>1 DEF Known
<1>9. EcuInv(s)'
  <2>1. \A j \in 1..Len(all) : all[Len(all) - Len(all) + j] = all[j]
    BY <1>3
  <2> QED BY <1>1, <1>2, <1>3, <1>4, <2>1 DEF EcuInv
<1>10. WayInv(s)'
  <2>1. \A f \in Sent(s)' : Genuine(s, f)'
    <3>1. ASSUME NEW f \in Sent(s) PROVE Genuine(s, f)'
      <4>1. Genuine(s, f)
        BY <1>1 DEF WayInv
      <4>2. current[s] \in Nat /\ current'[s] \in Nat /\ current[s] <= current'[s]
        BY <1>1, <1>2, <1>k
      <4> QED BY <1>2, <4>1, <4>2, GenuineKept
    <3> QED BY <1>5, <3>1
  <2>2. \A p, q \in From(s)' : p < q => Before(Way'[p].frame, Way'[q].frame)
    BY <1>1, <1>2, <1>5 DEF WayInv
  <2>3. \A f \in Sent(s)', g \in Unsent(s)' : Before(f, g)
    <3>1. ASSUME NEW f \in Sent(s), NEW j \in 1..Len(all) PROVE Before(f, all[j])
      <4>1. Msg(f) \in 1..k /\ Msg(all[j]) = k + 1
        BY <1>3, <1>8
      <4> QED BY <1>1, <4>1 DEF Before
    <3> QED BY <1>5, <1>6, <3>1
  <2>4. \A f \in Sent(s)' : f.pci # "FF" /\ Msg(f) # current'[s]
    BY <1>1, <1>2, <1>5, <1>8
  <2> QED BY <2>1, <2>2, <2>3, <2>4 DEF WayInv
<1>11. TransferInv(s)'
  <2>1. \A f \in Coming(s)' : f \in Coming(s)
    BY <1>2, <1>5 DEF Coming
  <2>2. \A f \in Coming(s)' : \E g \in Coming(s) : Alike(f, g)
    BY <2>1 DEF Alike
  <2>3. current[s] \in Nat /\ current'[s] = current[s] + 1 /\ shortened \subseteq shortened'
    BY <1>1, <1>2, <1>k
  <2> QED BY <1>1, <1>2, <2>2, <2>3, TransferKept
<1>12. DeliveredInv(s)'
  <2>1. \A f \in ToCome(s)' : Msg(f) = current[s] + 1 \/ \E g \in ToCome(s) : Alike(f, g)
    BY <1>3, <1>7, <1>k DEF Alike
  <2>2. current[s] \in Nat /\ current'[s] \in Nat /\ current[s] <= current'[s]
        /\ shortened \subseteq shortened'
    BY <1>1, <1>2, <1>k
  <2> QED BY <1>1, <1>2, <2>1, <2>2, DeliveredKept
<1>13. ASSUME LosslessInv(s) PROVE LosslessInv(s)'
  <2>1. \A m, p : Awaited(s, m, p) => Awaited(s, m, p)'
    BY <1>7 DEF Awaited
  <2>2. Awaited(s, k + 1, 1)'
    <3>1. 1 \in 1..Len(all) /\ Spot(1) = 1
      BY <1>3 DEF Spot
    <3> QED BY <1>3, <1>7, <3>1 DEF Awaited
  <2>3. /\ Due(s)' = Due(s) /\ Size(s)' = Size(s) /\ \A i : Number(s, i)' = Number(s, i)
        /\ Due(s) \in Nat
    <3>1. Len(delivered[s]) \in Nat
      BY DeliveredCount
    <3> QED BY <1>2, <3>1 DEF Due, Size, Number
  <2>4. ASSUME NEW f \in Sent(s) PROVE GoesOn(s, f)'
    <3>1. GoesOn(s, f) /\ Msg(f) \in 1..k
      BY <1>7, <1>8, <1>13 DEF LosslessInv
    <3>2. CASE Long(s, Msg(f)) /\ NextPlace(f) <= Script[s][Msg(f)]
      BY <2>1, <3>1, <3>2 DEF GoesOn
    <3>3. CASE ~ (Long(s, Msg(f)) /\ NextPlace(f) <= Script[s][Msg(f)])
      <4>1. Msg(f) < k => Awaited(s, Msg(f) + 1, 1)
        BY <1>k, <3>1, <3>3 DEF GoesOn
      <4>2. Awaited(s, Msg(f) + 1, 1)'
        <5>1. CASE Msg(f) = k
          BY <2>2, <5>1
        <5>2. CASE Msg(f) # k
          BY <1>1, <2>1, <3>1, <4>1, <5>2
        <5> QED BY <5>1, <5>2
      <4> QED BY <3>3, <4>2 DEF GoesOn
    <3> QED BY <3>2, <3>3
  <2>5. ASSUME NEW j \in 1..Len(all) PROVE GoesOn(s, all[j])'
    <3>1. PICK f : f = all[j]
      OBVIOUS
    <3>2. j \in Nat \ {0} /\ Place(f) = Spot(j) /\ Msg(f) = k + 1
      BY <1>3, <3>1
    <3>3. /\ NextPlace(f) = Start(j) /\ Spot(j + 1) = Start(j)
          /\ Long(s, k + 1) => (Start(j) <= Script[s][k + 1] <=> j + 1 \in 1..Len(all))
      BY <1>1, <3>2, <1>a, FramesGoOn
    <3>4. CASE Long(s, k + 1) /\ NextPlace(f) <= Script[s][k + 1]
      <4>1. j + 1 \in 1..Len(all)
        BY <3>3, <3>4
      <4>2. Awaited(s, k + 1, NextPlace(f))'
        BY <1>3, <1>7, <3>3, <4>1 DEF Awaited
      <4> QED BY <3>1, <3>2, <3>4, <4>2 DEF GoesOn
    <3>5. CASE ~ (Long(s, k + 1) /\ NextPlace(f) <= Script[s][k + 1])
      <4>1. ~ (Msg(f) < current'[s])
        BY <1>1, <1>2, <3>2
      <4> QED BY <3>1, <3>2, <3>5, <4>1 DEF GoesOn
    <3> QED BY <3>4, <3>5
  <2>6. \A f \in ToCome(s)' : GoesOn(s, f)'
    BY <1>7, <2>4, <2>5
  <2>7. /\ \A i \in 1..Len(delivered[s]) : Number(s, i) = i
        /\ IF transfers[s] = NoTransfer
           THEN Due(s) <= k => Awaited(s, Due(s), 1)
           ELSE /\ transfers[s].buffer[1][2] = Due(s)
                /\ Awaited(s, Due(s), Size(s) + 1)
                /\ \E i \in Nat \ {0} : Size(s) = Start(i) - 1 /\ transfers[s].sn = i % SnMod
    BY <1>13, <1>k DEF LosslessInv
  <2>8. IF transfers'[s] = NoTransfer
        THEN Due(s)' <= current'[s] => Awaited(s, Due(s), 1)'
        ELSE /\ transfers'[s].buffer[1][2] = Due(s)'
             /\ Awaited(s, Due(s), Size(s) + 1)'
             /\ \E i \in Nat \ {0} : Size(s)' = Start(i) - 1 /\ transfers'[s].sn = i % SnMod
    <3>1. CASE transfers[s] = NoTransfer
      <4>1. ASSUME Due(s) <= k + 1 PROVE Awaited(s, Due(s), 1)'
        <5>1. CASE Due(s) = k + 1
          <6>1. Awaited(s, Due(s), 1)' <=> Awaited(s, k + 1, 1)'
            BY <2>3, <5>1 DEF Awaited
          <6> QED BY <2>2, <6>1
        <5>2. CASE Due(s) # k + 1
          <6>1. Awaited(s, Due(s), 1)
            BY <1>1, <2>3, <2>7, <3>1, <4>1, <5>2
          <6>2. \E f \in ToCome(s)' : Msg(f) = Due(s) /\ Place(f) = 1
            BY <1>7, <6>1 DEF Awaited
          <6> QED BY <2>3, <6>2 DEF Awaited
        <5> QED BY <5>1, <5>2
      <4> QED BY <1>2, <2>3, <3>1, <4>1
    <3>2. CASE transfers[s] # NoTransfer
      <4>1. Awaited(s, Due(s), Size(s) + 1)'
        BY <1>7, <2>3, <2>7, <3>2 DEF Awaited
      <4> QED BY <1>2, <2>3, <2>7, <3>2, <4>1
    <3> QED BY <3>1, <3>2
  <2>9. \A i \in 1..Len(delivered'[s]) : Number(s, i)' = i
    BY <1>2, <2>3, <2>7
  <2> QED BY <2>6, <2>8, <2>9 DEF LosslessInv
<1> QED BY <1>9, <1>10, <1>11, <1>12, <1>13 DEF EcuHolds

\* What an ECU has still to send.
LEMMA UnsentAre ==
  ASSUME TablesInv, NEW e \in Sources, EcuInv(e), toSend[e] # <<>>
  PROVE  /\ toSend[e] \in Seq(BusFrame)
         /\ \E k \in 1..Len(Script[e]), all \in Seq(BusFrame), off \in Nat, n \in Nat \ {0} :
              /\ k = current[e] /\ all = FramesOf(e, k) /\ n = Len(toSend[e])
              /\ Len(all) = off + n /\ (off = 0 => ~ allowed[e])
              /\ \A j \in 1..n :
                   /\ off + j \in 1..Len(all) /\ toSend[e][j] = all[off + j]
                   /\ toSend[e][j] \in BusFrame
                   /\ Msg(toSend[e][j]) = k /\ Place(toSend[e][j]) = Spot(off + j)
<1>k. PICK k, all : k = current[e] /\ all = FramesOf(e, k)
  OBVIOUS
<1>1. k \in Nat /\ toSend[e] \in Seq(BusFrame)
  <2> HIDE DEF BusFrame
  <2> QED BY <1>k DEF TablesInv
<1>2. PICK n \in Nat \ {0} : n = Len(toSend[e])
  <2> HIDE DEF BusFrame
  <2> QED BY <1>1
<1>3. /\ k <= Len(Script[e]) /\ k > 0 /\ n <= Len(all)
      /\ \A j \in 1..n : toSend[e][j] = all[Len(all) - n + j]
      /\ n = Len(all) => ~ allowed[e]
  BY <1>2, <1>k DEF EcuInv
<1>4. k \in 1..Len(Script[e]) /\ Len(Script[e]) \in Nat
  BY <1>1, <1>3, FrameSizes
<1>5. all \in Seq(BusFrame) /\ Len(all) \in Nat \ {0}
  BY <1>4, <1>k, FramesSeq
<1>6. PICK off \in Nat : Len(all) = off + n
  <2>1. Len(all) - n \in Nat /\ Len(all) = (Len(all) - n) + n
    BY <1>3, <1>5
  <2> QED BY <2>1
<1>7. off = 0 => ~ allowed[e]
  BY <1>3, <1>6
<1>8. ASSUME NEW j \in 1..n
      PROVE  /\ off + j \in 1..Len(all) /\ toSend[e][j] = all[off + j]
             /\ all[off + j] \in BusFrame
             /\ Msg(all[off + j]) = k /\ Place(all[off + j]) = Spot(off + j)
  <2>1. off + j \in 1..Len(all) /\ Len(all) - n + j = off + j
    BY <1>6
  <2>2. toSend[e][j] = all[off + j]
    BY <1>3, <2>1
  <2>3. PICK i \in 1..Len(all) : i = off + j
    BY <2>1
  <2>4. all[i] \in BusFrame /\ Msg(all[i]) = k /\ Place(all[i]) = Spot(i)
    BY <1>4, <1>k, FramesAre
  <2> QED BY <2>1, <2>2, <2>3, <2>4
<1> DEFINE Fits(h, frs, from, len) ==
             /\ h = current[e] /\ frs = FramesOf(e, h) /\ len = Len(toSend[e])
             /\ Len(frs) = from + len /\ (from = 0 => ~ allowed[e])
             /\ \A j \in 1..len :
                  /\ from + j \in 1..Len(frs) /\ toSend[e][j] = frs[from + j]
                  /\ toSend[e][j] \in BusFrame
                  /\ Msg(toSend[e][j]) = h /\ Place(toSend[e][j]) = Spot(from + j)
<1>9. Fits(k, all, off, n)
  <2> HIDE DEF BusFrame
  <2> QED BY <1>k, <1>2, <1>6, <1>7, <1>8
<1> HIDE DEF Fits
<1>10. \E h \in 1..Len(Script[e]), frs \in Seq(BusFrame), from \in Nat, len \in Nat \ {0} :
         Fits(h, frs, from, len)
  BY <1>4, <1>5, <1>9
<1> QED BY <1>1, <1>10, ZenonT(60) DEF Fits

\* An ECU gives up a message whose first frame was not answered: frames were lost.
LEMMA GiveUpKeepsOwn ==
  ASSUME TablesInv, WayTypes, NEW s \in Sources, EcuHolds(s), EcuGivesUp(s)
  PROVE  EcuHolds(s)' /\ ~ LosslessInv(s)
<1>1. /\ EcuInv(s) /\ WayInv(s) /\ TransferInv(s) /\ DeliveredInv(s)
      /\ current[s] \in Nat /\ toSend[s] # <<>> /\ Head(toSend[s]).pci = "CF" /\ ~ allowed[s]
      /\ holding = NoFrame /\ \A i \in DOMAIN frames : frames[i].src # s
  BY DEF EcuHolds, TablesInv, EcuGivesUp
<1>2. /\ current' = current /\ toSend'[s] = <<>> /\ allowed' = allowed
      /\ transfers' = transfers /\ delivered' = delivered /\ shortened' = shortened
      /\ Way' = Way
  <2>1. DOMAIN toSend = Sources
    BY DEF TablesInv
  <2> QED BY <2>1 DEF EcuGivesUp, Way
<1>3. From(s) = {} /\ Sent(s) = {} /\ From(s)' = {} /\ Sent(s)' = {}
  <2>1. Way = frames /\ frames \in Seq(Item)
    BY <1>1, WayIs DEF WayTypes
  <2>2. DOMAIN frames = 1..Len(frames)
    <3> HIDE DEF Item
    <3> QED BY <2>1
  <2>3. From(s) = {}
    BY <1>1, <2>1, <2>2 DEF From
  <2>4. From(s)' = From(s)
    BY <1>2 DEF From
  <2> QED BY <2>3, <2>4 DEF Sent
<1>4. Unsent(s)' = {}
  <2>1. Len(toSend'[s]) = 0
    BY <1>2
  <2> QED BY <2>1 DEF Unsent
<1>5. ToCome(s)' = {} /\ Coming(s)' = {} /\ ToCome(s) = Unsent(s)
  BY <1>3, <1>4 DEF ToCome, Coming
<1>6. EcuHolds(s)'
  <2>1. EcuInv(s)'
    BY <1>1, <1>2 DEF EcuInv
  <2>2. WayInv(s)'
    BY <1>3 DEF WayInv
  <2>3. TransferInv(s)'
    BY <1>1, <1>2, <1>5, TransferKept
  <2>4. DeliveredInv(s)'
    BY <1>1, <1>2, <1>5, DeliveredKept
  <2> QED BY <2>1, <2>2, <2>3, <2>4 DEF EcuHolds
<1>7. ASSUME LosslessInv(s) PROVE FALSE
  <2>1. toSend[s] \in Seq(BusFrame)
    BY <1>1, UnsentAre
  <2>2. PICK k \in 1..Len(Script[s]), all \in Seq(BusFrame), off \in Nat, n \in Nat \ {0} :
          /\ k = current[s] /\ all = FramesOf(s, k) /\ n = Len(toSend[s])
          /\ Len(all) = off + n /\ (off = 0 => ~ allowed[s])
          /\ \A j \in 1..n :
               /\ off + j \in 1..Len(all) /\ toSend[s][j] = all[off + j]
               /\ toSend[s][j] \in BusFrame
               /\ Msg(toSend[s][j]) = k /\ Place(toSend[s][j]) = Spot(off + j)
    <3>1. EcuInv(s) /\ toSend[s] # <<>>
      BY <1>1
    <3> QED BY <3>1, UnsentAre
  <2>4. off # 0
    <3>1. Head(toSend[s]) = toSend[s][1]
      <4> HIDE DEF BusFrame
      <4> QED BY <1>1, <2>1
    <3>2. ASSUME off = 0 PROVE FALSE
      <4>1. 1 \in 1..n /\ off + 1 = 1
        BY <3>2
      <4>2. toSend[s][1] = all[1]
        BY <2>2, <4>1
      <4>3. Opens(s, k, all[1])
        BY <2>2 DEF Opens
      <4>4. all[1].pci \in {"SF", "FF"}
        BY <2>2, <4>3, OpeningIs
      <4> QED BY <1>1, <3>1, <4>2, <4>4
    <3> QED BY <3>2
  <2>5. \A f \in ToCome(s) : Msg(f) = k /\ Place(f) # 1
    <3>1. ASSUME NEW j \in 1..n PROVE Msg(toSend[s][j]) = k /\ Place(toSend[s][j]) # 1
      <4>1. 1 \in Nat \ {0} /\ off + j \in Nat \ {0} /\ 1 < off + j
        BY <2>4
      <4>2. Spot(off + j) > FirstChunk /\ Spot(off + j) \in Nat
        BY <4>1, SpotsGrow
      <4>3. Place(toSend[s][j]) = Spot(off + j) /\ Msg(toSend[s][j]) = k
        BY <2>2
      <4> QED BY <4>2, <4>3, FrameSizes
    <3> QED BY <1>5, <2>2, <3>1 DEF Unsent
  <2>6. toSend[s][1] \in ToCome(s) /\ Msg(toSend[s][1]) = k
    <3>1. 1 \in 1..n
      OBVIOUS
    <3> QED BY <1>5, <2>2, <3>1 DEF Unsent
  <2>7. Due(s) <= k
    <3>1. PICK m \in Nat : m = Len(delivered[s])
      BY DeliveredCount
    <3>2. ASSUME m # 0 PROVE m < k
      <4>1. m \in 1..m
        BY <3>2
      <4>2. Number(s, m) = m
        BY <1>7, <3>1, <4>1 DEF LosslessInv
      <4>3. \A f \in ToCome(s) : Number(s, m) < Msg(f)
        BY <1>1, <3>1, <4>1 DEF DeliveredInv
      <4> QED BY <2>6, <4>2, <4>3
    <3>3. m < k
      <4>1. k \in Nat \ {0}
        BY <2>2, FrameSizes
      <4> QED BY <3>2, <4>1
    <3>4. k \in Nat
      BY <1>1, <2>2
    <3> QED BY <3>1, <3>3, <3>4 DEF Due
  <2>8. CASE transfers[s] = NoTransfer
    <3>1. Awaited(s, Due(s), 1)
      BY <1>7, <2>2, <2>7, <2>8 DEF LosslessInv
    <3> QED BY <2>5, <3>1 DEF Awaited
  <2>9. CASE transfers[s] # NoTransfer
    <3>1. PICK h \in 1..current[s] : IsTransferOf(s, h)
      BY <1>1, <2>9 DEF TransferInv
    <3>2. transfers[s].buffer[1][2] = Due(s) /\ Awaited(s, Due(s), Size(s) + 1)
      BY <1>7, <2>9 DEF LosslessInv
    <3>3. transfers[s].buffer[1] = <<s, h, 1>> /\ (h = current[s] => allowed[s])
      BY <3>1 DEF IsTransferOf
    <3>4. h = Due(s)
      BY <3>2, <3>3
    <3>5. h = k
      BY <2>5, <3>2, <3>4 DEF Awaited
    <3> QED BY <1>1, <2>2, <3>3, <3>5
  <2> QED BY <2>8, <2>9
<1> QED BY <1>6, <1>7

\* Beginning a message and giving one up are seen by its own ECU alone.
LEMMA TurnKeeps ==
  ASSUME FramesInv, NEW s \in Sources, StartMessage(s) \/ EcuGivesUp(s)
  PROVE  FramesInv'
<1>1. /\ CountsInv /\ WayTypes /\ TablesInv
      /\ \A e \in Sources : EcuHolds(e) /\ (NothingLost => LosslessInv(e))
  BY DEF FramesInv
<1>2. EcuHolds(s)' /\ (LosslessInv(s) => LosslessInv(s)')
  BY <1>1, StartKeepsOwn, GiveUpKeepsOwn
<1>3. /\ frames' = frames /\ holding' = holding /\ sawFull' = sawFull
      /\ transfers' = transfers /\ delivered' = delivered /\ dropped' = dropped
      /\ requests' = requests /\ shortened' = shortened
  BY DEF StartMessage, EcuGivesUp
<1>4. CountsInv' /\ WayTypes' /\ (NothingLost' => NothingLost) /\ Way' = Way
  BY <1>1, <1>3 DEF CountsInv, WayTypes, NothingLost, Way
<1>5. TablesInv'
  <2>1. /\ current \in [Sources -> Nat] /\ toSend \in [Sources -> Seq(BusFrame)]
        /\ allowed \in [Sources -> BOOLEAN]
    BY <1>1 DEF TablesInv
  <2>2. /\ current' \in [Sources -> Nat] /\ toSend' \in [Sources -> Seq(BusFrame)]
        /\ allowed' \in [Sources -> BOOLEAN]
    <3>1. CASE StartMessage(s)
      <4>1. current[s] + 1 \in 1..Len(Script[s]) /\ current[s] + 1 \in Nat
        <5>1. current[s] \in Nat /\ Len(Script[s]) \in Nat /\ current[s] < Len(Script[s])
          BY <2>1, <3>1, FrameSizes DEF StartMessage
        <5> QED BY <5>1
      <4>2. Segment(Message(s, current[s] + 1)) \in Seq(BusFrame)
        BY <4>1, FramesSeq DEF FramesOf
      <4> HIDE DEF BusFrame
      <4> QED BY <2>1, <3>1, <4>1, <4>2 DEF StartMessage
    <3>2. CASE EcuGivesUp(s)
      <4> HIDE DEF BusFrame
      <4>1. <<>> \in Seq(BusFrame)
        OBVIOUS
      <4> QED BY <2>1, <3>2, <4>1 DEF EcuGivesUp
    <3> QED BY <3>1, <3>2
  <2> QED BY <1>1, <1>3, <2>2 DEF TablesInv
<1>6. ASSUME NEW e \in Sources, e # s PROVE EcuHolds(e)' /\ (NothingLost' => LosslessInv(e)')
  <2>1. current'[e] = current[e] /\ toSend'[e] = toSend[e] /\ allowed'[e] = allowed[e]
    BY <1>1, <1>6 DEF TablesInv, StartMessage, EcuGivesUp
  <2>2. From(e)' = From(e) /\ Sent(e)' = Sent(e)
    BY <1>4 DEF From, Sent
  <2>3. \A p, q \in From(e)' : p < q => Before(Way'[p].frame, Way'[q].frame)
    BY <1>1, <1>4, <2>2 DEF EcuHolds, WayInv
  <2>4. EcuHolds(e)' /\ (LosslessInv(e) => LosslessInv(e)')
    BY <1>1, <1>3, <2>1, <2>2, <2>3, Untouched
  <2> QED BY <1>1, <1>4, <2>4
<1>7. \A e \in Sources : EcuHolds(e)' /\ (NothingLost' => LosslessInv(e)')
  BY <1>1, <1>2, <1>4, <1>6
<1> QED BY <1>4, <1>5, <1>7 DEF FramesInv

\* A frame an ECU sends, as the bus carries it.
LEMMA SentAre ==
  ASSUME TablesInv, NEW s \in Sources, EcuInv(s), SendFrame(s)
  PROVE  \E k \in 1..Len(Script[s]), all \in Seq(BusFrame), off \in Nat, n \in Nat \ {0},
            x \in BusFrame :
           /\ k = current[s] /\ all = FramesOf(s, k) /\ n = Len(toSend[s])
           /\ Len(all) = off + n /\ (off = 0 => ~ allowed[s])
           /\ \A j \in 1..n :
                /\ off + j \in 1..Len(all) /\ toSend[s][j] = all[off + j]
                /\ toSend[s][j] \in BusFrame
                /\ Msg(toSend[s][j]) = k /\ Place(toSend[s][j]) = Spot(off + j)
           /\ Arrives(s, x) /\ x \notin Malformed /\ Alike(x, toSend[s][1])
           /\ x.pci = toSend[s][1].pci
           /\ (x.pci = "CF" => allowed[s]) /\ (x.pci = "FF" => off = 0)
           /\ shortened \subseteq shortened'
           /\ Opens(s, k, x) \/ (\E i \in Nat : Follows(s, k, i, x)')
<1>1. toSend[s] # <<>> /\ toSend[s] \in Seq(BusFrame)
  BY UnsentAre DEF SendFrame
<1>2. PICK k \in 1..Len(Script[s]), all \in Seq(BusFrame), off \in Nat, n \in Nat \ {0} :
        /\ k = current[s] /\ all = FramesOf(s, k) /\ n = Len(toSend[s])
        /\ Len(all) = off + n /\ (off = 0 => ~ allowed[s])
        /\ \A j \in 1..n :
             /\ off + j \in 1..Len(all) /\ toSend[s][j] = all[off + j]
             /\ toSend[s][j] \in BusFrame
             /\ Msg(toSend[s][j]) = k /\ Place(toSend[s][j]) = Spot(off + j)
  <2>1. EcuInv(s) /\ toSend[s] # <<>>
    BY <1>1
  <2> QED BY <2>1, UnsentAre
<1>3. PICK f : f = toSend[s][1]
  OBVIOUS
<1>4. 1 \in 1..n /\ off + 1 \in 1..Len(all) /\ f = all[off + 1] /\ f \in BusFrame
      /\ Msg(f) = k /\ Place(f) = Spot(off + 1) /\ Head(toSend[s]) = f
  <2>1. 1 \in 1..n
    OBVIOUS
  <2>2. Head(toSend[s]) = toSend[s][1]
    <3> HIDE DEF BusFrame
    <3> QED BY <1>1
  <2> QED BY <1>2, <1>3, <2>1, <2>2
<1>5. /\ f.pci = "CF" => allowed[s]
      /\ \/ Arrives(s, f) /\ shortened' = shortened
         \/ /\ f.pci = "CF" /\ Arrives(s, Short(f))
            /\ shortened' = shortened \cup {<<s, current[s]>>}
  BY <1>4 DEF SendFrame
<1>6. \/ off = 0 /\ Opens(s, k, f) /\ f.pci \in {"SF", "FF"} /\ f \notin Malformed
      \/ /\ off \in Nat \ {0} /\ Long(s, k) /\ off \in 1..Following(Script[s][k])
         /\ f.pci = "CF" /\ f.n = off % SnMod /\ f \notin Malformed
         /\ Short(f) \in BusFrame /\ Short(f).pci = "CF" /\ Short(f) \notin Malformed
         /\ Msg(Short(f)) = k /\ Place(Short(f)) = Spot(off + 1)
  <2>1. CASE off = 0
    <3>1. Opens(s, k, f)
      BY <1>2, <1>4, <2>1 DEF Opens
    <3>2. /\ f.n = Script[s][k]
          /\ ~ Long(s, k) => f.pci = "SF" /\ f.n \in 1..SingleMax
          /\ Long(s, k) => f.pci = "FF" /\ f.n > SingleMax
      BY <3>1, OpeningIs
    <3>3. Script[s][k] \in Nat \ {0} /\ SingleMax \in Nat \ {0}
      BY FrameSizes
    <3>4. f \notin Malformed
      BY <3>2, <3>3 DEF Malformed, Frame
    <3> QED BY <2>1, <3>1, <3>2, <3>4
  <2>2. CASE off # 0
    <3>1. Len(all) # 1
      BY <1>2, <2>2
    <3>2. Long(s, k) /\ Following(Script[s][k]) \in Nat /\ Len(all) = 1 + Following(Script[s][k])
      BY <1>2, <3>1, FramesSeq
    <3>3. /\ off \in 1..Following(Script[s][k]) /\ off \in Nat \ {0}
          /\ off + 1 # 1 /\ off + 1 - 1 = off
      BY <1>4, <2>2, <3>2
    <3>4. Spot(off + 1) = Start(off)
      BY <3>3 DEF Spot
    <3>5. PICK g : g = Short(f)
      OBVIOUS
    <3>6. f = FramesOf(s, k)[off + 1]
      BY <1>2, <1>4
    <3>7. f.pci = "CF" /\ f.n = off % SnMod /\ f \notin Malformed
      BY <3>2, <3>3, <3>6, PartIs
    <3>8. /\ g \in BusFrame /\ g.pci = "CF" /\ g \notin Malformed
          /\ Msg(g) = k /\ Place(g) = Start(off)
      BY <3>2, <3>3, <3>5, <3>6, PartIs
    <3> QED BY <3>2, <3>3, <3>4, <3>5, <3>7, <3>8
  <2> QED BY <2>1, <2>2
<1>7. ASSUME off \in Nat \ {0}, NEW x, x = f \/ (x = Short(f) /\ <<s, k>> \in shortened')
      PROVE  Follows(s, k, off, x)'
  <2>1. Long(s, k) /\ off \in 1..Following(Script[s][k]) /\ f = FramesOf(s, k)[off + 1]
    BY <1>2, <1>4, <1>6, <1>7
  <2> QED BY <1>7, <2>1 DEF Follows
<1> DEFINE Fits(h, frs, from, len, x) ==
             /\ h = current[s] /\ frs = FramesOf(s, h) /\ len = Len(toSend[s])
             /\ Len(frs) = from + len /\ (from = 0 => ~ allowed[s])
             /\ \A j \in 1..len :
                  /\ from + j \in 1..Len(frs) /\ toSend[s][j] = frs[from + j]
                  /\ toSend[s][j] \in BusFrame
                  /\ Msg(toSend[s][j]) = h /\ Place(toSend[s][j]) = Spot(from + j)
             /\ Arrives(s, x) /\ x \notin Malformed /\ Alike(x, toSend[s][1])
             /\ x.pci = toSend[s][1].pci
             /\ (x.pci = "CF" => allowed[s]) /\ (x.pci = "FF" => from = 0)
             /\ shortened \subseteq shortened'
             /\ Opens(s, h, x) \/ (\E i \in Nat : Follows(s, h, i, x)')
<1>8. ASSUME Arrives(s, f), shortened' = shortened PROVE Fits(k, all, off, n, f)
  <2>1. Opens(s, k, f) \/ (\E i \in Nat : Follows(s, k, i, f)')
    BY <1>6, <1>7
  <2>2. f \notin Malformed /\ (f.pci = "FF" => off = 0) /\ Alike(f, toSend[s][1])
    BY <1>3, <1>6 DEF Alike
  <2> QED BY <1>2, <1>3, <1>5, <1>8, <2>1, <2>2
<1>9. ASSUME f.pci = "CF", Arrives(s, Short(f)), shortened' = shortened \cup {<<s, current[s]>>}
      PROVE  Fits(k, all, off, n, Short(f)) /\ Short(f) \in BusFrame
  <2>1. PICK g : g = Short(f)
    OBVIOUS
  <2>2. /\ off \in Nat \ {0} /\ g \in BusFrame /\ g.pci = "CF" /\ g \notin Malformed
        /\ Msg(g) = k /\ Place(g) = Spot(off + 1)
    BY <1>6, <1>9, <2>1
  <2>3. Follows(s, k, off, g)'
    BY <1>2, <1>7, <1>9, <2>1, <2>2
  <2>4. Alike(g, toSend[s][1])
    BY <1>3, <1>4, <2>2 DEF Alike
  <2>5. Fits(k, all, off, n, g)
    BY <1>2, <1>3, <1>5, <1>9, <2>1, <2>2, <2>3, <2>4
  <2> QED BY <2>1, <2>2, <2>5
<1> HIDE DEF Fits
<1>10. \E h \in 1..Len(Script[s]), frs \in Seq(BusFrame), from \in Nat, len \in Nat \ {0},
          x \in BusFrame : Fits(h, frs, from, len, x)
  BY <1>4, <1>5, <1>8, <1>9
<1> QED BY <1>10, ZenonT(60) DEF Fits

\* The frame it sends was the first of those it had to send, and follows on those under way.
LEMMA SendKeepsOwn ==
  ASSUME TablesInv, WayTypes, NEW s \in Sources, EcuHolds(s), SendFrame(s)
  PROVE  EcuHolds(s)' /\ (LosslessInv(s) => LosslessInv(s)') /\ shortened \subseteq shortened'
<1>1. /\ EcuInv(s) /\ WayInv(s) /\ TransferInv(s) /\ DeliveredInv(s)
      /\ current[s] \in Nat /\ toSend[s] # <<>> /\ (Head(toSend[s]).pci = "CF" => allowed[s])
  BY DEF EcuHolds, TablesInv, SendFrame
<1>2. toSend[s] \in Seq(BusFrame) /\ Len(toSend[s]) \in Nat /\ Head(toSend[s]) = toSend[s][1]
  <2>1. toSend[s] \in Seq(BusFrame)
    BY <1>1, UnsentAre
  <2> HIDE DEF BusFrame
  <2> QED BY <1>1, <2>1
<1>3. PICK k \in 1..Len(Script[s]), all \in Seq(BusFrame), off \in Nat, n \in Nat \ {0},
           x \in BusFrame :
        /\ k = current[s] /\ all = FramesOf(s, k) /\ n = Len(toSend[s])
        /\ Len(all) = off + n /\ (off = 0 => ~ allowed[s])
        /\ \A j \in 1..n :
             /\ off + j \in 1..Len(all) /\ toSend[s][j] = all[off + j]
             /\ toSend[s][j] \in BusFrame
             /\ Msg(toSend[s][j]) = k /\ Place(toSend[s][j]) = Spot(off + j)
        /\ Arrives(s, x) /\ x \notin Malformed /\ Alike(x, toSend[s][1])
        /\ x.pci = toSend[s][1].pci
        /\ (x.pci = "CF" => allowed[s]) /\ (x.pci = "FF" => off = 0)
        /\ shortened \subseteq shortened'
        /\ Opens(s, k, x) \/ (\E i \in Nat : Follows(s, k, i, x)')
  BY <1>1, SentAre
<1>4. PICK f : f = toSend[s][1]
  OBVIOUS
<1>5. /\ f.pci = x.pci /\ Msg(x) = k /\ Place(x) = Spot(off + 1) /\ Msg(f) = k
      /\ Place(f) = Spot(off + 1) /\ 1 \in 1..n
  <2>1. 1 \in 1..n
    OBVIOUS
  <2> QED BY <1>3, <1>4, <2>1 DEF Alike
<1>6. /\ current'[s] = current[s] /\ allowed'[s] = allowed[s] /\ transfers'[s] = transfers[s]
      /\ delivered'[s] = delivered[s] /\ toSend'[s] = Tail(toSend[s])
      /\ frames' = frames /\ sawFull' = sawFull
  <2>1. DOMAIN toSend = Sources
    BY DEF TablesInv
  <2> QED BY <2>1 DEF SendFrame
<1>7. /\ Sent(s)' = Sent(s) \cup {x}
      /\ (\A g \in Sent(s) : Before(g, x)) =>
           \A p, q \in From(s)' : p < q => Before(Way'[p].frame, Way'[q].frame)
  BY <1>1, <1>3, <1>6, WayGrows
<1>8. /\ Tail(toSend[s]) \in Seq(BusFrame) /\ Len(Tail(toSend[s])) = n - 1
      /\ \A j \in 1..(n - 1) : Tail(toSend[s])[j] = toSend[s][j + 1] /\ j + 1 \in 1..n
  <2>1. \A j \in 1..(n - 1) : j + 1 \in 1..n
    OBVIOUS
  <2> HIDE DEF BusFrame
  <2>2. /\ Tail(toSend[s]) \in Seq(BusFrame) /\ Len(Tail(toSend[s])) = Len(toSend[s]) - 1
        /\ \A j \in 1..(Len(toSend[s]) - 1) : Tail(toSend[s])[j] = toSend[s][j + 1]
    BY <1>1, <1>2
  <2> QED BY <1>3, <2>1, <2>2
<1>9. /\ Unsent(s)' \subseteq Unsent(s) /\ f \in Unsent(s)
      /\ \A g \in Unsent(s) : g = f \/ g \in Unsent(s)'
      /\ \A g \in Unsent(s)' : \E j \in 1..(n - 1) : g = toSend[s][j + 1]
  <2>1. ASSUME NEW g \in Unsent(s)' PROVE \E j \in 1..(n - 1) : g = toSend[s][j + 1]
    <3>1. PICK j \in 1..(n - 1) : g = Tail(toSend[s])[j]
      BY <1>6, <1>8 DEF Unsent
    <3> QED BY <1>8, <3>1
  <2>2. ASSUME NEW g \in Unsent(s), g # f PROVE g \in Unsent(s)'
    <3>1. PICK j \in 1..n : g = toSend[s][j]
      BY <1>3 DEF Unsent
    <3>2. j # 1
      BY <1>4, <2>2, <3>1
    <3>3. PICK i \in 1..(n - 1) : j = i + 1
      <4>1. j - 1 \in 1..(n - 1) /\ j = (j - 1) + 1
        BY <3>2
      <4> QED BY <4>1
    <3>4. g = toSend'[s][i] /\ i \in 1..Len(toSend'[s])
      BY <1>6, <1>8, <3>1, <3>3
    <3> QED BY <3>4 DEF Unsent
  <2>3. f \in Unsent(s) /\ \A j \in 1..(n - 1) : toSend[s][j + 1] \in Unsent(s)
    BY <1>3, <1>4, <1>5, <1>8 DEF Unsent
  <2> QED BY <2>1, <2>2, <2>3
<1>10. \A g \in Sent(s) : Before(g, x) /\ g.pci # "FF"
  <2>1. ASSUME NEW g \in Sent(s) PROVE Before(g, x)
    <3>1. Before(g, f)
      BY <1>1, <1>9 DEF WayInv
    <3> QED BY <1>5, <3>1 DEF Before
  <2>2. ASSUME NEW g \in Sent(s), g.pci = "FF" PROVE FALSE
    BY <1>1, <2>2 DEF WayInv
  <2> QED BY <2>1, <2>2
<1>11. EcuInv(s)'
  <2>1. ASSUME toSend'[s] # <<>>
        PROVE  /\ n - 1 <= Len(all) /\ n - 1 # Len(all)
               /\ \A j \in 1..(n - 1) : toSend'[s][j] = all[Len(all) - (n - 1) + j]
    <3>1. n - 1 <= Len(all) /\ n - 1 # Len(all)
      BY <1>3
    <3>2. ASSUME NEW j \in 1..(n - 1) PROVE toSend'[s][j] = all[Len(all) - (n - 1) + j]
      <4>1. PICK m \in Nat : m = Len(all) /\ m = off + n
        BY <1>3
      <4>2. m - (n - 1) + j = off + (j + 1)
        BY <4>1
      <4>3. toSend'[s][j] = toSend[s][j + 1] /\ j + 1 \in 1..n
        BY <1>6, <1>8
      <4>4. toSend[s][j + 1] = all[off + (j + 1)]
        BY <1>3, <4>3
      <4> QED BY <4>1, <4>2, <4>3, <4>4
    <3> QED BY <3>1, <3>2
  <2>2. current[s] <= Len(Script[s]) /\ current[s] > 0
    BY <1>1 DEF EcuInv
  <2>3. current'[s] = k /\ k <= Len(Script[s]) /\ k > 0 /\ Len(toSend'[s]) = n - 1
    BY <1>3, <1>6, <1>8, <2>2
  <2> HIDE DEF FramesOf
  <2> QED BY <1>3, <2>1, <2>3 DEF EcuInv
<1>12. WayInv(s)'
  <2>1. \A g \in Sent(s)' : Genuine(s, g)'
    <3>1. ASSUME NEW g \in Sent(s) PROVE Genuine(s, g)'
      <4>1. Genuine(s, g)
        BY <1>1 DEF WayInv
      <4>2. current'[s] \in Nat /\ current[s] <= current'[s] /\ shortened \subseteq shortened'
        BY <1>1, <1>3, <1>6
      <4> QED BY <1>1, <4>1, <4>2, GenuineKept
    <3>2. Genuine(s, x)'
      <4>1. k \in 1..current'[s]
        BY <1>1, <1>3, <1>6
      <4>2. Opens(s, k, x) => Opens(s, k, x)'
        BY DEF Opens, FramesOf, Segment, Message, Frame, Padded, Consecutive, Following, Least
      <4> QED BY <1>3, <4>1, <4>2 DEF Genuine
    <3> QED BY <1>7, <3>1, <3>2
  <2>2. \A p, q \in From(s)' : p < q => Before(Way'[p].frame, Way'[q].frame)
    BY <1>7, <1>10
  <2>3. \A g \in Sent(s)', h \in Unsent(s)' : Before(g, h)
    <3>1. \A g \in Sent(s), h \in Unsent(s)' : Before(g, h)
      BY <1>1, <1>9 DEF WayInv
    <3>2. ASSUME NEW j \in 1..(n - 1) PROVE Before(x, toSend[s][j + 1])
      <4>1. Msg(toSend[s][j + 1]) = k /\ Place(toSend[s][j + 1]) = Spot(off + (j + 1))
        BY <1>3, <1>8
      <4>2. off + 1 \in Nat \ {0} /\ off + (j + 1) \in Nat \ {0} /\ off + 1 < off + (j + 1)
        OBVIOUS
      <4>3. Spot(off + 1) < Spot(off + (j + 1))
        BY <4>2, SpotsGrow
      <4> QED BY <1>5, <4>1, <4>3 DEF Before
    <3> QED BY <1>7, <1>9, <3>1, <3>2
  <2>4. \A g \in Sent(s)' : g.pci = "FF" => /\ Msg(g) = current'[s] /\ ~ allowed'[s]
                                            /\ toSend'[s] # <<>> /\ Head(toSend'[s]).pci = "CF"
    <3>1. ASSUME x.pci = "FF" PROVE /\ ~ allowed'[s] /\ toSend'[s] # <<>>
                                    /\ Head(toSend'[s]).pci = "CF"
      <4>1. off = 0 /\ Len(all) = n
        BY <1>3, <3>1
      <4>2. f = all[1] /\ Opens(s, k, f)
        BY <1>3, <1>4, <1>5, <4>1 DEF Opens
      <4>3. Long(s, k)
        BY <1>5, <3>1, <4>2, OpeningIs
      <4>4. 1 \in Nat \ {0} /\ Start(1) <= Script[s][k]
        <5>1. Script[s][k] > SingleMax /\ Script[s][k] \in Nat
          BY <4>3, FrameSizes DEF Long
        <5> QED BY <5>1, FrameSizes DEF Start
      <4>5. Place(f) = Spot(1)
        BY <1>5, <4>1
      <4>6. 1 + 1 \in 1..Len(FramesOf(s, k))
        BY <4>3, <4>4, <4>5, FramesGoOn
      <4>7. 2 \in 1..n /\ 1 \in 1..(n - 1)
        BY <1>3, <4>1, <4>6
      <4>8. toSend'[s] # <<>> /\ Head(toSend'[s]) = toSend[s][2]
        <5>1. Len(toSend'[s]) = n - 1 /\ toSend'[s] \in Seq(BusFrame)
          BY <1>6, <1>8
        <5>2. toSend'[s][1] = toSend[s][2]
          BY <1>6, <1>8, <4>7
        <5> HIDE DEF BusFrame
        <5> QED BY <4>7, <5>1, <5>2
      <4>9. toSend[s][2] = all[2]
        BY <1>3, <4>1, <4>7
      <4>10. PICK g : g = all[2] /\ g = FramesOf(s, k)[2]
        BY <1>3
      <4>11. Follows(s, k, 1, g)
        <5>1. 2 \in 1..Len(FramesOf(s, k)) /\ 2 # 1 /\ 2 - 1 = 1
          BY <4>6
        <5> QED BY <4>10, <5>1, FramesAre
      <4>12. g.pci = "CF"
        BY <4>11, FollowIs
      <4> QED BY <1>3, <1>6, <4>1, <4>8, <4>9, <4>10, <4>12
    <3> QED BY <1>3, <1>5, <1>6, <1>7, <1>10, <3>1
  <2>5. \A g \in Sent(s)' : g.pci = "CF" /\ Msg(g) = current'[s] => allowed'[s]
    <3>1. \A g \in Sent(s) : g.pci = "CF" /\ Msg(g) = current[s] => allowed[s]
      BY <1>1 DEF WayInv
    <3> QED BY <1>3, <1>6, <1>7, <3>1
  <2> QED BY <2>1, <2>2, <2>3, <2>4, <2>5 DEF WayInv
<1>13. \A g : Alike(g, g) /\ Alike(x, f) /\ Alike(f, x)
  BY <1>5 DEF Alike
<1>14. TransferInv(s)'
  <2>1. \A g \in Coming(s)' : \E h \in Coming(s) : Alike(g, h)
    <3>1. \A g \in Sent(s) : g.pci = "CF" => g \in Coming(s)
      BY DEF Coming
    <3>2. allowed[s] => Unsent(s) \subseteq Coming(s)
      BY DEF Coming
    <3>3. ASSUME NEW g \in Coming(s)' PROVE \E h \in Coming(s) : Alike(g, h)
      <4>1. \/ g \in Sent(s) /\ g.pci = "CF"
            \/ g = x /\ x.pci = "CF"
            \/ allowed[s] /\ g \in Unsent(s)'
        BY <1>6, <1>7 DEF Coming
      <4> QED BY <1>3, <1>9, <1>13, <3>1, <3>2, <4>1
    <3> QED BY <3>3
  <2> QED BY <1>1, <1>3, <1>6, <2>1, TransferKept
<1>15. /\ \A g \in ToCome(s)' : \E h \in ToCome(s) : Alike(g, h)
       /\ \A g \in ToCome(s) : \E h \in ToCome(s)' : Alike(g, h)
  <2>1. ToCome(s)' = Sent(s) \cup {x} \cup Unsent(s)' /\ ToCome(s) = Sent(s) \cup Unsent(s)
    BY <1>7 DEF ToCome
  <2> QED BY <1>9, <1>13, <2>1
<1>16. DeliveredInv(s)'
  <2>1. current'[s] \in Nat /\ current[s] <= current'[s] /\ shortened \subseteq shortened'
    BY <1>1, <1>3, <1>6
  <2> QED BY <1>1, <1>6, <1>15, <2>1, DeliveredKept
<1>17. LosslessInv(s) => LosslessInv(s)'
  BY <1>6, <1>15, LosslessKept
<1> QED BY <1>3, <1>11, <1>12, <1>14, <1>16, <1>17 DEF EcuHolds

\* An ECU sends a frame.
LEMMA SendKeeps ==
  ASSUME FramesInv, NEW s \in Sources, SendFrame(s)
  PROVE  FramesInv'
<1>1. /\ CountsInv /\ WayTypes /\ TablesInv
      /\ \A e \in Sources : EcuHolds(e) /\ (NothingLost => LosslessInv(e))
  BY DEF FramesInv
<1>2. EcuHolds(s)' /\ (LosslessInv(s) => LosslessInv(s)') /\ shortened \subseteq shortened'
  BY <1>1, SendKeepsOwn
<1>3. /\ current' = current /\ toSend' = [toSend EXCEPT ![s] = Tail(@)] /\ allowed' = allowed
      /\ frames' = frames /\ sawFull' = sawFull /\ transfers' = transfers
      /\ delivered' = delivered /\ dropped' = dropped /\ requests' = requests
  BY DEF SendFrame
<1>4. CountsInv' /\ (NothingLost' => NothingLost)
  BY <1>1, <1>2, <1>3 DEF CountsInv, NothingLost
<1>5. TablesInv'
  <2>1. toSend \in [Sources -> Seq(BusFrame)] /\ toSend[s] # <<>>
    BY <1>1 DEF TablesInv, SendFrame
  <2>2. toSend' \in [Sources -> Seq(BusFrame)]
    <3> HIDE DEF BusFrame
    <3>1. Tail(toSend[s]) \in Seq(BusFrame)
      BY <2>1
    <3> QED BY <1>3, <2>1, <3>1
  <2> QED BY <1>1, <1>3, <2>2 DEF TablesInv
<1>6. PICK x \in BusFrame : Arrives(s, x)
  <2>1. EcuInv(s)
    BY <1>1 DEF EcuHolds
  <2> QED BY <1>1, <2>1, SentAre
<1>7. /\ WayTypes'
      /\ \A e \in Sources : e # s =>
           /\ Sent(e)' = Sent(e)
           /\ WayInv(e) => \A p, q \in From(e)' : p < q => Before(Way'[p].frame, Way'[q].frame)
  BY <1>1, <1>3, <1>6, WayGrows
<1>8. ASSUME NEW e \in Sources, e # s PROVE EcuHolds(e)' /\ (NothingLost' => LosslessInv(e)')
  <2>1. /\ current'[e] = current[e] /\ toSend'[e] = toSend[e] /\ allowed'[e] = allowed[e]
        /\ transfers'[e] = transfers[e] /\ delivered'[e] = delivered[e]
    BY <1>1, <1>3, <1>8 DEF TablesInv
  <2>2. /\ Sent(e)' = Sent(e)
        /\ \A p, q \in From(e)' : p < q => Before(Way'[p].frame, Way'[q].frame)
    BY <1>1, <1>7, <1>8 DEF EcuHolds
  <2>3. EcuHolds(e)' /\ (LosslessInv(e) => LosslessInv(e)')
    BY <1>1, <1>2, <2>1, <2>2, Untouched
  <2> QED BY <1>1, <1>4, <2>3
<1>9. \A e \in Sources : EcuHolds(e)' /\ (NothingLost' => LosslessInv(e)')
  BY <1>1, <1>2, <1>4, <1>8
<1> QED BY <1>4, <1>5, <1>7, <1>9 DEF FramesInv

\* Everything still to come is of a message its ECU has begun.
LEMMA ToComeAre ==
  ASSUME TablesInv, NEW e \in Sources, EcuInv(e), WayInv(e)
  PROVE  \A f \in ToCome(e) : Known(e, f)
<1>1. current \in [Sources -> Nat] /\ current[e] <= Len(Script[e]) /\ current[e] \in Nat
  BY DEF TablesInv, EcuInv
<1>2. \A f \in Sent(e) : Known(e, f)
  BY <1>1, GenuineIs DEF WayInv
<1>3. ASSUME NEW f \in Unsent(e) PROVE Known(e, f)
  <2>1. PICK i \in 1..Len(toSend[e]) : f = toSend[e][i]
    BY DEF Unsent
  <2>2. toSend[e] # <<>>
    <3>1. ASSUME toSend[e] = <<>> PROVE FALSE
      <4>1. Len(toSend[e]) = 0
        BY <3>1
      <4> QED BY <2>1, <4>1
    <3> QED BY <3>1
  <2>3. PICK k \in 1..Len(Script[e]), all \in Seq(BusFrame), off \in Nat, n \in Nat \ {0} :
          /\ k = current[e] /\ all = FramesOf(e, k) /\ n = Len(toSend[e])
          /\ Len(all) = off + n /\ (off = 0 => ~ allowed[e])
          /\ \A j \in 1..n :
               /\ off + j \in 1..Len(all) /\ toSend[e][j] = all[off + j]
               /\ toSend[e][j] \in BusFrame
               /\ Msg(toSend[e][j]) = k /\ Place(toSend[e][j]) = Spot(off + j)
    BY <2>2, UnsentAre
  <2>4. PICK j \in 1..Len(FramesOf(e, k)) : f = FramesOf(e, k)[j]
    BY <2>1, <2>3
  <2>5. Opens(e, k, f) \/ (j - 1 \in Nat /\ Follows(e, k, j - 1, f))
    BY <2>4, FramesAre
  <2>6. k \in 1..current[e]
    BY <1>1, <2>3
  <2>7. Genuine(e, f)
    BY <2>5, <2>6 DEF Genuine
  <2> QED BY <1>1, <2>7, GenuineIs
<1> QED BY <1>2, <1>3 DEF ToCome

\* The session takes a frame that counts: the first of those to come.
Taking(s, f) ==
  /\ f \in Sent(s) /\ Sent(s)' = Sent(s) \ {f} /\ Unsent(s)' = Unsent(s)
  /\ \A g \in ToCome(s)' : g \in ToCome(s) /\ Before(f, g)
  /\ \A g \in ToCome(s) : g = f \/ g \in ToCome(s)'
  /\ \A p, q \in From(s)' : p < q => Before(Way'[p].frame, Way'[q].frame)
  /\ current'[s] = current[s] /\ toSend'[s] = toSend[s] /\ shortened' = shortened

\* The way when the session takes the oldest frame out of the queue.
LEMMA WayHeadGoes ==
  ASSUME WayTypes, frames # <<>>, frames' = Tail(frames), holding' = holding,
         sawFull' = sawFull
  PROVE  /\ WayTypes'
         /\ \E n \in Nat : /\ Len(Way) = n + 1 /\ Len(Way') = n /\ Way[1] = Head(frames)
                           /\ \A p \in 1..n : Way'[p] = Way[p + 1]
<1>1. /\ frames # <<>> /\ frames' = Tail(frames) /\ holding' = holding /\ sawFull' = sawFull
      /\ frames \in Seq(Item) /\ holding \in Item \cup {NoFrame} /\ (sawFull => holding # NoFrame)
  BY DEF WayTypes
<1>4. WayTypes'
  <2> HIDE DEF Item, NoFrame
  <2>1. Tail(frames) \in Seq(Item)
    BY <1>1
  <2> QED BY <1>1, <2>1 DEF WayTypes
<1>5. \E n \in Nat : /\ Len(Way) = n + 1 /\ Len(Way') = n /\ Way[1] = Head(frames)
                    /\ \A p \in 1..n : Way'[p] = Way[p + 1]
  <2> HIDE DEF Item, NoFrame
  <2>1. /\ Tail(frames) \in Seq(Item) /\ Len(Tail(frames)) = Len(frames) - 1
        /\ \A p \in 1..(Len(frames) - 1) : Tail(frames)[p] = frames[p + 1]
        /\ Len(frames) \in Nat \ {0} /\ Head(frames) = frames[1]
    BY <1>1
  <2>2. CASE holding = NoFrame
    <3>1. Way = frames /\ Way' = Tail(frames)
      BY <1>1, <2>2 DEF Way
    <3>2. Len(frames) - 1 \in Nat /\ Len(frames) = (Len(frames) - 1) + 1
      BY <2>1
    <3> QED BY <2>1, <3>1, <3>2
  <2>3. CASE holding # NoFrame
    <3>1. Way = Append(frames, holding) /\ Way' = Append(Tail(frames), holding) /\ holding \in Item
      BY <1>1, <2>3 DEF Way
    <3>2. PICK n \in Nat \ {0} : n = Len(frames)
      BY <2>1
    <3>3. /\ Len(Way) = n + 1 /\ Way[n + 1] = holding /\ \A p \in 1..n : Way[p] = frames[p]
      BY <1>1, <3>1, <3>2
    <3>4. /\ Len(Way') = n /\ Way'[n] = holding
          /\ \A p \in 1..(n - 1) : Way'[p] = Tail(frames)[p]
      <4>1. /\ Len(Way') = Len(Tail(frames)) + 1 /\ Way'[Len(Tail(frames)) + 1] = holding
            /\ \A p \in 1..Len(Tail(frames)) : Way'[p] = Tail(frames)[p]
        BY <2>1, <3>1
      <4>2. Len(Tail(frames)) = n - 1 /\ n - 1 + 1 = n
        BY <2>1, <3>2
      <4> QED BY <4>1, <4>2
    <3>5. ASSUME NEW p \in 1..n PROVE Way'[p] = Way[p + 1]
      <4>1. CASE p = n
        BY <3>3, <3>4, <4>1
      <4>2. CASE p # n
        <5>1. p \in 1..(n - 1) /\ p + 1 \in 1..n
          BY <4>2
        <5> QED BY <2>1, <3>2, <3>3, <3>4, <5>1
      <4> QED BY <4>1, <4>2
    <3>6. Way[1] = Head(frames)
      <4>1. 1 \in 1..n
        OBVIOUS
      <4> QED BY <2>1, <3>3, <4>1
    <3> QED BY <3>3, <3>4, <3>5, <3>6
  <2> QED BY <2>2, <2>3
<1> QED BY <1>4, <1>5

\* The frame the session takes, and what becomes of the way.
LEMMA TakeIs ==
  ASSUME WayTypes, TablesInv, \A e \in Sources : EcuHolds(e), TakeFrame
  PROVE  /\ WayTypes' /\ current' = current /\ toSend' = toSend /\ shortened' = shortened
         /\ dropped' = dropped /\ requests' = requests
         /\ \E s \in Sources, f \in BusFrame :
              /\ transfers' = [transfers EXCEPT ![s] = ProcessFrame(transfers[s], f).transfer]
              /\ allowed' = [allowed EXCEPT ![s] = @ \/ ProcessFrame(transfers[s], f).fc]
              /\ delivered' = IF ProcessFrame(transfers[s], f).message = <<>> THEN delivered
                              ELSE [delivered EXCEPT ![s] =
                                      Append(@, ProcessFrame(transfers[s], f).message)]
              /\ \A e \in Sources :
                   /\ \A p, q \in From(e)' : p < q => Before(Way'[p].frame, Way'[q].frame)
                   /\ e # s \/ f \in Malformed => Sent(e)' = Sent(e)
              /\ f \in Malformed \/ Taking(s, f)
<1>1. /\ frames # <<>> /\ frames' = Tail(frames) /\ holding' = holding /\ sawFull' = sawFull
      /\ frames \in Seq(Item) /\ holding \in Item \cup {NoFrame} /\ (sawFull => holding # NoFrame)
      /\ current' = current /\ toSend' = toSend /\ shortened' = shortened
      /\ dropped' = dropped /\ requests' = requests
  BY DEF WayTypes, TakeFrame
<1>2. PICK s \in Sources, f \in BusFrame : Head(frames).src = s /\ Head(frames).frame = f
  <2>1. Head(frames) \in Item
    <3> HIDE DEF Item
    <3> QED BY <1>1
  <2> QED BY <2>1 DEF Item
<1>3. /\ transfers' = [transfers EXCEPT ![s] = ProcessFrame(transfers[s], f).transfer]
      /\ allowed' = [allowed EXCEPT ![s] = @ \/ ProcessFrame(transfers[s], f).fc]
      /\ delivered' = IF ProcessFrame(transfers[s], f).message = <<>> THEN delivered
                      ELSE [delivered EXCEPT ![s] =
                              Append(@, ProcessFrame(transfers[s], f).message)]
  BY <1>2, Zenon DEF TakeFrame
<1>4. WayTypes'
  BY <1>1, WayHeadGoes
<1>5. PICK n \in Nat : /\ Len(Way) = n + 1 /\ Len(Way') = n /\ Way[1] = Head(frames)
                       /\ \A p \in 1..n : Way'[p] = Way[p + 1]
  BY <1>1, WayHeadGoes
<1>6. ASSUME NEW e \in Sources
      PROVE  /\ \A p, q \in From(e)' : p < q => Before(Way'[p].frame, Way'[q].frame)
             /\ e # s \/ f \in Malformed => Sent(e)' = Sent(e)
             /\ Sent(e)' \subseteq Sent(e)
  <2>1. WayInv(e)
    BY DEF EcuHolds
  <2>2. /\ 1 \in Nat /\ 1 <= Len(Way) /\ Len(Way') = Len(Way) - 1
        /\ \A p \in 1..Len(Way') : Way'[p] = Way[p + 1]
    BY <1>5
  <2>3. /\ Sent(e)' \subseteq Sent(e)
        /\ \A p, q \in From(e)' : p < q => Before(Way'[p].frame, Way'[q].frame)
        /\ (\A p \in 1..1 : p \notin From(e)) => Sent(e)' = Sent(e)
    BY <2>1, <2>2, WayShortens
  <2>4. ASSUME e # s \/ f \in Malformed, NEW p \in 1..1 PROVE p \notin From(e)
    <3>1. p = 1
      OBVIOUS
    <3> QED BY <1>2, <1>5, <2>4, <3>1 DEF From
  <2> QED BY <2>3, <2>4
<1>7. ASSUME f \notin Malformed PROVE Taking(s, f)
  <2>1. WayInv(s) /\ EcuInv(s)
    BY DEF EcuHolds
  <2>2. 1 \in From(s) /\ Way[1].frame = f
    <3>1. 1 \in 1..Len(Way)
      BY <1>5
    <3> QED BY <1>2, <1>5, <1>7, <3>1 DEF From
  <2>3. f \in Sent(s)
    BY <2>2 DEF Sent
  <2>4. ASSUME NEW g \in Sent(s)' PROVE Before(f, g)
    <3>1. PICK p \in From(s)' : g = Way'[p].frame
      BY <2>4 DEF Sent
    <3>2. p \in 1..n /\ Way'[p] = Way[p + 1]
      BY <1>5, <3>1 DEF From
    <3>3. p + 1 \in From(s) /\ 1 < p + 1
      <4>1. p + 1 \in 1..Len(Way) /\ 1 < p + 1
        BY <1>5, <3>2
      <4> QED BY <3>1, <3>2, <4>1 DEF From
    <3>4. Before(Way[1].frame, Way[p + 1].frame)
      BY <2>1, <2>2, <3>3 DEF WayInv
    <3> QED BY <2>2, <3>1, <3>2, <3>4
  <2>5. ASSUME NEW g \in Sent(s), g # f PROVE g \in Sent(s)'
    <3>1. PICK p \in From(s) : g = Way[p].frame
      BY DEF Sent
    <3>2. p \in 1..(n + 1) /\ p # 1
      BY <1>5, <2>2, <2>5, <3>1 DEF From
    <3>3. PICK q \in 1..n : p = q + 1
      <4>1. p - 1 \in 1..n /\ p = (p - 1) + 1
        BY <3>2
      <4> QED BY <4>1
    <3>4. Way'[q] = Way[p] /\ q \in 1..Len(Way')
      BY <1>5, <3>3
    <3>5. q \in From(s)'
      BY <3>1, <3>4 DEF From
    <3> QED BY <3>1, <3>4, <3>5 DEF Sent
  <2>6. ~ Before(f, f)
    <3>1. Known(s, f)
      BY <2>1, <2>3, ToComeAre DEF ToCome
    <3>2. Msg(f) \in Nat /\ Place(f) \in Nat
      <4>1. current[s] \in Nat /\ Msg(f) \in 1..current[s] /\ current[s] <= Len(Script[s])
        BY <2>1, <3>1 DEF TablesInv, Known, EcuInv
      <4>2. Msg(f) \in 1..Len(Script[s])
        BY <4>1, FrameSizes
      <4>3. Script[s][Msg(f)] \in Nat /\ Place(f) \in 1..Script[s][Msg(f)]
        BY <3>1, <4>2, FrameSizes DEF Known
      <4> QED BY <4>1, <4>3
    <3> QED BY <3>2 DEF Before
  <2>7. Sent(s)' = Sent(s) \ {f}
    <3>1. \A g \in Sent(s)' : g \in Sent(s) /\ g # f
      BY <1>6, <2>4, <2>6
    <3> QED BY <2>5, <3>1
  <2>8. Unsent(s)' = Unsent(s)
    BY <1>1 DEF Unsent
  <2>9. /\ \A g \in ToCome(s)' : g \in ToCome(s) /\ Before(f, g)
        /\ \A g \in ToCome(s) : g = f \/ g \in ToCome(s)'
    <3>1. \A g \in Unsent(s) : Before(f, g)
      BY <2>1, <2>3 DEF WayInv
    <3> QED BY <2>4, <2>7, <2>8, <3>1 DEF ToCome
  <2> QED BY <1>1, <1>6, <2>3, <2>7, <2>8, <2>9 DEF Taking
<1>8. f \in Malformed \/ Taking(s, f)
  BY <1>7
<1> QED BY <1>1, <1>3, <1>4, <1>6, <1>8

\* Where the frames to come can begin.
LEMMA ToComeNumbers ==
  ASSUME TablesInv, NEW e \in Sources, EcuInv(e), WayInv(e), NEW f \in ToCome(e)
  PROVE  /\ Known(e, f) /\ f \in BusFrame
         /\ Msg(f) \in 1..current[e] /\ Msg(f) \in 1..Len(Script[e]) /\ Msg(f) \in Nat \ {0}
         /\ current[e] \in Nat
         /\ Script[e][Msg(f)] \in Nat \ {0} /\ Place(f) \in 1..Script[e][Msg(f)]
         /\ Place(f) \in Nat \ {0} /\ Place(f) <= Script[e][Msg(f)]
         /\ Place(f) = 1 => Opens(e, Msg(f), f) /\ f.pci = IF Long(e, Msg(f)) THEN "FF" ELSE "SF"
         /\ Place(f) # 1 =>
              /\ Place(f) > FirstChunk /\ Long(e, Msg(f)) /\ f.pci = "CF"
              /\ \E i \in Nat \ {0} : Place(f) = Start(i) /\ Follows(e, Msg(f), i, f)
<1>1. Known(e, f)
  BY ToComeAre
<1>2. current[e] \in Nat /\ current[e] <= Len(Script[e]) /\ Len(Script[e]) \in Nat
  BY FrameSizes DEF TablesInv, EcuInv
<1>3. Msg(f) \in 1..current[e] /\ Msg(f) \in 1..Len(Script[e]) /\ Msg(f) \in Nat \ {0}
  BY <1>1, <1>2 DEF Known
<1>4. Script[e][Msg(f)] \in Nat \ {0} /\ FirstChunk \in Nat \ {0}
  BY <1>3, FrameSizes
<1>5. Place(f) \in 1..Script[e][Msg(f)] /\ f \in BusFrame
  BY <1>1 DEF Known
<1>6. Place(f) \in Nat \ {0} /\ Place(f) <= Script[e][Msg(f)]
  BY <1>4, <1>5
<1>7. \/ /\ Place(f) = 1 /\ Opens(e, Msg(f), f)
         /\ f.pci = IF Long(e, Msg(f)) THEN "FF" ELSE "SF"
      \/ /\ Place(f) > FirstChunk /\ Long(e, Msg(f)) /\ f.pci = "CF"
         /\ \E i \in Nat \ {0} : Place(f) = Start(i) /\ Follows(e, Msg(f), i, f)
  BY <1>1 DEF Known
<1>8. Place(f) > FirstChunk => Place(f) # 1
  BY <1>4, <1>6
<1> QED BY <1>1, <1>2, <1>3, <1>4, <1>5, <1>6, <1>7, <1>8

\* What the ECU of a frame taken has on its way and to send.
LEMMA TakingWay ==
  ASSUME TablesInv, NEW s \in Sources, EcuInv(s), WayInv(s), NEW f, Taking(s, f),
         allowed[s] => allowed'[s], allowed'[s] => allowed[s] \/ f.pci = "FF"
  PROVE  EcuInv(s)' /\ WayInv(s)'
<1>1. /\ f \in Sent(s) /\ Sent(s)' \subseteq Sent(s) /\ Unsent(s)' = Unsent(s)
      /\ current'[s] = current[s] /\ toSend'[s] = toSend[s] /\ shortened' = shortened
      /\ \A p, q \in From(s)' : p < q => Before(Way'[p].frame, Way'[q].frame)
      /\ \A g \in Sent(s)' : Before(f, g)
  BY DEF Taking, ToCome
<1>2. \A g \in Sent(s) : g \in ToCome(s)
  BY DEF ToCome
<1>3. ASSUME f.pci = "FF", toSend[s] # <<>> PROVE Len(toSend[s]) # Len(FramesOf(s, current[s]))
  <2>1. PICK k \in 1..Len(Script[s]), all \in Seq(BusFrame), off \in Nat, n \in Nat \ {0} :
          /\ k = current[s] /\ all = FramesOf(s, k) /\ n = Len(toSend[s])
          /\ Len(all) = off + n /\ (off = 0 => ~ allowed[s])
          /\ \A j \in 1..n :
               /\ off + j \in 1..Len(all) /\ toSend[s][j] = all[off + j]
               /\ toSend[s][j] \in BusFrame
               /\ Msg(toSend[s][j]) = k /\ Place(toSend[s][j]) = Spot(off + j)
    BY <1>3, UnsentAre
  <2>2. toSend[s] \in Seq(BusFrame)
    BY <1>3, UnsentAre
  <2>3. Head(toSend[s]) = toSend[s][1] /\ 1 \in 1..n
    <3> HIDE DEF BusFrame
    <3> QED BY <1>3, <2>2
  <2>4. Head(toSend[s]).pci = "CF"
    BY <1>1, <1>3 DEF WayInv
  <2>5. ASSUME off = 0 PROVE FALSE
    <3>1. toSend[s][1] = all[1]
      BY <2>1, <2>3, <2>5
    <3>2. Opens(s, k, all[1])
      BY <2>1 DEF Opens
    <3>3. all[1].pci # "CF"
      BY <3>2, OpeningIs
    <3> QED BY <2>3, <2>4, <3>1, <3>3
  <2>6. PICK m \in Nat : m = Len(all) /\ m = off + n
    BY <2>1
  <2>7. m # n
    BY <2>5, <2>6
  <2> QED BY <2>1, <2>6, <2>7
<1>4. EcuInv(s)'
  <2>1. ASSUME toSend[s] # <<>>
        PROVE  Len(toSend[s]) = Len(FramesOf(s, current[s])) => ~ allowed'[s]
    <3>1. Len(toSend[s]) = Len(FramesOf(s, current[s])) => ~ allowed[s]
      BY <2>1 DEF EcuInv
    <3> QED BY <1>3, <2>1, <3>1
  <2> HIDE DEF FramesOf
  <2> QED BY <1>1, <2>1 DEF EcuInv
<1>5. WayInv(s)'
  <2>1. \A g \in Sent(s)' : Genuine(s, g)'
    <3>1. ASSUME NEW g \in Sent(s) PROVE Genuine(s, g)'
      <4>1. Genuine(s, g) /\ current[s] \in Nat
        BY DEF WayInv, TablesInv
      <4>2. current'[s] \in Nat /\ current[s] <= current'[s] /\ shortened \subseteq shortened'
        BY <1>1, <4>1
      <4> QED BY <4>1, <4>2, GenuineKept
    <3> QED BY <1>1, <3>1
  <2>2. \A g \in Sent(s)', h \in Unsent(s)' : Before(g, h)
    BY <1>1 DEF WayInv
  <2>3. ASSUME NEW g \in Sent(s)', g.pci = "FF"
        PROVE  /\ Msg(g) = current'[s] /\ ~ allowed'[s]
               /\ toSend'[s] # <<>> /\ Head(toSend'[s]).pci = "CF"
    <3>1. /\ Msg(g) = current[s] /\ ~ allowed[s]
          /\ toSend[s] # <<>> /\ Head(toSend[s]).pci = "CF"
      BY <1>1, <2>3 DEF WayInv
    <3>2. f.pci # "FF"
      <4>1. ASSUME f.pci = "FF" PROVE FALSE
        <5>1. Msg(f) = current[s]
          BY <1>1, <4>1 DEF WayInv
        <5>2. g \in ToCome(s) /\ f \in ToCome(s)
          BY <1>1, <1>2
        <5>3. Place(g) = 1 /\ Place(f) \in Nat \ {0} /\ Msg(f) \in Nat
          BY <2>3, <4>1, <5>2, ToComeNumbers
        <5>4. Before(f, g)
          BY <1>1
        <5> QED BY <3>1, <5>1, <5>3, <5>4 DEF Before
      <4> QED BY <4>1
    <3> QED BY <1>1, <3>1, <3>2
  <2>4. \A g \in Sent(s)' : g.pci = "CF" /\ Msg(g) = current'[s] => allowed'[s]
    BY <1>1 DEF WayInv
  <2> QED BY <1>1, <2>1, <2>2, <2>3, <2>4 DEF WayInv
<1> QED BY <1>4, <1>5

\* A message delivered on its last frame.
LEMMA DeliveredGrows ==
  ASSUME TablesInv, NEW s \in Sources, DeliveredInv(s), NEW f, Taking(s, f),
         NEW k \in 1..current[s], Msg(f) = k, NEW m \in Seq(Datum),
         delivered'[s] = Append(delivered[s], m), m[1] = <<s, k, 1>>,
         m = Message(s, k) \/ <<s, k>> \in shortened,
         \A g \in ToCome(s)' : k < Msg(g)
  PROVE  /\ DeliveredInv(s)'
         /\ \E n \in Nat : /\ n = Len(delivered[s]) /\ Len(delivered'[s]) = n + 1
                           /\ \A i \in 1..n : Number(s, i)' = Number(s, i)
                           /\ Number(s, n + 1)' = k
<1>1. PICK n \in Nat : n = Len(delivered[s])
  BY DeliveredCount
<1>2. /\ Len(delivered'[s]) = n + 1 /\ delivered'[s][n + 1] = m
      /\ \A i \in 1..n : delivered'[s][i] = delivered[s][i]
  <2> HIDE DEF Datum
  <2>1. delivered[s] \in Seq(Seq(Datum))
    BY DEF TablesInv
  <2> QED BY <1>1, <2>1
<1>3. Number(s, n + 1)' = k /\ \A i \in 1..n : Number(s, i)' = Number(s, i)
  <2>1. Number(s, n + 1)' = delivered'[s][n + 1][1][2]
    BY <1>1 DEF Number
  <2>2. \A i \in 1..n : Number(s, i)' = delivered'[s][i][1][2]
    BY DEF Number
  <2>3. <<s, k, 1>>[2] = k
    OBVIOUS
  <2> QED BY <1>2, <2>1, <2>2, <2>3 DEF Number
<1>4. /\ f \in ToCome(s) /\ current'[s] = current[s] /\ shortened' = shortened
      /\ \A g \in ToCome(s)' : g \in ToCome(s)
  BY DEF Taking, ToCome
<1>5. ASSUME NEW i \in 1..n
      PROVE  /\ Number(s, i) \in 1..current[s] /\ Number(s, i) < k
             /\ delivered[s][i] = Message(s, Number(s, i)) \/ <<s, Number(s, i)>> \in shortened
             /\ \A g \in ToCome(s)' : Number(s, i) < Msg(g)
  BY <1>1, <1>4 DEF DeliveredInv
<1>6. \A i, j \in 1..n : i < j => Number(s, i) < Number(s, j)
  BY <1>1 DEF DeliveredInv
<1>7. \A i \in 1..(n + 1) : i \in 1..n \/ i = n + 1
  OBVIOUS
<1>8. ASSUME NEW i \in 1..(n + 1)
      PROVE  /\ Number(s, i)' \in 1..current'[s]
             /\ delivered'[s][i] = Message(s, Number(s, i)') \/ <<s, Number(s, i)'>> \in shortened'
             /\ \A g \in ToCome(s)' : Number(s, i)' < Msg(g)
  <2>1. CASE i = n + 1
    BY <1>2, <1>3, <1>4, <2>1
  <2>2. CASE i \in 1..n
    BY <1>2, <1>3, <1>4, <1>5, <2>2
  <2> QED BY <1>7, <2>1, <2>2
<1>9. ASSUME NEW i \in 1..(n + 1), NEW j \in 1..(n + 1), i < j
      PROVE  Number(s, i)' < Number(s, j)'
  <2>1. i \in 1..n
    BY <1>9
  <2>2. CASE j = n + 1
    BY <1>3, <1>5, <2>1, <2>2
  <2>3. CASE j \in 1..n
    BY <1>3, <1>6, <1>9, <2>1, <2>3
  <2> QED BY <1>7, <2>2, <2>3
<1>10. DeliveredInv(s)'
  <2> HIDE DEF Number, Message, ToCome
  <2> QED BY <1>2, <1>8, <1>9 DEF DeliveredInv
<1> QED BY <1>1, <1>2, <1>3, <1>10

\* When nothing was lost, the frame taken is the one that is due.
LEMMA FirstIs ==
  ASSUME TablesInv, NEW s \in Sources, EcuHolds(s), LosslessInv(s), NEW f, Taking(s, f)
  PROVE  /\ Due(s) = Msg(f) /\ Place(f) = IF transfers[s] = NoTransfer THEN 1 ELSE Size(s) + 1
         /\ Len(delivered[s]) \in Nat
         /\ \A k, p : Awaited(s, k, p) /\ ~ (k = Msg(f) /\ p = Place(f)) => Awaited(s, k, p)'
         /\ \A g \in ToCome(s)' : GoesOn(s, g)'
<1>1. /\ EcuInv(s) /\ WayInv(s) /\ TransferInv(s) /\ DeliveredInv(s)
      /\ f \in ToCome(s) /\ f \in Sent(s) /\ current'[s] = current[s]
      /\ \A g \in ToCome(s) : g = f \/ (g \in ToCome(s)' /\ Before(f, g))
      /\ \A g \in ToCome(s)' : g \in ToCome(s) /\ Before(f, g)
  BY DEF EcuHolds, Taking, ToCome
<1>2. \A g \in ToCome(s) : /\ Msg(g) \in Nat \ {0} /\ Place(g) \in Nat \ {0}
                           /\ Msg(g) \in 1..current[s] /\ current[s] \in Nat
  BY <1>1, ToComeNumbers
<1>3. PICK n \in Nat : n = Len(delivered[s])
  BY DeliveredCount
<1>4. n < Msg(f)
  <2>1. CASE n = 0
    BY <1>1, <1>2, <2>1
  <2>2. CASE n # 0
    <3>1. n \in 1..n
      BY <2>2
    <3>2. Number(s, n) = n /\ Number(s, n) < Msg(f)
      BY <1>1, <1>3, <3>1 DEF LosslessInv, DeliveredInv
    <3> QED BY <3>2
  <2> QED BY <2>1, <2>2
<1>5. Due(s) = n + 1 /\ Due(s) <= Msg(f) /\ Due(s) <= current[s]
  <2>1. Due(s) = n + 1
    BY <1>3 DEF Due
  <2> QED BY <1>1, <1>2, <1>4, <2>1
<1>6. \A k, p : Awaited(s, k, p) /\ ~ (k = Msg(f) /\ p = Place(f)) => Awaited(s, k, p)'
  BY <1>1 DEF Awaited
<1>7. ASSUME NEW p \in Nat, Awaited(s, Due(s), p) PROVE Due(s) = Msg(f) /\ Place(f) <= p
  <2>1. PICK g \in ToCome(s) : Msg(g) = Due(s) /\ Place(g) = p
    BY <1>7 DEF Awaited
  <2>2. g = f \/ Before(f, g)
    BY <1>1
  <2>3. Msg(f) \in Nat /\ Place(f) \in Nat
    BY <1>1, <1>2
  <2> QED BY <1>5, <2>1, <2>2, <2>3 DEF Before
<1>8. ASSUME transfers[s] = NoTransfer PROVE Due(s) = Msg(f) /\ Place(f) = 1
  <2>1. Awaited(s, Due(s), 1)
    BY <1>5, <1>8 DEF LosslessInv
  <2>2. Due(s) = Msg(f) /\ Place(f) <= 1
    BY <1>7, <2>1
  <2>3. Place(f) = 1
    BY <1>1, <1>2, <2>2
  <2> QED BY <2>2, <2>3
<1>9. ASSUME transfers[s] # NoTransfer PROVE Due(s) = Msg(f) /\ Place(f) = Size(s) + 1
  <2>1. PICK k \in 1..current[s] : IsTransferOf(s, k)
    BY <1>1, <1>9 DEF TransferInv
  <2>2. transfers[s].buffer[1][2] = Due(s) /\ Awaited(s, Due(s), Size(s) + 1)
    BY <1>9 DEF LosslessInv
  <2>3. /\ k = Due(s) /\ Long(s, k) /\ (k = current[s] => allowed[s])
        /\ \A g \in Coming(s) : Place(g) > Size(s)
        /\ Size(s) \in FirstChunk..(Script[s][k] - 1)
    BY <2>1, <2>2 DEF IsTransferOf
  <2>4. Size(s) \in Nat
    BY <2>3, FrameSizes
  <2>5. Due(s) = Msg(f) /\ Place(f) <= Size(s) + 1
    <3>1. Size(s) + 1 \in Nat
      BY <2>4
    <3> QED BY <1>7, <2>2, <3>1
  <2>6. Place(f) # 1
    <3>1. ASSUME Place(f) = 1 PROVE FALSE
      <4>1. f.pci = "FF"
        BY <1>1, <2>3, <2>5, <3>1, ToComeNumbers
      <4>2. Msg(f) = current[s] /\ ~ allowed[s]
        BY <1>1, <4>1 DEF WayInv
      <4> QED BY <2>3, <2>5, <4>2
    <3> QED BY <3>1
  <2>7. f \in Coming(s)
    <3>1. f.pci = "CF"
      BY <1>1, <2>6, ToComeNumbers
    <3> QED BY <1>1, <3>1 DEF Coming
  <2>8. Place(f) = Size(s) + 1
    BY <1>1, <1>2, <2>3, <2>4, <2>5, <2>7
  <2> QED BY <2>5, <2>8
<1>10. ASSUME NEW g \in ToCome(s)' PROVE GoesOn(s, g)'
  <2>1. g \in ToCome(s) /\ Before(f, g) /\ GoesOn(s, g)
    BY <1>1 DEF LosslessInv
  <2>2. Msg(g) \in Nat /\ Msg(f) \in Nat /\ Place(g) \in Nat /\ Place(f) \in Nat
    BY <1>1, <1>2, <2>1
  <2>3. CASE Long(s, Msg(g)) /\ NextPlace(g) <= Script[s][Msg(g)]
    <3>1. Awaited(s, Msg(g), NextPlace(g))
      BY <2>1, <2>3 DEF GoesOn
    <3>2. NextPlace(g) > Place(g) /\ NextPlace(g) \in Nat
      <4>1. 1 \in Nat \ {0} /\ NextChunk \in Nat \ {0, 1}
        BY FrameSizes
      <4>2. Start(1) \in Nat /\ Start(1) > 1
        BY <4>1, StartsApart, FrameSizes
      <4> QED BY <2>2, <4>1, <4>2 DEF NextPlace
    <3>3. ~ (Msg(g) = Msg(f) /\ NextPlace(g) = Place(f))
      BY <2>1, <2>2, <3>2 DEF Before
    <3>4. Awaited(s, Msg(g), NextPlace(g))'
      BY <1>6, <3>1, <3>3
    <3> QED BY <2>3, <3>4 DEF GoesOn
  <2>4. CASE ~ (Long(s, Msg(g)) /\ NextPlace(g) <= Script[s][Msg(g)])
    <3>1. Msg(g) < current[s] => Awaited(s, Msg(g) + 1, 1)
      BY <2>1, <2>4 DEF GoesOn
    <3>2. Msg(g) + 1 # Msg(f)
      BY <2>1, <2>2 DEF Before
    <3>3. Msg(g) < current'[s] => Awaited(s, Msg(g) + 1, 1)'
      BY <1>1, <1>6, <3>1, <3>2
    <3> QED BY <2>4, <3>3 DEF GoesOn
  <2> QED BY <2>3, <2>4
<1>11. Due(s) = Msg(f) /\ Place(f) = IF transfers[s] = NoTransfer THEN 1 ELSE Size(s) + 1
  BY <1>8, <1>9
<1> QED BY <1>3, <1>6, <1>10, <1>11

\* What the reassembler makes of it, for its ECU.
Feeds(s, f) ==
  LET out == ProcessFrame(transfers[s], f)
  IN /\ transfers'[s] = out.transfer /\ allowed'[s] = (allowed[s] \/ out.fc)
     /\ delivered'[s] = IF out.message = <<>> THEN delivered[s]
                        ELSE Append(delivered[s], out.message)

\* Delivered numbers go up by one with a message that was due.
LEMMA NumbersGoOn ==
  ASSUME NEW s \in Sources, LosslessInv(s), NEW n \in Nat, n = Len(delivered[s]),
         Len(delivered'[s]) = n + 1, \A i \in 1..n : Number(s, i)' = Number(s, i),
         NEW k, Number(s, n + 1)' = k, k = Due(s)
  PROVE  Due(s)' = k + 1 /\ \A i \in 1..Len(delivered'[s]) : Number(s, i)' = i
<1>1. \A i \in 1..n : Number(s, i) = i
  BY DEF LosslessInv
<1>2. k = n + 1
  BY DEF Due
<1>3. \A i \in 1..(n + 1) : i \in 1..n \/ i = n + 1
  OBVIOUS
<1>4. Due(s)' = k + 1
  BY <1>2 DEF Due
<1> QED BY <1>1, <1>2, <1>3, <1>4

\* After the last frame of the message due, the next one is due.
LEMMA NextIsDue ==
  ASSUME TablesInv, NEW s \in Sources, EcuHolds(s), LosslessInv(s), NEW f, Taking(s, f),
         NEW n \in Nat, n = Len(delivered[s]), Len(delivered'[s]) = n + 1,
         \A i \in 1..n : Number(s, i)' = Number(s, i), Number(s, n + 1)' = Msg(f),
         transfers'[s] = NoTransfer,
         ~ (Long(s, Msg(f)) /\ NextPlace(f) <= Script[s][Msg(f)])
  PROVE  LosslessInv(s)'
<1>1. /\ Due(s) = Msg(f)
      /\ \A k, p : Awaited(s, k, p) /\ ~ (k = Msg(f) /\ p = Place(f)) => Awaited(s, k, p)'
      /\ \A g \in ToCome(s)' : GoesOn(s, g)'
  BY FirstIs
<1>2. Due(s)' = Msg(f) + 1 /\ \A i \in 1..Len(delivered'[s]) : Number(s, i)' = i
  <2>1. PICK k : k = Msg(f)
    OBVIOUS
  <2>2. Number(s, n + 1)' = k /\ k = Due(s)
    BY <1>1, <2>1
  <2>3. Due(s)' = k + 1 /\ \A i \in 1..Len(delivered'[s]) : Number(s, i)' = i
    BY <2>2, NumbersGoOn
  <2> QED BY <2>1, <2>3
<1>3. /\ f \in ToCome(s) /\ current'[s] = current[s] /\ GoesOn(s, f)
      /\ EcuInv(s) /\ WayInv(s)
  BY DEF Taking, ToCome, LosslessInv, EcuHolds
<1>4. Msg(f) \in Nat /\ current[s] \in Nat
  BY <1>3, ToComeNumbers
<1>5. Msg(f) < current[s] => Awaited(s, Msg(f) + 1, 1)
  BY <1>3 DEF GoesOn
<1>6. PICK k : k = Msg(f) + 1
  OBVIOUS
<1>7. k <= current[s] => Awaited(s, k, 1)'
  BY <1>1, <1>4, <1>5, <1>6
<1>8. Due(s)' <= current'[s] => Awaited(s, Due(s), 1)'
  <2>1. Awaited(s, Due(s), 1)' <=> \E g \in ToCome(s)' : Msg(g) = Due(s)' /\ Place(g) = 1
    BY DEF Awaited
  <2>2. Awaited(s, k, 1)' <=> \E g \in ToCome(s)' : Msg(g) = k /\ Place(g) = 1
    BY DEF Awaited
  <2> QED BY <1>2, <1>3, <1>6, <1>7, <2>1, <2>2
<1> QED BY <1>1, <1>2, <1>8 DEF LosslessInv

\* A frame that changes nothing but the way.
LEMMA StrayKeeps ==
  ASSUME TablesInv, NEW s \in Sources, EcuHolds(s), NEW f, Taking(s, f),
         allowed'[s] = allowed[s], delivered'[s] = delivered[s],
         transfers'[s] = transfers[s] \/ transfers'[s] = NoTransfer
  PROVE  EcuHolds(s)'
<1>1. EcuInv(s) /\ WayInv(s) /\ TransferInv(s) /\ DeliveredInv(s) /\ current[s] \in Nat
  BY DEF EcuHolds, TablesInv
<1>2. EcuInv(s)' /\ WayInv(s)'
  BY <1>1, TakingWay
<1>3. /\ \A g \in ToCome(s)' : g \in ToCome(s)
      /\ \A g \in Coming(s)' : g \in Coming(s)
      /\ current'[s] = current[s] /\ shortened' = shortened
  BY DEF Taking, Coming
<1>4. \A g : Alike(g, g)
  BY DEF Alike
<1>5. DeliveredInv(s)'
  BY <1>1, <1>3, <1>4, DeliveredKept
<1>6. TransferInv(s)'
  <2>1. CASE transfers'[s] = NoTransfer
    BY <2>1 DEF TransferInv
  <2>2. CASE transfers'[s] = transfers[s]
    BY <1>1, <1>3, <1>4, <2>2, TransferKept
  <2> QED BY <2>1, <2>2
<1> QED BY <1>2, <1>5, <1>6 DEF EcuHolds

\* A single frame is a whole message.
LEMMA SingleKeeps ==
  ASSUME TablesInv, NEW s \in Sources, EcuHolds(s), NEW f, Taking(s, f), Feeds(s, f),
         f.pci = "SF"
  PROVE  EcuHolds(s)' /\ (LosslessInv(s) => LosslessInv(s)')
<1>1. /\ EcuInv(s) /\ WayInv(s) /\ TransferInv(s) /\ DeliveredInv(s) /\ f \in ToCome(s)
      /\ current[s] \in Nat
  BY DEF EcuHolds, Taking, ToCome, TablesInv
<1>2. PICK k \in 1..Len(Script[s]) : k = Msg(f) /\ k \in 1..current[s]
  BY <1>1, ToComeNumbers
<1>3. Place(f) = 1 /\ Opens(s, k, f) /\ ~ Long(s, k)
  <2>1. Place(f) # 1 => f.pci = "CF"
    BY <1>1, ToComeNumbers
  <2>2. Place(f) = 1 /\ Opens(s, Msg(f), f) /\ f.pci = IF Long(s, Msg(f)) THEN "FF" ELSE "SF"
    BY <1>1, <2>1, ToComeNumbers
  <2> QED BY <1>2, <2>2
<1>4. /\ f.n \in 1..SingleMax /\ Len(f.data) = SingleMax
      /\ SubSeq(f.data, 1, f.n) = Message(s, k)
  BY <1>3, OpeningIs
<1>5. /\ Message(s, k) \in Seq(Datum) /\ Len(Message(s, k)) = Script[s][k]
      /\ Script[s][k] \in Nat \ {0} /\ Message(s, k)[1] = <<s, k, 1>>
  <2>1. Script[s][k] \in Nat \ {0}
    BY FrameSizes
  <2>2. 1 \in 1..Script[s][k]
    BY <2>1
  <2>3. /\ Message(s, k) \in Seq(Datum) /\ Len(Message(s, k)) = Script[s][k]
        /\ \A m \in 1..Script[s][k] : Message(s, k)[m] = <<s, k, m>>
    BY MessageIs
  <2> HIDE DEF Message, Datum
  <2> QED BY <2>1, <2>2, <2>3
<1>6. Message(s, k) # <<>>
  <2>1. Len(<<>>) = 0
    OBVIOUS
  <2> QED BY <1>5, <2>1
<1>7. /\ transfers'[s] = transfers[s] /\ allowed'[s] = allowed[s]
      /\ delivered'[s] = Append(delivered[s], Message(s, k))
  <2>1. ProcessFrame(transfers[s], f) = Outcome(transfers[s], Message(s, k), FALSE, FALSE)
    <3>1. ProcessFrame(transfers[s], f) = OnSingle(transfers[s], f)
      BY DEF ProcessFrame
    <3>2. ~ (f.n = 0 \/ f.n > SingleMax \/ f.n > Len(f.data))
      BY <1>4, FrameSizes
    <3> QED BY <1>4, <3>1, <3>2 DEF OnSingle
  <2>2. allowed[s] \in BOOLEAN
    BY DEF TablesInv
  <2> HIDE DEF Message
  <2>3. /\ ProcessFrame(transfers[s], f).transfer = transfers[s]
        /\ ProcessFrame(transfers[s], f).message = Message(s, k)
        /\ ProcessFrame(transfers[s], f).fc = FALSE
    BY <2>1 DEF Outcome
  <2>4. transfers'[s] = transfers[s] /\ delivered'[s] = Append(delivered[s], Message(s, k))
    BY <1>6, <2>3 DEF Feeds
  <2>5. allowed'[s] = (allowed[s] \/ FALSE)
    BY <2>3, Zenon DEF Feeds
  <2> QED BY <2>2, <2>4, <2>5
<1>8. EcuInv(s)' /\ WayInv(s)'
  BY <1>1, <1>7, TakingWay
<1>9. TransferInv(s)'
  <2>1. /\ \A g \in Coming(s)' : g \in Coming(s)
        /\ current'[s] = current[s] /\ shortened' = shortened
    BY <1>7 DEF Taking, Coming
  <2>2. \A g : Alike(g, g)
    BY DEF Alike
  <2> QED BY <1>1, <1>7, <2>1, <2>2, TransferKept
<1>10. \A g \in ToCome(s)' : k < Msg(g)
  <2>1. ASSUME NEW g \in ToCome(s)' PROVE k < Msg(g)
    <3>1. g \in ToCome(s) /\ Before(f, g)
      BY DEF Taking
    <3>2. Msg(g) \in Nat /\ (Place(g) # 1 => Long(s, Msg(g))) /\ Place(g) \in Nat
      BY <1>1, <3>1, ToComeNumbers
    <3> QED BY <1>2, <1>3, <3>1, <3>2 DEF Before
  <2> QED BY <2>1
<1>11. /\ DeliveredInv(s)'
       /\ \E n \in Nat : /\ n = Len(delivered[s]) /\ Len(delivered'[s]) = n + 1
                         /\ \A i \in 1..n : Number(s, i)' = Number(s, i)
                         /\ Number(s, n + 1)' = k
  <2>1. PICK m : m = Message(s, k)
    OBVIOUS
  <2>2. /\ m \in Seq(Datum) /\ m[1] = <<s, k, 1>> /\ (m = Message(s, k) \/ <<s, k>> \in shortened)
        /\ delivered'[s] = Append(delivered[s], m) /\ Msg(f) = k
    BY <1>2, <1>5, <1>7, <2>1
  <2> QED BY <1>1, <1>2, <1>10, <2>2, DeliveredGrows
<1>12. ASSUME LosslessInv(s) PROVE LosslessInv(s)'
  <2>1. transfers[s] = NoTransfer
    <3>1. ASSUME transfers[s] # NoTransfer PROVE FALSE
      <4>1. Place(f) = Size(s) + 1
        BY <1>12, <3>1, FirstIs
      <4>2. PICK h \in 1..current[s] : IsTransferOf(s, h)
        BY <1>1, <3>1 DEF TransferInv
      <4>3. Size(s) \in FirstChunk..(Script[s][h] - 1)
        BY <4>2 DEF IsTransferOf
      <4> QED BY <1>3, <4>1, <4>3, FrameSizes
    <3> QED BY <3>1
  <2>2. PICK n \in Nat : /\ n = Len(delivered[s]) /\ Len(delivered'[s]) = n + 1
                         /\ \A i \in 1..n : Number(s, i)' = Number(s, i)
                         /\ Number(s, n + 1)' = Msg(f)
    BY <1>2, <1>11
  <2>3. ~ (Long(s, Msg(f)) /\ NextPlace(f) <= Script[s][Msg(f)]) /\ transfers'[s] = NoTransfer
    BY <1>2, <1>3, <1>7, <2>1
  <2> QED BY <1>12, <2>2, <2>3, NextIsDue
<1> QED BY <1>8, <1>9, <1>11, <1>12 DEF EcuHolds

\* Dividing leaves the remainder.
LEMMA RemainderIs ==
  ASSUME NEW n \in Nat, n > 1, NEW q \in Nat, NEW r \in Nat, r < n, NEW i \in Nat, i = n * q + r
  PROVE  i % n = r
BY SMTT(60)

\* Sequence numbers follow on each other around the wheel.
LEMMA SnTurns ==
  ASSUME NEW n \in Nat, n > 1
  PROVE  1 % n = 1 /\ \A i \in Nat : i % n \in Nat /\ ((i % n) + 1) % n = (i + 1) % n
<1>1. ASSUME NEW i \in Nat PROVE i % n \in Nat /\ ((i % n) + 1) % n = (i + 1) % n
  <2>1. PICK q \in Nat, r \in Nat : r = i % n /\ i = n * q + r /\ r < n
    <3>1. i % n \in Nat /\ i % n < n
      BY Z3
    <3>2. i \div n \in Nat
      BY Z3
    <3>3. i = n * (i \div n) + (i % n)
      BY SMT
    <3> QED BY <3>1, <3>2, <3>3
  <2>2. CASE r + 1 < n
    <3>1. i + 1 = n * q + (r + 1) /\ r + 1 = n * 0 + (r + 1)
      BY <2>1
    <3>2. (i + 1) % n = r + 1
      <4>1. PICK j \in Nat, m \in Nat : j = i + 1 /\ m = r + 1
        OBVIOUS
      <4>2. j = n * q + m /\ m < n
        BY <2>2, <3>1, <4>1
      <4>3. j % n = m
        <5>1. n \in Nat /\ n > 1 /\ q \in Nat /\ m \in Nat /\ m < n /\ j \in Nat /\ j = n * q + m
          BY <4>2
        <5> QED BY <5>1, RemainderIs
      <4> QED BY <4>1, <4>3
    <3>3. (r + 1) % n = r + 1
      <4>1. PICK z \in Nat : z = 0
        OBVIOUS
      <4>2. r + 1 = n * z + (r + 1) /\ r + 1 \in Nat
        BY <4>1
      <4> QED BY <2>2, <4>2, RemainderIs
    <3> QED BY <2>1, <3>2, <3>3
  <2>3. CASE r + 1 = n
    <3>1. /\ i + 1 = n * (q + 1) + 0 /\ r + 1 = n * 1 + 0 /\ q + 1 \in Nat /\ 0 \in Nat /\ 0 < n
          /\ 1 \in Nat /\ i + 1 \in Nat /\ r + 1 \in Nat
      BY <2>1, <2>3
    <3>2. (i + 1) % n = 0
      <4>1. PICK j \in Nat, p \in Nat : j = i + 1 /\ p = q + 1
        OBVIOUS
      <4>2. j = n * p + 0
        BY <3>1, <4>1
      <4>3. j % n = 0
        <5>1. n \in Nat /\ n > 1 /\ p \in Nat /\ j \in Nat /\ j = n * p + 0 /\ 0 \in Nat /\ 0 < n
          BY <4>2
        <5> QED BY <5>1, RemainderIs
      <4> QED BY <4>1, <4>3
    <3>3. (r + 1) % n = 0
      <4>1. PICK z \in Nat : z = 1
        OBVIOUS
      <4>2. r + 1 = n * z + 0
        BY <2>3, <4>1
      <4> QED BY <3>1, <4>2, RemainderIs
    <3> QED BY <2>1, <3>2, <3>3
  <2> QED BY <2>1, <2>2, <2>3
<1>2. 1 % n = 1
  BY Z3
<1> QED BY <1>1, <1>2

\* A first frame opens a transfer, and its ECU may go on.
LEMMA FirstKeeps ==
  ASSUME TablesInv, NEW s \in Sources, EcuHolds(s), NEW f, Taking(s, f), Feeds(s, f),
         f.pci = "FF"
  PROVE  EcuHolds(s)' /\ (LosslessInv(s) => LosslessInv(s)')
<1>1. /\ EcuInv(s) /\ WayInv(s) /\ TransferInv(s) /\ DeliveredInv(s)
      /\ f \in ToCome(s) /\ f \in Sent(s) /\ current[s] \in Nat
      /\ current'[s] = current[s] /\ shortened' = shortened
      /\ \A g \in ToCome(s)' : g \in ToCome(s) /\ Before(f, g)
  BY DEF EcuHolds, Taking, ToCome, TablesInv
<1>2. PICK k \in 1..Len(Script[s]) : k = Msg(f) /\ k \in 1..current[s] /\ k \in Nat
  BY <1>1, ToComeNumbers
<1>3. Place(f) = 1 /\ Opens(s, k, f) /\ Long(s, k)
  <2>1. Place(f) # 1 => f.pci = "CF"
    BY <1>1, ToComeNumbers
  <2>2. Place(f) = 1 /\ Opens(s, Msg(f), f) /\ f.pci = IF Long(s, Msg(f)) THEN "FF" ELSE "SF"
    BY <1>1, <2>1, ToComeNumbers
  <2> QED BY <1>2, <2>2
<1>4. k = current[s] /\ ~ allowed[s]
  BY <1>1, <1>2 DEF WayInv
<1>5. /\ f.n = Script[s][k] /\ f.n > SingleMax /\ f.n <= MaxLen /\ Len(f.data) = FirstChunk
      /\ f \in BusFrame /\ \A m \in 1..FirstChunk : f.data[m] = <<s, k, m>>
  BY <1>3, OpeningIs
<1>6. /\ transfers'[s] = Started(f) /\ allowed'[s] = TRUE /\ delivered'[s] = delivered[s]
  <2>1. ProcessFrame(transfers[s], f) = Outcome(Started(f), <<>>, TRUE, FALSE)
    <3>1. ProcessFrame(transfers[s], f) = OnFirst(transfers[s], f)
      BY DEF ProcessFrame
    <3>2. ~ (Len(f.data) < FirstChunk \/ f.n <= SingleMax \/ f.n > MaxLen)
      BY <1>5, FrameSizes
    <3> QED BY <3>1, <3>2 DEF OnFirst
  <2>2. /\ ProcessFrame(transfers[s], f).transfer = Started(f)
        /\ ProcessFrame(transfers[s], f).message = <<>>
        /\ ProcessFrame(transfers[s], f).fc = TRUE
    BY <2>1 DEF Outcome
  <2>3. transfers'[s] = Started(f) /\ delivered'[s] = delivered[s]
    BY <2>2 DEF Feeds
  <2>4. allowed'[s] = (allowed[s] \/ TRUE)
    BY <2>2, Zenon DEF Feeds
  <2> QED BY <2>3, <2>4
<1>7. EcuInv(s)' /\ WayInv(s)'
  BY <1>1, <1>6, TakingWay
<1>8. DeliveredInv(s)'
  <2>1. \A g \in ToCome(s)' : \E h \in ToCome(s) : Alike(g, h)
    BY <1>1 DEF Alike
  <2>2. current'[s] \in Nat /\ current[s] <= current'[s] /\ shortened \subseteq shortened'
    BY <1>1
  <2> QED BY <1>1, <1>6, <2>1, <2>2, DeliveredKept
<1>9. /\ transfers'[s].total = Script[s][k] /\ transfers'[s].buffer = f.data
      /\ transfers'[s].sn = 1 /\ Size(s)' = FirstChunk
      /\ transfers'[s].buffer[1] = <<s, k, 1>> /\ transfers'[s] # NoTransfer
  <2>1. transfers'[s] = [total |-> f.n, buffer |-> f.data, sn |-> 1]
    BY <1>6 DEF Started
  <2>2. 1 \in 1..FirstChunk
    BY FrameSizes
  <2>3. /\ transfers'[s].total = f.n /\ transfers'[s].buffer = f.data /\ transfers'[s].sn = 1
    BY <2>1
  <2>4. f.n # 0
    BY <1>5, FrameSizes
  <2>5. transfers'[s] # NoTransfer
    BY <2>3, <2>4 DEF NoTransfer
  <2> QED BY <1>5, <2>2, <2>3, <2>5 DEF Size
<1>10. Start(1) = FirstChunk + 1 /\ 1 \in Nat \ {0}
  BY FrameSizes DEF Start
<1>11. ASSUME NEW g \in ToCome(s)' PROVE Msg(g) = k /\ Place(g) > FirstChunk
  <2>1. g \in ToCome(s) /\ Before(f, g)
    BY <1>1
  <2>2. /\ Msg(g) \in 1..current[s] /\ Place(g) \in Nat
        /\ (Place(g) # 1 => Place(g) > FirstChunk)
    BY <1>1, <2>1, ToComeNumbers
  <2> QED BY <1>1, <1>2, <1>3, <1>4, <2>1, <2>2 DEF Before
<1>12. IsTransferOf(s, k)'
  <2>1. \A g \in Coming(s)' : Msg(g) = k /\ Place(g) > Size(s)'
    <3>1. \A g \in Coming(s)' : g \in ToCome(s)'
      BY DEF Coming, ToCome
    <3> QED BY <1>9, <1>11, <3>1
  <2>2. Size(s)' \in FirstChunk..(Script[s][k] - 1)
    <3>1. Script[s][k] \in Nat /\ Script[s][k] > SingleMax
      BY <1>3, FrameSizes DEF Long
    <3> QED BY <1>9, <3>1, FrameSizes
  <2>3. Whole(s, k, 1)'
    <3>1. Size(s)' = Start(1) - 1
      BY <1>9, <1>10, FrameSizes
    <3>2. \A m \in 1..Size(s)' : transfers'[s].buffer[m] = <<s, k, m>>
      BY <1>5, <1>9
    <3> QED BY <3>1, <3>2 DEF Whole
  <2>4. \E i \in Nat \ {0} : Whole(s, k, i)'
    BY <1>10, <2>3
  <2>5. Long(s, k)' /\ allowed'[s]
    BY <1>3, <1>6 DEF Long
  <2> QED BY <1>9, <2>1, <2>2, <2>4, <2>5 DEF IsTransferOf
<1>13. TransferInv(s)'
  BY <1>1, <1>2, <1>12 DEF TransferInv
<1>14. ASSUME LosslessInv(s) PROVE LosslessInv(s)'
  <2>1. /\ Due(s) = k
        /\ \A h, p : Awaited(s, h, p) /\ ~ (h = k /\ p = 1) => Awaited(s, h, p)'
        /\ \A g \in ToCome(s)' : GoesOn(s, g)'
    BY <1>2, <1>3, <1>14, FirstIs
  <2>2. Due(s)' = Due(s) /\ \A i : Number(s, i)' = Number(s, i)
    BY <1>6 DEF Due, Number
  <2>3. \A i \in 1..Len(delivered'[s]) : Number(s, i)' = i
    BY <1>6, <1>14, <2>2 DEF LosslessInv
  <2>4. Awaited(s, k, FirstChunk + 1)'
    <3>1. GoesOn(s, f) /\ NextPlace(f) = FirstChunk + 1
      BY <1>1, <1>3, <1>10, <1>14 DEF LosslessInv, NextPlace
    <3>2. NextPlace(f) <= Script[s][k]
      <4>1. Script[s][k] \in Nat /\ Script[s][k] > SingleMax
        BY <1>3, FrameSizes DEF Long
      <4> QED BY <3>1, <4>1, FrameSizes
    <3>3. Awaited(s, k, FirstChunk + 1)
      BY <1>2, <1>3, <3>1, <3>2 DEF GoesOn
    <3> QED BY <2>1, <3>3, FrameSizes
  <2>5. Awaited(s, Due(s), Size(s) + 1)'
    <3>1. \E g \in ToCome(s)' : Msg(g) = k /\ Place(g) = FirstChunk + 1
      BY <2>4 DEF Awaited
    <3> QED BY <1>9, <2>1, <2>2, <3>1 DEF Awaited
  <2>6. transfers'[s].buffer[1][2] = Due(s)'
    <3>1. <<s, k, 1>>[2] = k
      OBVIOUS
    <3> QED BY <1>9, <2>1, <2>2, <3>1
  <2>7. \E i \in Nat \ {0} : Size(s)' = Start(i) - 1 /\ transfers'[s].sn = i % SnMod
    <3>1. 1 = 1 % SnMod
      <4>1. SnMod \in Nat /\ SnMod > 1
        BY FrameSizes
      <4> QED BY <4>1, SnTurns
    <3>2. Size(s)' = Start(1) - 1
      BY <1>9, <1>10, FrameSizes
    <3> QED BY <1>9, <1>10, <3>1, <3>2
  <2> QED BY <1>9, <2>1, <2>3, <2>5, <2>6, <2>7 DEF LosslessInv
<1> QED BY <1>7, <1>8, <1>13, <1>14 DEF EcuHolds

\* Two sequences in a row, place by place.
LEMMA ConcatIs ==
  ASSUME NEW S, NEW a \in Seq(S), NEW b \in Seq(S)
  PROVE  /\ a \o b \in Seq(S) /\ Len(a \o b) = Len(a) + Len(b)
         /\ \A m \in 1..Len(a) : (a \o b)[m] = a[m]
         /\ \A m \in 1..Len(b) : (a \o b)[Len(a) + m] = b[m]
OBVIOUS

\* A transfer with a new buffer and number.
LEMMA UpdatedIs ==
  ASSUME NEW S, NEW r \in [total : Nat, buffer : S, sn : Nat], NEW b \in S, NEW n \in Nat
  PROVE  [r EXCEPT !.buffer = b, !.sn = n] = [total |-> r.total, buffer |-> b, sn |-> n]
<1>1. PICK q : q = [r EXCEPT !.buffer = b, !.sn = n]
  OBVIOUS
<1>2. q \in [total : Nat, buffer : S, sn : Nat]
  BY <1>1
<1>3. q.total = r.total /\ q.buffer = b /\ q.sn = n
  BY <1>1
<1> QED BY <1>1, <1>2, <1>3

\* A transfer that goes on with a frame of its number.
LEMMA GrownIs ==
  ASSUME NEW tr \in Transfer, tr # NoTransfer, NEW f \in BusFrame, f.pci = "CF", f.n = tr.sn,
         Len(tr.buffer) < tr.total
  PROVE  \E bytes \in Seq(Datum), t \in Nat :
           /\ t = Least(tr.total - Len(tr.buffer), Len(f.data))
           /\ Len(bytes) = Len(tr.buffer) + t
           /\ \A m \in 1..Len(tr.buffer) : bytes[m] = tr.buffer[m]
           /\ \A m \in 1..t : bytes[Len(tr.buffer) + m] = f.data[m]
           /\ ProcessFrame(tr, f) =
                IF Len(bytes) >= tr.total THEN Outcome(NoTransfer, bytes, FALSE, FALSE)
                ELSE Outcome([total |-> tr.total, buffer |-> bytes, sn |-> NextSn(tr.sn)],
                             <<>>, FALSE, FALSE)
<1>1. tr.buffer \in Seq(Datum) /\ f.data \in Seq(Datum) /\ tr.total \in Nat
  <2> HIDE DEF Datum
  <2> QED BY DEF Transfer, BusFrame
<1>2. PICK z \in Nat, len \in Nat, t \in Nat :
        /\ z = Len(tr.buffer) /\ len = Len(f.data) /\ t = Least(tr.total - z, len)
        /\ t <= len
  <2>1. Len(tr.buffer) \in Nat /\ Len(f.data) \in Nat
    <3> HIDE DEF Datum
    <3> QED BY <1>1
  <2>2. PICK z \in Nat, len \in Nat : z = Len(tr.buffer) /\ len = Len(f.data)
    BY <2>1
  <2>3. /\ Least(tr.total - z, len) \in Nat /\ Least(tr.total - z, len) <= len
    BY <1>1, <2>2 DEF Least
  <2> QED BY <2>2, <2>3
<1>3. PICK taken \in Seq(Datum) : /\ taken = SubSeq(f.data, 1, t) /\ Len(taken) = t
                                  /\ \A m \in 1..t : taken[m] = f.data[m]
  <2> HIDE DEF Datum
  <2>1. /\ SubSeq(f.data, 1, t) \in Seq(Datum) /\ Len(SubSeq(f.data, 1, t)) = t
        /\ \A m \in 1..t : SubSeq(f.data, 1, t)[m] = f.data[m]
    BY <1>1, <1>2
  <2> QED BY <2>1
<1>4. PICK bytes \in Seq(Datum) :
        /\ bytes = tr.buffer \o taken /\ Len(bytes) = z + t
        /\ \A m \in 1..z : bytes[m] = tr.buffer[m]
        /\ \A m \in 1..t : bytes[z + m] = taken[m]
  <2> HIDE DEF Datum
  <2>1. PICK b \in Seq(Datum) : b = tr.buffer /\ Len(b) = z
    BY <1>1, <1>2
  <2>2. PICK bytes \in Seq(Datum) : bytes = b \o taken
    BY ConcatIs
  <2>3. /\ Len(bytes) = Len(b) + Len(taken) /\ \A m \in 1..Len(b) : bytes[m] = b[m]
        /\ \A m \in 1..Len(taken) : bytes[Len(b) + m] = taken[m]
    BY <2>2, ConcatIs
  <2>4. /\ Len(bytes) = z + t /\ \A m \in 1..z : bytes[m] = b[m]
        /\ \A m \in 1..t : bytes[z + m] = taken[m]
    BY <1>3, <2>1, <2>3
  <2> QED BY <2>1, <2>2, <2>4
<1>5. ProcessFrame(tr, f) = OnConsecutive(tr, f)
  BY DEF ProcessFrame
<1> DEFINE grown == [tr EXCEPT !.buffer = @ \o taken, !.sn = NextSn(@)]
<1>6. OnConsecutive(tr, f) =
        IF Len(grown.buffer) >= tr.total THEN Outcome(NoTransfer, grown.buffer, FALSE, FALSE)
        ELSE Outcome(grown, <<>>, FALSE, FALSE)
  <2>1. SubSeq(f.data, 1, Least(Remaining(tr), Len(f.data))) = taken
    BY <1>2, <1>3 DEF Remaining
  <2> DEFINE part == SubSeq(f.data, 1, Least(Remaining(tr), Len(f.data)))
             next == [tr EXCEPT !.buffer = @ \o part, !.sn = NextSn(@)]
  <2>2. OnConsecutive(tr, f) =
          CASE tr = NoTransfer -> Outcome(tr, <<>>, FALSE, FALSE)
            [] tr # NoTransfer /\ f.n # tr.sn -> Outcome(NoTransfer, <<>>, FALSE, TRUE)
            [] tr # NoTransfer /\ f.n = tr.sn ->
                 IF Len(next.buffer) >= tr.total
                 THEN Outcome(NoTransfer, next.buffer, FALSE, FALSE)
                 ELSE Outcome(next, <<>>, FALSE, FALSE)
    BY Zenon DEF OnConsecutive
  <2>3. next = grown
    BY <2>1
  <2> HIDE DEF next, part, grown
  <2>4. OnConsecutive(tr, f) = IF Len(next.buffer) >= tr.total
                               THEN Outcome(NoTransfer, next.buffer, FALSE, FALSE)
                               ELSE Outcome(next, <<>>, FALSE, FALSE)
    <3> HIDE DEF NoTransfer, Outcome
    <3> QED BY <2>2
  <2> QED BY <2>3, <2>4
<1>7. grown = [total |-> tr.total, buffer |-> bytes, sn |-> NextSn(tr.sn)]
  <2>1. grown = [tr EXCEPT !.buffer = tr.buffer \o taken, !.sn = NextSn(tr.sn)]
    OBVIOUS
  <2>2. PICK n \in Nat : n = NextSn(tr.sn)
    <3>1. tr.sn \in Nat /\ SnMod \in Nat \ {0}
      BY FrameSizes DEF Transfer
    <3>2. PICK m \in Nat : m = tr.sn + 1
      BY <3>1
    <3>3. m % SnMod \in Nat
      BY <3>1
    <3> QED BY <3>2, <3>3 DEF NextSn
  <2>3. grown = [tr EXCEPT !.buffer = bytes, !.sn = n]
    BY <1>4, <2>1, <2>2
  <2>4. tr \in [total : Nat, buffer : Seq(Datum), sn : Nat]
    BY DEF Transfer
  <2> HIDE DEF grown, Datum
  <2> QED BY <2>2, <2>3, <2>4, UpdatedIs
<1>8. grown.buffer = bytes
  BY <1>7
<1> HIDE DEF grown
<1>9. ProcessFrame(tr, f) =
        IF Len(bytes) >= tr.total THEN Outcome(NoTransfer, bytes, FALSE, FALSE)
        ELSE Outcome([total |-> tr.total, buffer |-> bytes, sn |-> NextSn(tr.sn)],
                     <<>>, FALSE, FALSE)
  BY <1>5, <1>6, <1>7, <1>8
<1>10. \A m \in 1..t : bytes[z + m] = f.data[m]
  BY <1>3, <1>4
<1> HIDE DEF Datum
<1> QED BY <1>2, <1>4, <1>9, <1>10

\* A consecutive frame of a transfer in progress, and where it stands.
InStep(s, f, k, i, z, len) ==
  /\ k \in 1..Len(Script[s]) /\ k = Msg(f) /\ Place(f) = Start(i) /\ IsTransferOf(s, k)
  /\ f \in BusFrame /\ f.n = i % SnMod /\ z = Size(s) /\ len = Len(f.data)
  /\ Start(i) \in Nat /\ Start(i) > z /\ Start(i) <= Script[s][k] /\ Script[s][k] \in Nat
  /\ transfers[s].total = Script[s][k] /\ z < Script[s][k] /\ z >= FirstChunk
  /\ len <= NextChunk /\ (<<s, k>> \notin shortened => len = NextChunk)
  /\ \A m \in 1..len : Start(i) + m - 1 <= Script[s][k] =>
       f.data[m] = <<s, k, Start(i) + m - 1>>
  /\ \A g \in ToCome(s)' : k < Msg(g) \/ (/\ k = Msg(g) /\ Place(g) \in Nat
                                          /\ Place(g) >= Start(i) + NextChunk
                                          /\ Place(g) <= Script[s][k])
  /\ \/ <<s, k>> \in shortened
     \/ \E j \in Nat \ {0} :
          /\ z = Start(j) - 1 /\ Start(j) \in Nat
          /\ \/ j = i /\ \A m \in 1..z : transfers[s].buffer[m] = <<s, k, m>>
             \/ Start(i) >= Start(j) + NextChunk

\* Every consecutive frame taken during a transfer is in step with it.
LEMMA InStepIs ==
  ASSUME TablesInv, NEW s \in Sources, EcuHolds(s), NEW f, Taking(s, f), f.pci = "CF",
         transfers[s] # NoTransfer
  PROVE  \E k \in 1..current[s], i \in Nat \ {0}, z \in Nat, len \in Nat \ {0} :
           InStep(s, f, k, i, z, len)
<1>1. /\ EcuInv(s) /\ WayInv(s) /\ TransferInv(s) /\ f \in ToCome(s) /\ f \in Sent(s)
      /\ \A g \in ToCome(s)' : g \in ToCome(s) /\ Before(f, g)
  BY DEF EcuHolds, Taking, ToCome
<1>2. PICK k \in 1..current[s] : IsTransferOf(s, k)
  BY <1>1 DEF TransferInv
<1>3. f \in Coming(s)
  BY <1>1 DEF Coming
<1>4. /\ k = Msg(f) /\ Place(f) > Size(s) /\ transfers[s].total = Script[s][k]
      /\ Size(s) \in FirstChunk..(Script[s][k] - 1)
      /\ <<s, k>> \in shortened \/ \E j \in Nat \ {0} : Whole(s, k, j)
  BY <1>2, <1>3 DEF IsTransferOf
<1>5. k \in 1..Len(Script[s]) /\ Script[s][k] \in Nat \ {0} /\ k \in Nat
  BY <1>1, <1>4, ToComeNumbers
<1>6. Place(f) # 1
  <2>1. Place(f) = 1 => f.pci # "CF"
    BY <1>1, ToComeNumbers
  <2> QED BY <2>1
<1>7. PICK i \in Nat \ {0} : Place(f) = Start(i) /\ Follows(s, k, i, f)
  BY <1>1, <1>4, <1>6, ToComeNumbers
<1>8. PICK len \in Nat \ {0} :
         /\ len = Len(f.data) /\ f \in BusFrame /\ f.n = i % SnMod
         /\ Start(i) \in Nat /\ Start(i) <= Script[s][k] /\ Long(s, k)
         /\ len <= NextChunk /\ (<<s, k>> \notin shortened => len = NextChunk)
         /\ \A m \in 1..len : Start(i) + m - 1 <= Script[s][k] =>
              f.data[m] = <<s, k, Start(i) + m - 1>>
  <2>1. /\ f \in BusFrame /\ f.n = i % SnMod
        /\ Start(i) \in Nat /\ Start(i) <= Script[s][k] /\ Long(s, k)
        /\ Len(f.data) \in Nat \ {0} /\ Len(f.data) <= NextChunk
        /\ (<<s, k>> \notin shortened => Len(f.data) = NextChunk)
        /\ \A m \in 1..Len(f.data) : Start(i) + m - 1 <= Script[s][k] =>
             f.data[m] = <<s, k, Start(i) + m - 1>>
    BY <1>5, <1>7, FollowIs
  <2>2. PICK len \in Nat \ {0} : len = Len(f.data)
    BY <2>1
  <2> QED BY <2>1, <2>2
<1>9. PICK z \in Nat : z = Size(s) /\ z >= FirstChunk /\ z < Script[s][k]
  BY <1>4, <1>5, FrameSizes
<1>10. ASSUME NEW g \in ToCome(s)'
       PROVE  k < Msg(g) \/ (/\ k = Msg(g) /\ Place(g) \in Nat
                             /\ Place(g) >= Start(i) + NextChunk
                             /\ Place(g) <= Script[s][k])
  <2>1. g \in ToCome(s) /\ Before(f, g)
    BY <1>1
  <2>2. CASE Msg(g) = k
    <3>1. Place(g) > Start(i) /\ Place(g) \in Nat /\ Place(g) <= Script[s][k]
      BY <1>1, <1>4, <1>5, <1>7, <2>1, <2>2, ToComeNumbers DEF Before
    <3>2. Place(g) # 1
      BY <1>8, <3>1, <1>4, <1>7, <1>9
    <3>3. PICK j \in Nat \ {0} : Place(g) = Start(j)
      BY <1>1, <2>1, <3>2, ToComeNumbers
    <3>4. i < j
      <4>1. ASSUME j < i PROVE FALSE
        <5>1. Start(j) + NextChunk <= Start(i)
          BY <4>1, StartsApart
        <5>2. Start(j) \in Nat /\ Start(i) \in Nat /\ NextChunk \in Nat
          BY StartsApart, FrameSizes
        <5> QED BY <3>1, <3>3, <5>1, <5>2
      <4>2. ASSUME j = i PROVE FALSE
        BY <1>8, <3>1, <3>3, <4>2
      <4> QED BY <4>1, <4>2
    <3>5. Start(i) + NextChunk <= Start(j)
      BY <3>4, StartsApart
    <3> QED BY <1>8, <2>2, <3>1, <3>3, <3>5, FrameSizes
  <2>3. CASE Msg(g) # k
    <3>1. Msg(g) \in Nat
      BY <1>1, <2>1, ToComeNumbers
    <3> QED BY <1>4, <1>5, <2>1, <2>3, <3>1 DEF Before
  <2> QED BY <2>2, <2>3
<1>11. ASSUME <<s, k>> \notin shortened
       PROVE  \E j \in Nat \ {0} :
                /\ z = Start(j) - 1 /\ Start(j) \in Nat
                /\ \/ j = i /\ \A m \in 1..z : transfers[s].buffer[m] = <<s, k, m>>
                   \/ Start(i) >= Start(j) + NextChunk
  <2>1. PICK j \in Nat \ {0} : Whole(s, k, j)
    BY <1>4, <1>11
  <2>2. /\ z = Start(j) - 1 /\ Start(j) \in Nat /\ Start(j + 1) = Start(j) + NextChunk
        /\ \/ \A m \in 1..z : transfers[s].buffer[m] = <<s, k, m>>
           \/ Place(f) >= Start(j + 1)
    BY <1>3, <1>9, <2>1, StartsApart DEF Whole
  <2>3. i = j \/ Start(i) >= Start(j) + NextChunk
    <3>1. ASSUME i < j PROVE FALSE
      <4>1. Start(i) + NextChunk <= Start(j)
        BY <3>1, StartsApart
      <4>2. Start(i) > z
        BY <1>4, <1>7, <1>9
      <4> QED BY <1>8, <1>9, <2>2, <4>1, <4>2, FrameSizes
    <3>2. ASSUME j < i PROVE Start(i) >= Start(j) + NextChunk
      BY <1>8, <2>2, <3>2, StartsApart, FrameSizes
    <3> QED BY <3>1, <3>2
  <2> QED BY <1>7, <2>2, <2>3
<1>12. Start(i) > z
  BY <1>4, <1>7, <1>9
<1>13. InStep(s, f, k, i, z, len)
  BY <1>2, <1>4, <1>5, <1>7, <1>8, <1>9, <1>10, <1>11, <1>12 DEF InStep
<1> QED BY <1>13

\* A consecutive frame out of its order ends the transfer: frames were lost.
LEMMA StraggleKeeps ==
  ASSUME TablesInv, NEW s \in Sources, EcuHolds(s), NEW f, Taking(s, f), Feeds(s, f),
         f.pci = "CF", transfers[s] = NoTransfer \/ f.n # transfers[s].sn
  PROVE  EcuHolds(s)' /\ ~ LosslessInv(s)
<1>1. /\ EcuInv(s) /\ WayInv(s) /\ f \in ToCome(s)
  BY DEF EcuHolds, Taking, ToCome
<1>2. transfers'[s] = NoTransfer /\ allowed'[s] = allowed[s] /\ delivered'[s] = delivered[s]
  <2>1. ProcessFrame(transfers[s], f) = OnConsecutive(transfers[s], f)
    BY DEF ProcessFrame
  <2>2. /\ ProcessFrame(transfers[s], f).transfer = NoTransfer
        /\ ProcessFrame(transfers[s], f).message = <<>>
        /\ ProcessFrame(transfers[s], f).fc = FALSE
    <3>1. CASE transfers[s] = NoTransfer
      <4>1. OnConsecutive(transfers[s], f) = Outcome(transfers[s], <<>>, FALSE, FALSE)
        BY <3>1 DEF OnConsecutive
      <4> QED BY <2>1, <3>1, <4>1 DEF Outcome
    <3>2. CASE transfers[s] # NoTransfer
      <4>1. OnConsecutive(transfers[s], f) = Outcome(NoTransfer, <<>>, FALSE, TRUE)
        BY <3>2 DEF OnConsecutive
      <4> QED BY <2>1, <4>1 DEF Outcome
    <3> QED BY <3>1, <3>2
  <2>3. allowed[s] \in BOOLEAN
    BY DEF TablesInv
  <2>4. transfers'[s] = NoTransfer /\ delivered'[s] = delivered[s]
    BY <2>2 DEF Feeds
  <2>5. allowed'[s] = (allowed[s] \/ FALSE)
    BY <2>2, Zenon DEF Feeds
  <2> QED BY <2>3, <2>4, <2>5
<1>3. EcuHolds(s)'
  BY <1>2, StrayKeeps
<1>4. ASSUME LosslessInv(s) PROVE FALSE
  <2>1. Place(f) = IF transfers[s] = NoTransfer THEN 1 ELSE Size(s) + 1
    BY <1>4, FirstIs
  <2>2. Place(f) # 1
    <3>1. Place(f) = 1 => f.pci # "CF"
      BY <1>1, ToComeNumbers
    <3> QED BY <3>1
  <2>3. transfers[s] # NoTransfer /\ Place(f) = Size(s) + 1 /\ f.n # transfers[s].sn
    BY <2>1, <2>2
  <2>4. PICK k \in 1..current[s], i \in Nat \ {0}, z \in Nat, len \in Nat \ {0} :
          InStep(s, f, k, i, z, len)
    BY <2>3, InStepIs
  <2>5. Place(f) = Start(i) /\ f.n = i % SnMod /\ z = Size(s) /\ Start(i) \in Nat
    BY <2>4 DEF InStep
  <2>6. PICK j \in Nat \ {0} : Size(s) = Start(j) - 1 /\ transfers[s].sn = j % SnMod
    BY <1>4, <2>3 DEF LosslessInv
  <2>7. Start(j) \in Nat
    BY StartsApart
  <2>8. Start(i) = Start(j)
    BY <2>3, <2>5, <2>6, <2>7
  <2>9. i = j
    <3>1. NextChunk \in Nat \ {0}
      BY FrameSizes
    <3>2. ASSUME i < j PROVE FALSE
      BY <2>5, <2>8, <3>1, <3>2, StartsApart
    <3>3. ASSUME j < i PROVE FALSE
      BY <2>5, <2>8, <3>1, <3>3, StartsApart
    <3> QED BY <3>2, <3>3
  <2> QED BY <2>3, <2>5, <2>6, <2>9
<1> QED BY <1>3, <1>4

\* A frame of the number the transfer waits for, and the buffer it fills.
Stepped(s, f, k, i, z, len, bytes, t) ==
  /\ InStep(s, f, k, i, z, len)
  /\ t = Least(Script[s][k] - z, len) /\ Len(bytes) = z + t
  /\ \A m \in 1..z : bytes[m] = transfers[s].buffer[m]
  /\ \A m \in 1..t : bytes[z + m] = f.data[m]
  /\ allowed'[s] = allowed[s]
  /\ IF z + t >= Script[s][k]
     THEN transfers'[s] = NoTransfer /\ delivered'[s] = Append(delivered[s], bytes)
     ELSE /\ delivered'[s] = delivered[s]
          /\ transfers'[s] = [total |-> Script[s][k], buffer |-> bytes, sn |-> NextSn(f.n)]

\* A frame of that number steps the transfer on.
LEMMA SteppedIs ==
  ASSUME TablesInv, NEW s \in Sources, EcuHolds(s), NEW f, Taking(s, f), Feeds(s, f),
         f.pci = "CF", transfers[s] # NoTransfer, f.n = transfers[s].sn
  PROVE  \E k \in 1..current[s], i \in Nat \ {0}, z \in Nat, len \in Nat \ {0},
            bytes \in Seq(Datum), t \in Nat : Stepped(s, f, k, i, z, len, bytes, t)
<1>1. PICK k \in 1..current[s], i \in Nat \ {0}, z \in Nat, len \in Nat \ {0} :
        InStep(s, f, k, i, z, len)
  BY InStepIs
<1>2. PICK tr \in Transfer : tr = transfers[s]
  BY DEF TablesInv
<1>3. /\ f \in BusFrame /\ z = Len(tr.buffer) /\ len = Len(f.data) /\ z < tr.total
      /\ tr.total = Script[s][k] /\ z >= FirstChunk
  BY <1>1, <1>2 DEF InStep, Size
<1>4. PICK bytes \in Seq(Datum), t \in Nat :
        /\ t = Least(tr.total - Len(tr.buffer), Len(f.data))
        /\ Len(bytes) = Len(tr.buffer) + t
        /\ \A m \in 1..Len(tr.buffer) : bytes[m] = tr.buffer[m]
        /\ \A m \in 1..t : bytes[Len(tr.buffer) + m] = f.data[m]
        /\ ProcessFrame(tr, f) =
             IF Len(bytes) >= tr.total THEN Outcome(NoTransfer, bytes, FALSE, FALSE)
             ELSE Outcome([total |-> tr.total, buffer |-> bytes, sn |-> NextSn(tr.sn)],
                          <<>>, FALSE, FALSE)
  <2> HIDE DEF Transfer, NoTransfer, BusFrame, Datum, Outcome
  <2> QED BY <1>2, <1>3, GrownIs
<1>5. /\ t = Least(Script[s][k] - z, len) /\ Len(bytes) = z + t
      /\ \A m \in 1..z : bytes[m] = transfers[s].buffer[m]
      /\ \A m \in 1..t : bytes[z + m] = f.data[m]
  BY <1>2, <1>3, <1>4
<1>6. bytes # <<>>
  <2>1. Len(<<>>) = 0
    OBVIOUS
  <2> QED BY <1>3, <1>5, <2>1, FrameSizes
<1>7. CASE z + t >= Script[s][k]
  <2>1. ProcessFrame(transfers[s], f) = Outcome(NoTransfer, bytes, FALSE, FALSE)
    BY <1>2, <1>3, <1>4, <1>5, <1>7
  <2>2. /\ ProcessFrame(transfers[s], f).transfer = NoTransfer
        /\ ProcessFrame(transfers[s], f).message = bytes
        /\ ProcessFrame(transfers[s], f).fc = FALSE
    BY <2>1 DEF Outcome
  <2>3. transfers'[s] = NoTransfer /\ delivered'[s] = Append(delivered[s], bytes)
    BY <1>6, <2>2 DEF Feeds
  <2>4. allowed'[s] = (allowed[s] \/ FALSE)
    BY <2>2, Zenon DEF Feeds
  <2>5. allowed[s] \in BOOLEAN
    BY DEF TablesInv
  <2>6. allowed'[s] = allowed[s]
    BY <2>4, <2>5
  <2>7. Stepped(s, f, k, i, z, len, bytes, t)
    BY <1>1, <1>5, <1>7, <2>3, <2>6 DEF Stepped
  <2> QED BY <2>7
<1>8. CASE ~ (z + t >= Script[s][k])
  <2>1. ProcessFrame(transfers[s], f) =
          Outcome([total |-> tr.total, buffer |-> bytes, sn |-> NextSn(tr.sn)], <<>>, FALSE, FALSE)
    BY <1>2, <1>3, <1>4, <1>5, <1>8
  <2>2. /\ ProcessFrame(transfers[s], f).transfer =
             [total |-> tr.total, buffer |-> bytes, sn |-> NextSn(tr.sn)]
        /\ ProcessFrame(transfers[s], f).message = <<>>
        /\ ProcessFrame(transfers[s], f).fc = FALSE
    BY <2>1 DEF Outcome
  <2>3. /\ transfers'[s] = [total |-> Script[s][k], buffer |-> bytes, sn |-> NextSn(f.n)]
        /\ delivered'[s] = delivered[s]
    BY <1>2, <1>3, <2>2 DEF Feeds
  <2>4. allowed'[s] = (allowed[s] \/ FALSE)
    BY <2>2, Zenon DEF Feeds
  <2>5. allowed[s] \in BOOLEAN
    BY DEF TablesInv
  <2>6. allowed'[s] = allowed[s]
    BY <2>4, <2>5
  <2>7. Stepped(s, f, k, i, z, len, bytes, t)
    BY <1>1, <1>5, <1>8, <2>3, <2>6 DEF Stepped
  <2> QED BY <2>7
<1> QED BY <1>7, <1>8

\* A transfer that has taken a frame and waits for more.
LEMMA PartlyKeeps ==
  ASSUME TablesInv, NEW s \in Sources, EcuHolds(s), NEW f, Taking(s, f), f.pci = "CF",
         NEW k \in 1..current[s], NEW i \in Nat \ {0}, NEW z \in Nat, NEW len \in Nat \ {0},
         NEW bytes \in Seq(Datum), NEW t \in Nat, Stepped(s, f, k, i, z, len, bytes, t),
         z + t < Script[s][k]
  PROVE  EcuHolds(s)' /\ (shortened = {} /\ LosslessInv(s) => LosslessInv(s)')
<1>1. /\ EcuInv(s) /\ WayInv(s) /\ DeliveredInv(s) /\ current[s] \in Nat
      /\ f \in ToCome(s) /\ f \in Sent(s)
      /\ current'[s] = current[s] /\ shortened' = shortened
      /\ \A g \in ToCome(s)' : g \in ToCome(s) /\ Before(f, g)
  BY DEF EcuHolds, Taking, ToCome, TablesInv
<1>2. /\ k \in 1..Len(Script[s]) /\ k = Msg(f) /\ Place(f) = Start(i) /\ f.n = i % SnMod
      /\ Start(i) \in Nat /\ Start(i) > z /\ Start(i) <= Script[s][k] /\ Script[s][k] \in Nat
      /\ z < Script[s][k] /\ z >= FirstChunk /\ z = Size(s)
      /\ len <= NextChunk /\ (<<s, k>> \notin shortened => len = NextChunk)
  BY DEF Stepped, InStep
<1>3. /\ transfers'[s] = [total |-> Script[s][k], buffer |-> bytes, sn |-> NextSn(f.n)]
      /\ allowed'[s] = allowed[s] /\ delivered'[s] = delivered[s]
  <2>1. ~ (z + t >= Script[s][k])
    BY <1>2
  <2> QED BY <2>1 DEF Stepped
<1>4. t = len /\ Len(bytes) = z + t
  <2>1. t = Least(Script[s][k] - z, len) /\ Len(bytes) = z + t
    BY DEF Stepped
  <2>2. t = Script[s][k] - z \/ t = len
    BY <2>1 DEF Least
  <2> QED BY <1>2, <2>1, <2>2
<1>5. \A m \in 1..z : bytes[m] = transfers[s].buffer[m]
  BY DEF Stepped
<1>6. IsTransferOf(s, k)
  BY DEF Stepped, InStep
<1>7. /\ transfers'[s].total = Script[s][k] /\ transfers'[s].buffer = bytes
      /\ transfers'[s].sn = NextSn(f.n) /\ Size(s)' = z + len
      /\ transfers'[s].buffer[1] = <<s, k, 1>> /\ transfers'[s] # NoTransfer
  <2>1. /\ transfers'[s].total = Script[s][k] /\ transfers'[s].buffer = bytes
        /\ transfers'[s].sn = NextSn(f.n)
    BY <1>3
  <2>2. Size(s)' = z + len
    BY <1>4, <2>1 DEF Size
  <2>3. 1 \in 1..z
    BY <1>2, FrameSizes
  <2>4. transfers[s].buffer[1] = <<s, k, 1>>
    BY <1>6 DEF IsTransferOf
  <2>5. Script[s][k] # 0
    BY <1>2
  <2>6. transfers'[s] # NoTransfer
    BY <2>1, <2>5 DEF NoTransfer
  <2> QED BY <1>5, <2>1, <2>2, <2>3, <2>4, <2>6
<1>8. EcuInv(s)' /\ WayInv(s)'
  BY <1>1, <1>3, TakingWay
<1>9. DeliveredInv(s)'
  <2>1. \A g \in ToCome(s)' : \E h \in ToCome(s) : Alike(g, h)
    BY <1>1 DEF Alike
  <2>2. current'[s] \in Nat /\ current[s] <= current'[s] /\ shortened \subseteq shortened'
    BY <1>1
  <2> QED BY <1>1, <1>3, <2>1, <2>2, DeliveredKept
<1>10. ASSUME NEW g \in Coming(s)'
       PROVE  Msg(g) = k /\ Place(g) \in Nat /\ Place(g) >= Start(i) + NextChunk
  <2>1. g \in Coming(s)
    BY <1>3 DEF Coming, Taking
  <2>2. Msg(g) = k
    BY <1>6, <2>1 DEF IsTransferOf
  <2>3. g \in ToCome(s)'
    BY DEF Coming, ToCome
  <2>4. k < Msg(g) \/ (Place(g) \in Nat /\ Place(g) >= Start(i) + NextChunk)
    BY <2>3 DEF Stepped, InStep
  <2>5. k \in Nat
    OBVIOUS
  <2> QED BY <2>2, <2>4, <2>5
<1>11. IsTransferOf(s, k)'
  <2>1. \A g \in Coming(s)' : Msg(g) = k /\ Place(g) > Size(s)'
    <3>1. ASSUME NEW g \in Coming(s)' PROVE Msg(g) = k /\ Place(g) > Size(s)'
      <4>1. Msg(g) = k /\ Place(g) \in Nat /\ Place(g) >= Start(i) + NextChunk
        BY <1>10
      <4>2. PICK a \in Nat, chunk \in Nat : a = Start(i) /\ chunk = NextChunk
        BY <1>2, FrameSizes
      <4>3. a > z /\ len <= chunk /\ Size(s)' = z + len
        BY <1>2, <1>7, <4>2
      <4> QED BY <4>1, <4>2, <4>3
    <3> QED BY <3>1
  <2>2. Size(s)' \in FirstChunk..(Script[s][k] - 1)
    <3>1. z + len \in Nat /\ z + len >= FirstChunk /\ z + len < Script[s][k]
      <4>1. FirstChunk \in Nat /\ z >= FirstChunk /\ z + len < Script[s][k]
        BY <1>2, <1>4, FrameSizes
      <4> QED BY <4>1
    <3>2. FirstChunk \in Nat /\ Script[s][k] \in Nat
      BY <1>2, FrameSizes
    <3>3. z + len \in FirstChunk..(Script[s][k] - 1)
      BY <3>1, <3>2
    <3> QED BY <1>7, <3>3
  <2>3. Long(s, k) /\ (k = current[s] => allowed[s])
    BY <1>6 DEF IsTransferOf
  <2>4. ASSUME <<s, k>> \notin shortened PROVE \E j \in Nat \ {0} : Whole(s, k, j)'
    <3>1. PICK j \in Nat \ {0} :
            /\ z = Start(j) - 1 /\ Start(j) \in Nat
            /\ \/ j = i /\ \A m \in 1..z : transfers[s].buffer[m] = <<s, k, m>>
               \/ Start(i) >= Start(j) + NextChunk
      BY <2>4 DEF Stepped, InStep
    <3>2. PICK j1 \in Nat \ {0} : j1 = j + 1
      OBVIOUS
    <3>3. /\ Start(j1) = Start(j) + NextChunk /\ Start(j1 + 1) = Start(j1) + NextChunk
          /\ Start(j1) \in Nat
      BY <3>2, StartsApart
    <3>4. len = NextChunk /\ Size(s)' = Start(j1) - 1
      <4>1. len = NextChunk /\ Size(s)' = z + len
        BY <1>2, <1>7, <2>4
      <4>2. PICK a \in Nat, chunk \in Nat : a = Start(j) /\ chunk = NextChunk
        BY <3>1, FrameSizes
      <4>3. z = a - 1 /\ Start(j1) = a + chunk
        BY <3>1, <3>3, <4>2
      <4> QED BY <4>1, <4>2, <4>3
    <3>5. CASE j = i /\ \A m \in 1..z : transfers[s].buffer[m] = <<s, k, m>>
      <4>1. ASSUME NEW m \in 1..(z + len) PROVE bytes[m] = <<s, k, m>>
        <5>1. CASE m \in 1..z
          BY <1>5, <3>5, <5>1
        <5>2. CASE m \notin 1..z
          <6>1. PICK q \in 1..len : m = z + q
            <7>1. m - z \in 1..len /\ m = z + (m - z)
              BY <5>2
            <7> QED BY <7>1
          <6>2. Start(i) = z + 1 /\ Start(i) + q - 1 = m /\ m <= Script[s][k]
            <7>1. Start(i) = z + 1
              BY <1>2, <3>1, <3>5
            <7>2. Script[s][k] \in Nat /\ z + len < Script[s][k]
              BY <1>2, <1>4
            <7>3. m <= z + len
              OBVIOUS
            <7>4. m <= Script[s][k]
              BY <7>2, <7>3
            <7> QED BY <6>1, <7>1, <7>4
          <6>3. f.data[q] = <<s, k, m>>
            <7>1. Start(i) + q - 1 <= Script[s][k] =>
                    f.data[q] = <<s, k, Start(i) + q - 1>>
              BY DEF Stepped, InStep
            <7> QED BY <6>2, <7>1
          <6>4. bytes[z + q] = f.data[q]
            BY <1>4 DEF Stepped
          <6> QED BY <6>1, <6>3, <6>4
        <5> QED BY <5>1, <5>2
      <4>2. \A m \in 1..Size(s)' : transfers'[s].buffer[m] = <<s, k, m>>
        BY <1>7, <4>1
      <4>3. Whole(s, k, j1)'
        BY <3>4, <4>2 DEF Whole
      <4> QED BY <4>3
    <3>6. CASE Start(i) >= Start(j) + NextChunk
      <4>1. \A g \in Coming(s)' : Place(g) >= Start(j1 + 1)
        <5>1. ASSUME NEW g \in Coming(s)' PROVE Place(g) >= Start(j1 + 1)
          <6>1. Place(g) \in Nat /\ Place(g) >= Start(i) + NextChunk
            BY <1>10
          <6>2. NextChunk \in Nat /\ Start(i) \in Nat /\ Start(j) \in Nat
            BY <1>2, <3>1, FrameSizes
          <6>3. Start(j1 + 1) = Start(j) + NextChunk + NextChunk
            BY <3>3
          <6> QED BY <3>6, <6>1, <6>2, <6>3
        <5> QED BY <5>1
      <4>2. Whole(s, k, j1)'
        BY <3>4, <4>1 DEF Whole
      <4> QED BY <4>2
    <3> QED BY <3>1, <3>5, <3>6
  <2>5. Long(s, k)' /\ (k = current'[s] => allowed'[s])
    BY <1>1, <1>3, <2>3 DEF Long
  <2> QED BY <1>1, <1>7, <2>1, <2>2, <2>4, <2>5 DEF IsTransferOf
<1>12. TransferInv(s)'
  BY <1>1, <1>11 DEF TransferInv
<1>13. ASSUME shortened = {}, LosslessInv(s) PROVE LosslessInv(s)'
  <2>1. /\ Due(s) = k /\ Start(i) = z + 1
        /\ \A h, p : Awaited(s, h, p) /\ ~ (h = k /\ p = Start(i)) => Awaited(s, h, p)'
        /\ \A g \in ToCome(s)' : GoesOn(s, g)'
    <3>1. transfers[s] # NoTransfer
      <4>1. ASSUME transfers[s] = NoTransfer PROVE FALSE
        <5>1. Len(<<>>) = 0
          OBVIOUS
        <5>2. z = 0
          BY <1>2, <4>1, <5>1 DEF Size, NoTransfer
        <5> QED BY <1>2, <5>2, FrameSizes
      <4> QED BY <4>1
    <3>2. /\ Due(s) = Msg(f) /\ Place(f) = Size(s) + 1
          /\ \A h, p : Awaited(s, h, p) /\ ~ (h = Msg(f) /\ p = Place(f)) => Awaited(s, h, p)'
          /\ \A g \in ToCome(s)' : GoesOn(s, g)'
      BY <1>13, <3>1, FirstIs
    <3> QED BY <1>2, <3>2
  <2>2. Due(s)' = Due(s) /\ \A j : Number(s, j)' = Number(s, j)
    BY <1>3 DEF Due, Number
  <2>3. \A j \in 1..Len(delivered'[s]) : Number(s, j)' = j
    BY <1>3, <1>13, <2>2 DEF LosslessInv
  <2>4. len = NextChunk /\ Size(s)' + 1 = Start(i) + NextChunk /\ Size(s)' + 1 <= Script[s][k]
    <3>1. len = NextChunk
      BY <1>2, <1>13
    <3>2. Script[s][k] \in Nat /\ z + len < Script[s][k] /\ Size(s)' = z + len
      BY <1>2, <1>4, <1>7
    <3>3. PICK whole \in Nat, chunk \in Nat : whole = Script[s][k] /\ chunk = NextChunk
      BY <1>2, FrameSizes
    <3>4. PICK y \in Nat : y = z + len
      OBVIOUS
    <3>5. len = chunk /\ Start(i) = z + 1 /\ y < whole /\ Size(s)' = y
      BY <2>1, <3>1, <3>2, <3>3, <3>4
    <3>6. y + 1 = (z + 1) + chunk /\ y + 1 <= whole
      BY <3>4, <3>5
    <3>7. Size(s)' + 1 = Start(i) + chunk /\ Size(s)' + 1 <= whole
      BY <3>5, <3>6
    <3> QED BY <3>1, <3>3, <3>7
  <2>5. Awaited(s, k, Start(i) + NextChunk)'
    <3>1. Start(i) # 1
      BY <1>2, <2>1, FrameSizes
    <3>2. NextPlace(f) = Start(i) + NextChunk
      BY <1>2, <3>1 DEF NextPlace
    <3>3. Long(s, k) /\ GoesOn(s, f)
      BY <1>1, <1>6, <1>13 DEF IsTransferOf, LosslessInv
    <3>4. Awaited(s, k, Start(i) + NextChunk)
      BY <1>2, <2>4, <3>2, <3>3 DEF GoesOn
    <3>5. Start(i) + NextChunk # Start(i)
      <4>1. NextChunk \in Nat \ {0} /\ Start(i) \in Nat
        BY <1>2, FrameSizes
      <4> QED BY <4>1
    <3> QED BY <2>1, <3>4, <3>5
  <2>6. Awaited(s, Due(s), Size(s) + 1)'
    <3>1. \E g \in ToCome(s)' : Msg(g) = k /\ Place(g) = Start(i) + NextChunk
      BY <2>5 DEF Awaited
    <3> QED BY <2>1, <2>2, <2>4, <3>1 DEF Awaited
  <2>7. transfers'[s].buffer[1][2] = Due(s)'
    <3>1. <<s, k, 1>>[2] = k
      OBVIOUS
    <3> QED BY <1>7, <2>1, <2>2, <3>1
  <2>8. \E j \in Nat \ {0} : Size(s)' = Start(j) - 1 /\ transfers'[s].sn = j % SnMod
    <3>1. NextSn(f.n) = (i + 1) % SnMod
      <4>1. SnMod \in Nat /\ SnMod > 1
        BY FrameSizes
      <4>2. ((i % SnMod) + 1) % SnMod = (i + 1) % SnMod
        BY <4>1, SnTurns
      <4> QED BY <1>2, <4>2 DEF NextSn
    <3>2. PICK j \in Nat \ {0} : j = i + 1
      OBVIOUS
    <3>3. Start(j) = Start(i) + NextChunk
      BY <3>2, StartsApart
    <3>4. Size(s)' = Start(j) - 1
      BY <1>2, <1>7, <2>4, <3>3, FrameSizes
    <3> QED BY <1>7, <3>1, <3>2, <3>4
  <2> QED BY <1>7, <2>1, <2>3, <2>6, <2>7, <2>8 DEF LosslessInv
<1> QED BY <1>8, <1>9, <1>12, <1>13 DEF EcuHolds

\* Sequences are the same when their places are.
LEMMA SameBytes ==
  ASSUME NEW S, NEW a \in Seq(S), NEW b \in Seq(S), Len(a) = Len(b),
         \A m \in 1..Len(a) : a[m] = b[m]
  PROVE  a = b
OBVIOUS

\* A transfer that a frame completes: its message is delivered.
LEMMA WhollyKeeps ==
  ASSUME TablesInv, NEW s \in Sources, EcuHolds(s), NEW f, Taking(s, f), f.pci = "CF",
         NEW k \in 1..current[s], NEW i \in Nat \ {0}, NEW z \in Nat, NEW len \in Nat \ {0},
         NEW bytes \in Seq(Datum), NEW t \in Nat, Stepped(s, f, k, i, z, len, bytes, t),
         z + t >= Script[s][k]
  PROVE  EcuHolds(s)' /\ (shortened = {} /\ LosslessInv(s) => LosslessInv(s)')
<1>1. /\ EcuInv(s) /\ WayInv(s) /\ DeliveredInv(s) /\ current[s] \in Nat
      /\ f \in ToCome(s) /\ f \in Sent(s)
      /\ current'[s] = current[s] /\ shortened' = shortened
      /\ \A g \in ToCome(s)' : g \in ToCome(s) /\ Before(f, g)
  BY DEF EcuHolds, Taking, ToCome, TablesInv
<1>2. /\ k \in 1..Len(Script[s]) /\ k = Msg(f) /\ Place(f) = Start(i)
      /\ Start(i) \in Nat /\ Start(i) > z /\ Start(i) <= Script[s][k] /\ Script[s][k] \in Nat
      /\ z < Script[s][k] /\ z >= FirstChunk /\ z = Size(s)
      /\ len <= NextChunk /\ NextChunk \in Nat
  BY FrameSizes DEF Stepped, InStep
<1>3. /\ transfers'[s] = NoTransfer /\ delivered'[s] = Append(delivered[s], bytes)
      /\ allowed'[s] = allowed[s]
  BY DEF Stepped
<1>4. z + t = Script[s][k] /\ t <= len /\ Len(bytes) = Script[s][k]
  <2>1. t = Least(Script[s][k] - z, len) /\ Len(bytes) = z + t
    BY DEF Stepped
  <2>2. t <= Script[s][k] - z /\ t <= len
    BY <1>2, <2>1 DEF Least
  <2> QED BY <1>2, <2>1, <2>2
<1>5. \A m \in 1..z : bytes[m] = transfers[s].buffer[m]
  BY DEF Stepped
<1>6. Start(i) + NextChunk > Script[s][k]
  BY <1>2, <1>4
<1>7. bytes[1] = <<s, k, 1>>
  <2>1. 1 \in 1..z
    BY <1>2, FrameSizes
  <2>2. transfers[s].buffer[1] = <<s, k, 1>>
    BY DEF Stepped, InStep, IsTransferOf
  <2> QED BY <1>5, <2>1, <2>2
<1>8. ASSUME <<s, k>> \notin shortened PROVE bytes = Message(s, k)
  <2>1. PICK j \in Nat \ {0} :
          /\ z = Start(j) - 1 /\ Start(j) \in Nat
          /\ \/ j = i /\ \A m \in 1..z : transfers[s].buffer[m] = <<s, k, m>>
             \/ Start(i) >= Start(j) + NextChunk
    BY <1>8 DEF Stepped, InStep
  <2>2. ASSUME Start(i) >= Start(j) + NextChunk PROVE FALSE
    <3>1. Script[s][k] <= z + NextChunk
      BY <1>2, <1>4
    <3>2. PICK a \in Nat, b \in Nat, whole \in Nat, chunk \in Nat :
            a = Start(i) /\ b = Start(j) /\ whole = Script[s][k] /\ chunk = NextChunk
      BY <1>2, <2>1
    <3>3. a <= whole /\ a >= b + chunk /\ z = b - 1 /\ whole <= z + chunk
      BY <1>2, <2>1, <2>2, <3>1, <3>2
    <3> QED BY <3>3
  <2>3. j = i /\ \A m \in 1..z : bytes[m] = <<s, k, m>>
    BY <1>5, <2>1, <2>2
  <2>4. Start(i) = z + 1
    BY <1>2, <2>1, <2>3
  <2>5. ASSUME NEW m \in 1..Script[s][k] PROVE bytes[m] = <<s, k, m>>
    <3>1. CASE m \in 1..z
      BY <2>3, <3>1
    <3>2. CASE m \notin 1..z
      <4>1. PICK q \in 1..t : m = z + q
        <5>1. m - z \in 1..t /\ m = z + (m - z)
          BY <1>2, <1>4, <3>2
        <5> QED BY <5>1
      <4>2. q \in 1..len
        BY <1>4
      <4>3. Start(i) + q - 1 = m /\ m <= Script[s][k]
        BY <1>2, <2>4, <4>1
      <4>4. Start(i) + q - 1 <= Script[s][k] => f.data[q] = <<s, k, Start(i) + q - 1>>
        BY <4>2 DEF Stepped, InStep
      <4>5. bytes[z + q] = f.data[q]
        BY DEF Stepped
      <4> QED BY <4>1, <4>3, <4>4, <4>5
    <3> QED BY <3>1, <3>2
  <2>6. /\ Message(s, k) \in Seq(Datum) /\ Len(Message(s, k)) = Script[s][k]
        /\ \A m \in 1..Script[s][k] : Message(s, k)[m] = <<s, k, m>>
    BY <1>2, MessageIs
  <2> HIDE DEF Message, Datum
  <2>7. Len(bytes) = Len(Message(s, k)) /\ \A m \in 1..Len(bytes) : bytes[m] = Message(s, k)[m]
    BY <1>4, <2>5, <2>6
  <2> QED BY <2>6, <2>7, SameBytes
<1>9. \A g \in ToCome(s)' : k < Msg(g)
  <2>1. ASSUME NEW g \in ToCome(s)' PROVE k < Msg(g)
    <3>1. k < Msg(g) \/ (/\ Place(g) \in Nat /\ Place(g) >= Start(i) + NextChunk
                         /\ Place(g) <= Script[s][k])
      BY DEF Stepped, InStep
    <3> QED BY <1>2, <1>6, <3>1
  <2> QED BY <2>1
<1>10. EcuInv(s)' /\ WayInv(s)'
  BY <1>1, <1>3, TakingWay
<1>11. TransferInv(s)'
  BY <1>3 DEF TransferInv
<1>12. /\ DeliveredInv(s)'
       /\ \E n \in Nat : /\ n = Len(delivered[s]) /\ Len(delivered'[s]) = n + 1
                         /\ \A m \in 1..n : Number(s, m)' = Number(s, m)
                         /\ Number(s, n + 1)' = k
  <2>1. Msg(f) = k /\ (bytes = Message(s, k) \/ <<s, k>> \in shortened)
    BY <1>2, <1>8
  <2> HIDE DEF Message, Datum
  <2> QED BY <1>1, <1>3, <1>7, <1>9, <2>1, DeliveredGrows
<1>13. ASSUME LosslessInv(s) PROVE LosslessInv(s)'
  <2>1. PICK n \in Nat : /\ n = Len(delivered[s]) /\ Len(delivered'[s]) = n + 1
                         /\ \A m \in 1..n : Number(s, m)' = Number(s, m)
                         /\ Number(s, n + 1)' = Msg(f)
    BY <1>2, <1>12
  <2>2. Place(f) # 1
    BY <1>2, FrameSizes
  <2>3. NextPlace(f) = Start(i) + NextChunk
    BY <1>2, <2>2 DEF NextPlace
  <2>4. ~ (NextPlace(f) <= Script[s][Msg(f)])
    <3>1. PICK whole \in Nat : whole = Script[s][k]
      BY <1>2
    <3>2. PICK p \in Nat : p = Start(i) + NextChunk
      BY <1>2
    <3>3. p > whole
      BY <1>6, <3>1, <3>2
    <3> QED BY <1>2, <2>3, <3>1, <3>2, <3>3
  <2> QED BY <1>3, <1>13, <2>1, <2>4, NextIsDue
<1> QED BY <1>10, <1>11, <1>12, <1>13 DEF EcuHolds

\* A consecutive frame of the number its transfer waits for.
LEMMA StepKeeps ==
  ASSUME TablesInv, NEW s \in Sources, EcuHolds(s), NEW f, Taking(s, f), Feeds(s, f),
         f.pci = "CF", transfers[s] # NoTransfer, f.n = transfers[s].sn
  PROVE  EcuHolds(s)' /\ (shortened = {} /\ LosslessInv(s) => LosslessInv(s)')
<1>1. PICK k \in 1..current[s], i \in Nat \ {0}, z \in Nat, len \in Nat \ {0},
           bytes \in Seq(Datum), t \in Nat : Stepped(s, f, k, i, z, len, bytes, t)
  BY SteppedIs
<1>2. CASE z + t < Script[s][k]
  BY <1>1, <1>2, PartlyKeeps
<1>3. CASE z + t >= Script[s][k]
  BY <1>1, <1>3, WhollyKeeps
<1>4. Script[s][k] \in Nat
  BY <1>1 DEF Stepped, InStep
<1> QED BY <1>2, <1>3, <1>4

\* What the reassembler makes of a frame is a transfer, bytes and a Boolean.
LEMMA OutcomeTypes ==
  ASSUME NEW tr \in Transfer, NEW f \in BusFrame, tr # NoTransfer => Len(tr.buffer) < tr.total
  PROVE  /\ ProcessFrame(tr, f).transfer \in Transfer
         /\ ProcessFrame(tr, f).message \in Seq(Datum)
         /\ ProcessFrame(tr, f).fc \in BOOLEAN
<1>1. <<>> \in Seq(Datum)
  <2> HIDE DEF Datum
  <2> QED OBVIOUS
<1>2. NoTransfer \in Transfer
  <2> HIDE DEF Datum
  <2> QED BY <1>1 DEF NoTransfer, Transfer
<1>3. f.data \in Seq(Datum) /\ f.n \in Nat
  <2> HIDE DEF Datum
  <2> QED BY DEF BusFrame
<1> DEFINE Fine(out) == out.transfer \in Transfer /\ out.message \in Seq(Datum)
                        /\ out.fc \in BOOLEAN
<1>4. ASSUME NEW x \in Transfer, NEW m \in Seq(Datum), NEW c \in BOOLEAN, NEW r
      PROVE  Fine(Outcome(x, m, c, r))
  <2> HIDE DEF Transfer, Datum
  <2> QED BY DEF Outcome
<1>5. CASE f.pci = "SF"
  <2>1. ProcessFrame(tr, f) = OnSingle(tr, f)
    BY <1>5 DEF ProcessFrame
  <2>2. CASE f.n = 0 \/ f.n > SingleMax \/ f.n > Len(f.data)
    <3>1. OnSingle(tr, f) = Outcome(tr, <<>>, FALSE, TRUE)
      BY <2>2 DEF OnSingle
    <3> HIDE DEF Fine, Transfer, Datum
    <3> QED BY <1>1, <1>4, <2>1, <3>1 DEF Fine
  <2>3. CASE ~ (f.n = 0 \/ f.n > SingleMax \/ f.n > Len(f.data))
    <3>1. OnSingle(tr, f) = Outcome(tr, SubSeq(f.data, 1, f.n), FALSE, FALSE)
      BY <2>3 DEF OnSingle
    <3>2. SubSeq(f.data, 1, f.n) \in Seq(Datum)
      <4> HIDE DEF Datum
      <4>1. Len(f.data) \in Nat /\ f.n <= Len(f.data)
        BY <1>3, <2>3
      <4> QED BY <1>3, <4>1
    <3>3. PICK m \in Seq(Datum) : m = SubSeq(f.data, 1, f.n)
      BY <3>2
    <3> HIDE DEF Fine, Transfer, Datum
    <3>4. Fine(Outcome(tr, m, FALSE, FALSE))
      BY <1>4
    <3>5. ProcessFrame(tr, f) = Outcome(tr, m, FALSE, FALSE)
      BY <2>1, <3>1, <3>3
    <3> QED BY <3>4, <3>5 DEF Fine
  <2> QED BY <2>2, <2>3
<1>6. CASE f.pci = "FF"
  <2>1. ProcessFrame(tr, f) = OnFirst(tr, f)
    BY <1>6 DEF ProcessFrame
  <2>2. CASE Len(f.data) < FirstChunk \/ f.n <= SingleMax \/ f.n > MaxLen
    <3>1. OnFirst(tr, f) = Outcome(tr, <<>>, FALSE, TRUE)
      BY <2>2 DEF OnFirst
    <3> HIDE DEF Fine, Transfer, Datum
    <3> QED BY <1>1, <1>4, <2>1, <3>1 DEF Fine
  <2>3. CASE ~ (Len(f.data) < FirstChunk \/ f.n <= SingleMax \/ f.n > MaxLen)
    <3>1. OnFirst(tr, f) = Outcome(Started(f), <<>>, TRUE, FALSE)
      BY <2>3 DEF OnFirst
    <3>2. Started(f) \in Transfer
      <4> HIDE DEF Datum
      <4> QED BY <1>3 DEF Started, Transfer
    <3>3. PICK x \in Transfer, m \in Seq(Datum) : x = Started(f) /\ m = <<>>
      BY <1>1, <3>2
    <3> HIDE DEF Fine, Transfer, Datum
    <3>4. Fine(Outcome(x, m, TRUE, FALSE))
      BY <1>4
    <3>5. ProcessFrame(tr, f) = Outcome(x, m, TRUE, FALSE)
      BY <2>1, <3>1, <3>3
    <3> QED BY <3>4, <3>5 DEF Fine
  <2> QED BY <2>2, <2>3
<1>7. CASE f.pci = "CF" /\ (tr = NoTransfer \/ f.n # tr.sn)
  <2>1. ProcessFrame(tr, f) = OnConsecutive(tr, f)
    BY <1>7 DEF ProcessFrame
  <2>2. CASE tr = NoTransfer
    <3>1. OnConsecutive(tr, f) = Outcome(tr, <<>>, FALSE, FALSE)
      BY <2>2 DEF OnConsecutive
    <3>2. PICK m \in Seq(Datum) : m = <<>>
      BY <1>1
    <3> HIDE DEF Fine, Transfer, Datum, NoTransfer
    <3>3. Fine(Outcome(tr, m, FALSE, FALSE))
      BY <1>4
    <3>4. ProcessFrame(tr, f) = Outcome(tr, m, FALSE, FALSE)
      BY <2>1, <3>1, <3>2
    <3> QED BY <3>3, <3>4 DEF Fine
  <2>3. CASE tr # NoTransfer
    <3>1. OnConsecutive(tr, f) = Outcome(NoTransfer, <<>>, FALSE, TRUE)
      BY <1>7, <2>3 DEF OnConsecutive
    <3> HIDE DEF Fine, Transfer, Datum
    <3> QED BY <1>1, <1>2, <1>4, <2>1, <3>1 DEF Fine
  <2> QED BY <2>2, <2>3
<1>8. CASE f.pci = "CF" /\ tr # NoTransfer /\ f.n = tr.sn
  <2>1. PICK bytes \in Seq(Datum), t \in Nat :
          /\ t = Least(tr.total - Len(tr.buffer), Len(f.data))
          /\ Len(bytes) = Len(tr.buffer) + t
          /\ \A m \in 1..Len(tr.buffer) : bytes[m] = tr.buffer[m]
          /\ \A m \in 1..t : bytes[Len(tr.buffer) + m] = f.data[m]
          /\ ProcessFrame(tr, f) =
               IF Len(bytes) >= tr.total THEN Outcome(NoTransfer, bytes, FALSE, FALSE)
               ELSE Outcome([total |-> tr.total, buffer |-> bytes, sn |-> NextSn(tr.sn)],
                            <<>>, FALSE, FALSE)
    <3> HIDE DEF Transfer, NoTransfer, BusFrame, Datum, Outcome
    <3> QED BY <1>8, GrownIs
  <2>2. [total |-> tr.total, buffer |-> bytes, sn |-> NextSn(tr.sn)] \in Transfer
    <3>1. tr.total \in Nat /\ tr.sn \in Nat
      BY DEF Transfer
    <3>2. NextSn(tr.sn) \in Nat
      <4>1. PICK m \in Nat : m = tr.sn + 1
        BY <3>1
      <4>2. SnMod \in Nat /\ SnMod > 1
        BY FrameSizes
      <4>3. m % SnMod \in Nat
        BY <4>2, SnTurns
      <4> QED BY <4>1, <4>3 DEF NextSn
    <3> HIDE DEF Datum
    <3> QED BY <3>1, <3>2 DEF Transfer
  <2>3. CASE Len(bytes) >= tr.total
    <3>1. ProcessFrame(tr, f) = Outcome(NoTransfer, bytes, FALSE, FALSE)
      BY <2>1, <2>3
    <3> HIDE DEF Fine, Transfer, Datum
    <3> QED BY <1>2, <1>4, <3>1 DEF Fine
  <2>4. CASE ~ (Len(bytes) >= tr.total)
    <3>1. PICK x \in Transfer : ProcessFrame(tr, f) = Outcome(x, <<>>, FALSE, FALSE)
      BY <2>1, <2>2, <2>4
    <3> HIDE DEF Fine, Transfer, Datum
    <3> QED BY <1>1, <1>4, <3>1 DEF Fine
  <2> QED BY <2>3, <2>4
<1>9. CASE f.pci \notin {"SF", "FF", "CF"}
  <2>1. ProcessFrame(tr, f) = Outcome(tr, <<>>, FALSE, FALSE)
    BY <1>9 DEF ProcessFrame
  <2> HIDE DEF Fine, Transfer, Datum
  <2> QED BY <1>1, <1>4, <2>1 DEF Fine
<1> QED BY <1>5, <1>6, <1>7, <1>8, <1>9

\* A malformed frame changes no transfer, and nobody is answered.
LEMMA MalformedIsNothing ==
  ASSUME NEW tr, NEW f \in Malformed
  PROVE  /\ ProcessFrame(tr, f).transfer = tr /\ ProcessFrame(tr, f).message = <<>>
         /\ ProcessFrame(tr, f).fc = FALSE
<1>1. CASE f = Frame("SF", SingleMax + 1, Padded(<<>>, SingleMax))
  <2>1. f.pci = "SF" /\ f.n = SingleMax + 1
    BY <1>1 DEF Frame
  <2>2. f.n > SingleMax
    BY <2>1, FrameSizes
  <2>3. ProcessFrame(tr, f) = Outcome(tr, <<>>, FALSE, TRUE)
    BY <2>1, <2>2 DEF ProcessFrame, OnSingle
  <2> QED BY <2>3 DEF Outcome
<1>2. CASE f = Frame("FF", 1, Padded(<<>>, FirstChunk))
  <2>1. f.pci = "FF" /\ f.n = 1
    BY <1>2 DEF Frame
  <2>2. f.n <= SingleMax
    BY <2>1, FrameSizes
  <2>3. ProcessFrame(tr, f) = Outcome(tr, <<>>, FALSE, TRUE)
    BY <2>1, <2>2 DEF ProcessFrame, OnFirst
  <2> QED BY <2>3 DEF Outcome
<1>3. CASE f = Frame("FC", 0, <<>>) \/ f = Frame("other", 0, <<>>)
  <2>1. f.pci = "FC" \/ f.pci = "other"
    BY <1>3 DEF Frame
  <2>2. ProcessFrame(tr, f) = Outcome(tr, <<>>, FALSE, FALSE)
    BY <2>1 DEF ProcessFrame
  <2> QED BY <2>2 DEF Outcome
<1> QED BY <1>1, <1>2, <1>3 DEF Malformed

\* The session takes the oldest frame in the queue.
LEMMA TakeKeeps ==
  ASSUME FramesInv, TakeFrame
  PROVE  FramesInv'
<1>1. /\ CountsInv /\ WayTypes /\ TablesInv
      /\ \A e \in Sources : EcuHolds(e) /\ (NothingLost => LosslessInv(e))
  BY DEF FramesInv
<1>2. PICK s \in Sources, f \in BusFrame :
        /\ transfers' = [transfers EXCEPT ![s] = ProcessFrame(transfers[s], f).transfer]
        /\ allowed' = [allowed EXCEPT ![s] = @ \/ ProcessFrame(transfers[s], f).fc]
        /\ delivered' = IF ProcessFrame(transfers[s], f).message = <<>> THEN delivered
                        ELSE [delivered EXCEPT ![s] =
                                Append(@, ProcessFrame(transfers[s], f).message)]
        /\ \A e \in Sources :
             /\ \A p, q \in From(e)' : p < q => Before(Way'[p].frame, Way'[q].frame)
             /\ e # s \/ f \in Malformed => Sent(e)' = Sent(e)
        /\ f \in Malformed \/ Taking(s, f)
  BY <1>1, TakeIs
<1>3. /\ WayTypes' /\ current' = current /\ toSend' = toSend /\ shortened' = shortened
      /\ dropped' = dropped /\ requests' = requests
  BY <1>1, TakeIs
<1>4. CountsInv' /\ (NothingLost' => NothingLost)
  BY <1>1, <1>3 DEF CountsInv, NothingLost
<1>5. PICK tr \in Transfer, x \in Transfer, m \in Seq(Datum), c \in BOOLEAN :
        /\ tr = transfers[s] /\ x = ProcessFrame(tr, f).transfer
        /\ m = ProcessFrame(tr, f).message /\ c = ProcessFrame(tr, f).fc
  <2>1. PICK tr \in Transfer : tr = transfers[s]
    BY <1>1 DEF TablesInv
  <2>2. tr # NoTransfer => Len(tr.buffer) < tr.total
    <3>1. ASSUME tr # NoTransfer PROVE Len(tr.buffer) < tr.total
      <4>1. TransferInv(s)
        BY <1>1 DEF EcuHolds
      <4>2. PICK k \in 1..current[s] : IsTransferOf(s, k)
        BY <2>1, <3>1, <4>1 DEF TransferInv
      <4>3. tr.total = Script[s][k] /\ Len(tr.buffer) \in FirstChunk..(Script[s][k] - 1)
        BY <2>1, <4>2 DEF IsTransferOf, Size
      <4>4. tr.total \in Nat
        BY DEF Transfer
      <4>5. PICK a \in Nat : a = tr.total
        BY <4>4
      <4>6. Len(tr.buffer) \in FirstChunk..(a - 1) /\ FirstChunk \in Nat
        BY <4>3, <4>5, FrameSizes
      <4> QED BY <4>5, <4>6
    <3> QED BY <3>1
  <2>3. /\ ProcessFrame(tr, f).transfer \in Transfer
        /\ ProcessFrame(tr, f).message \in Seq(Datum)
        /\ ProcessFrame(tr, f).fc \in BOOLEAN
    <3> HIDE DEF Transfer, NoTransfer, BusFrame, Datum
    <3> QED BY <2>2, OutcomeTypes
  <2> QED BY <2>1, <2>3
<1>6. /\ transfers' = [transfers EXCEPT ![s] = x]
      /\ allowed' = [allowed EXCEPT ![s] = @ \/ c]
      /\ delivered' = IF m = <<>> THEN delivered
                      ELSE [delivered EXCEPT ![s] = Append(@, m)]
  BY <1>2, <1>5, Zenon
<1>7. /\ transfers \in [Sources -> Transfer] /\ allowed \in [Sources -> BOOLEAN]
      /\ delivered \in [Sources -> Seq(Seq(Datum))]
  BY <1>1 DEF TablesInv
<1>8. /\ transfers' \in [Sources -> Transfer] /\ allowed' \in [Sources -> BOOLEAN]
      /\ transfers'[s] = x /\ allowed'[s] = (allowed[s] \/ c)
      /\ \A e \in Sources : e # s => /\ transfers'[e] = transfers[e]
                                     /\ allowed'[e] = allowed[e]
  <2> HIDE DEF Transfer
  <2>1. (allowed[s] \/ c) \in BOOLEAN
    OBVIOUS
  <2>2. /\ transfers' \in [Sources -> Transfer] /\ transfers'[s] = x
        /\ \A e \in Sources : e # s => transfers'[e] = transfers[e]
    BY <1>6, <1>7
  <2>3. /\ allowed' \in [Sources -> BOOLEAN] /\ allowed'[s] = (allowed[s] \/ c)
        /\ \A e \in Sources : e # s => allowed'[e] = allowed[e]
    BY <1>6, <1>7, <2>1
  <2> QED BY <2>2, <2>3
<1>9. /\ delivered' \in [Sources -> Seq(Seq(Datum))]
      /\ delivered'[s] = IF m = <<>> THEN delivered[s] ELSE Append(delivered[s], m)
      /\ \A e \in Sources : e # s => delivered'[e] = delivered[e]
  <2> HIDE DEF Datum
  <2>1. PICK S : S = Seq(Datum)
    OBVIOUS
  <2>2. delivered \in [Sources -> Seq(S)] /\ m \in S
    BY <1>7, <2>1
  <2>3. Append(delivered[s], m) \in Seq(S)
    BY <2>2
  <2>4. /\ delivered' \in [Sources -> Seq(S)]
        /\ delivered'[s] = IF m = <<>> THEN delivered[s] ELSE Append(delivered[s], m)
        /\ \A e \in Sources : e # s => delivered'[e] = delivered[e]
    BY <1>6, <2>2, <2>3
  <2> QED BY <2>1, <2>4
<1>10. TablesInv'
  <2> HIDE DEF Transfer, BusFrame, Datum
  <2> QED BY <1>1, <1>3, <1>8, <1>9 DEF TablesInv
<1>11. ASSUME NEW e \in Sources, e # s PROVE EcuHolds(e)' /\ (NothingLost' => LosslessInv(e)')
  <2>1. EcuHolds(e)' /\ (LosslessInv(e) => LosslessInv(e)')
    BY <1>1, <1>2, <1>3, <1>8, <1>9, <1>11, Untouched
  <2> QED BY <1>1, <1>4, <2>1
<1>12. CASE f \in Malformed
  <2>1. x = tr /\ m = <<>> /\ c = FALSE
    BY <1>5, <1>12, MalformedIsNothing
  <2>2. transfers'[s] = transfers[s] /\ allowed'[s] = allowed[s] /\ delivered'[s] = delivered[s]
    BY <1>5, <1>7, <1>8, <1>9, <2>1
  <2>3. EcuHolds(s)' /\ (LosslessInv(s) => LosslessInv(s)')
    BY <1>1, <1>2, <1>3, <1>12, <2>2, Untouched
  <2>4. EcuHolds(s)' /\ (NothingLost' => LosslessInv(s)')
    BY <1>1, <1>4, <2>3
  <2> QED BY <1>3, <1>4, <1>10, <1>11, <2>4 DEF FramesInv
<1>13. CASE Taking(s, f)
  <2>1. Feeds(s, f)
    BY <1>5, <1>8, <1>9 DEF Feeds
  <2>2. EcuInv(s) /\ WayInv(s) /\ EcuHolds(s) /\ f \in ToCome(s)
    BY <1>1, <1>13 DEF EcuHolds, Taking, ToCome
  <2>3. f.pci = "SF" \/ f.pci = "FF" \/ f.pci = "CF"
    <3>1. /\ Place(f) = 1 => f.pci = IF Long(s, Msg(f)) THEN "FF" ELSE "SF"
          /\ Place(f) # 1 => f.pci = "CF"
      BY <1>1, <2>2, ToComeNumbers
    <3> QED BY <3>1
  <2>4. EcuHolds(s)' /\ (NothingLost /\ LosslessInv(s) => LosslessInv(s)')
    <3>1. CASE f.pci = "SF"
      BY <1>1, <1>13, <2>1, <3>1, SingleKeeps
    <3>2. CASE f.pci = "FF"
      BY <1>1, <1>13, <2>1, <3>2, FirstKeeps
    <3>3. CASE f.pci = "CF" /\ (transfers[s] = NoTransfer \/ f.n # transfers[s].sn)
      BY <1>1, <1>13, <2>1, <3>3, StraggleKeeps
    <3>4. CASE f.pci = "CF" /\ transfers[s] # NoTransfer /\ f.n = transfers[s].sn
      <4>1. EcuHolds(s)' /\ (shortened = {} /\ LosslessInv(s) => LosslessInv(s)')
        BY <1>1, <1>13, <2>1, <3>4, StepKeeps
      <4> QED BY <4>1 DEF NothingLost
    <3> QED BY <2>3, <3>1, <3>2, <3>3, <3>4
  <2>5. EcuHolds(s)' /\ (NothingLost' => LosslessInv(s)')
    BY <1>1, <1>4, <2>4
  <2> QED BY <1>3, <1>4, <1>10, <1>11, <2>5 DEF FramesInv
<1> QED BY <1>2, <1>12, <1>13

\* A call that ends because its flow control cannot be sent loses the frame it was
\* for, and the transfers.
LEMMA RefusedKeeps ==
  ASSUME FramesInv, FlowControlRefused
  PROVE  FramesInv'
<1>1. CountsInv /\ WayTypes
  BY DEF FramesInv
<1>2. /\ frames # <<>> /\ frames' = Tail(frames) /\ holding' = holding /\ sawFull' = sawFull
  BY DEF FlowControlRefused
<1>3. /\ UNCHANGED <<ecuVars, delivered, shortened>>
      /\ transfers' = [e \in Sources |-> NoTransfer]
      /\ CountsInv' /\ ~ NothingLost'
  BY <1>1 DEF FlowControlRefused, CountsInv, NothingLost
<1>4. WayTypes'
  BY <1>1, <1>2, WayHeadGoes
<1>5. PICK n \in Nat : /\ Len(Way) = n + 1 /\ Len(Way') = n /\ Way[1] = Head(frames)
                       /\ \A p \in 1..n : Way'[p] = Way[p + 1]
  BY <1>1, <1>2, WayHeadGoes
<1>6. /\ 1 \in Nat /\ 1 <= Len(Way) /\ Len(Way') = Len(Way) - 1
      /\ \A p \in 1..Len(Way') : Way'[p] = Way[p + 1]
  BY <1>5
<1> QED BY <1>3, <1>4, <1>6, WayMoves

\* At first nothing is under way.
LEMMA FramesStart == FramesInit => FramesInv
<1> SUFFICES ASSUME FramesInit PROVE FramesInv
  OBVIOUS
<1>1. /\ current = [e \in Sources |-> 0] /\ toSend = [e \in Sources |-> <<>>]
      /\ allowed = [e \in Sources |-> FALSE] /\ frames = <<>> /\ holding = NoFrame
      /\ sawFull = FALSE /\ transfers = [e \in Sources |-> NoTransfer]
      /\ delivered = [e \in Sources |-> <<>>] /\ dropped = 0 /\ requests = 0 /\ shortened = {}
  BY DEF FramesInit
<1>2. CountsInv /\ WayTypes /\ Way = <<>>
  <2> HIDE DEF Item
  <2> QED BY <1>1 DEF CountsInv, WayTypes, Way
<1>3. TablesInv
  <2>1. NoTransfer \in Transfer
    <3>1. <<>> \in Seq(Datum)
      <4> HIDE DEF Datum
      <4> QED OBVIOUS
    <3> HIDE DEF Datum
    <3> QED BY <3>1 DEF NoTransfer, Transfer
  <2>2. toSend \in [Sources -> Seq(BusFrame)]
    <3> HIDE DEF BusFrame
    <3> QED BY <1>1
  <2>3. delivered \in [Sources -> Seq(Seq(Datum))]
    <3> HIDE DEF Datum
    <3> QED BY <1>1
  <2>4. transfers \in [Sources -> Transfer]
    <3> HIDE DEF Transfer, NoTransfer
    <3> QED BY <1>1, <2>1
  <2> QED BY <1>1, <2>2, <2>3, <2>4 DEF TablesInv
<1>4. ASSUME NEW e \in Sources PROVE EcuHolds(e) /\ (NothingLost => LosslessInv(e))
  <2>1. /\ current[e] = 0 /\ toSend[e] = <<>> /\ allowed[e] = FALSE
        /\ transfers[e] = NoTransfer /\ delivered[e] = <<>>
    BY <1>1
  <2>2. Len(Way) = 0 /\ Len(toSend[e]) = 0 /\ Len(delivered[e]) = 0
    BY <1>2, <2>1
  <2>3. From(e) = {} /\ Sent(e) = {}
    BY <2>2 DEF From, Sent
  <2>4. Unsent(e) = {} /\ ToCome(e) = {}
    BY <2>2, <2>3 DEF Unsent, ToCome
  <2>5. EcuInv(e)
    BY <2>1, FrameSizes DEF EcuInv
  <2>6. WayInv(e)
    BY <2>3 DEF WayInv
  <2>7. TransferInv(e)
    BY <2>1 DEF TransferInv
  <2>8. DeliveredInv(e)
    BY <2>2 DEF DeliveredInv
  <2>9. LosslessInv(e)
    BY <2>1, <2>2, <2>4 DEF LosslessInv, Due
  <2> QED BY <2>5, <2>6, <2>7, <2>8, <2>9 DEF EcuHolds
<1> QED BY <1>2, <1>3, <1>4 DEF FramesInv

\* Every step of the frame path keeps the induction hypothesis.
LEMMA FramesStep == FramesInv /\ [FramesNext]_frameVars => FramesInv'
<1> SUFFICES ASSUME FramesInv, [FramesNext]_frameVars PROVE FramesInv'
  OBVIOUS
<1>1. ASSUME NEW e \in Sources, StartMessage(e) \/ EcuGivesUp(e) PROVE FramesInv'
  BY <1>1, TurnKeeps
<1>2. ASSUME NEW e \in Sources, SendFrame(e) PROVE FramesInv'
  BY <1>2, SendKeeps
<1>3. ASSUME NEW e \in Sources, Noise(e) PROVE FramesInv'
  BY <1>3, NoiseKeeps
<1>4. CASE FeedPut \/ FeedFull
  BY <1>4, FeedKeeps
<1>5. CASE FeedDropOldest
  BY <1>5, DropKeeps
<1>6. CASE BeginRequest
  BY <1>6, RequestKeeps
<1>7. CASE TakeFrame
  BY <1>7, TakeKeeps
<1>9. CASE FlowControlRefused
  BY <1>9, RefusedKeeps
<1>8. CASE UNCHANGED frameVars
  <2>1. /\ UNCHANGED <<ecuVars, delivered, shortened>> /\ transfers' = transfers
        /\ frames' = frames /\ holding' = holding /\ sawFull' = sawFull
        /\ dropped' = dropped /\ requests' = requests
    BY <1>8 DEF frameVars
  <2>2. CountsInv /\ WayTypes
    BY DEF FramesInv
  <2>3. CountsInv' /\ WayTypes' /\ Way' = Way /\ (NothingLost' => NothingLost)
    BY <2>1, <2>2 DEF CountsInv, WayTypes, Way, NothingLost
  <2>4. Len(Way) \in Nat
    BY <2>2, WayIs
  <2>5. /\ 0 \in Nat /\ 0 <= Len(Way) /\ Len(Way') = Len(Way) - 0
        /\ \A p \in 1..Len(Way') : Way'[p] = Way[p + 0]
    BY <2>3, <2>4
  <2>6. NothingLost' => NothingLost /\ 0 = 0 /\ transfers' = transfers
    BY <2>1, <2>3
  <2> QED BY <2>1, <2>3, <2>5, <2>6, WayMoves
<1> QED BY <1>1, <1>2, <1>3, <1>4, <1>5, <1>6, <1>7, <1>8, <1>9 DEF FramesNext

\* What the hypothesis says of the messages handed over.
LEMMA FramesShow == FramesInv => FramesKeepTheirMessage
<1> SUFFICES ASSUME FramesInv PROVE FramesKeepTheirMessage
  OBVIOUS
<1>1. /\ TablesInv /\ \A e \in Sources : EcuHolds(e) /\ (NothingLost => LosslessInv(e))
  BY DEF FramesInv
<1>2. ASSUME NEW e \in Sources PROVE DOMAIN delivered[e] = 1..Len(delivered[e])
  BY <1>1, DeliveredCount
<1>3. Authentic
  <2>1. ASSUME NEW e \in Sources
        PROVE  /\ \A i \in DOMAIN delivered[e] : \/ delivered[e][i] = Message(e, Number(e, i))
                                                 \/ <<e, Number(e, i)>> \in shortened
               /\ \A i, j \in DOMAIN delivered[e] : i < j => Number(e, i) < Number(e, j)
    <3>1. DeliveredInv(e)
      BY <1>1 DEF EcuHolds
    <3> HIDE DEF Number, Message
    <3> QED BY <1>2, <3>1 DEF DeliveredInv
  <2>2. \A e, i : Number(e, i) = delivered[e][i][1][2]
    BY DEF Number
  <2> HIDE DEF Number, Message
  <2> QED BY <2>1, <2>2 DEF Authentic
<1>4. NoUnderflow
  <2> SUFFICES ASSUME NEW e \in Sources, transfers[e] # NoTransfer
               PROVE  Remaining(transfers[e]) > 0
    BY DEF NoUnderflow
  <2>1. PICK k \in 1..current[e] : IsTransferOf(e, k)
    BY <1>1 DEF EcuHolds, TransferInv
  <2>2. transfers[e] \in Transfer
    BY <1>1 DEF TablesInv
  <2>3. PICK a \in Nat : a = transfers[e].total
    BY <2>2 DEF Transfer
  <2>4. Len(transfers[e].buffer) \in FirstChunk..(a - 1)
    BY <2>1, <2>3 DEF IsTransferOf, Size
  <2> QED BY <2>3, <2>4, FrameSizes DEF Remaining
<1>5. Lossless
  <2> SUFFICES ASSUME NEW e \in Sources, toSend[e] = <<>>, frames = <<>>, holding = NoFrame,
                      dropped = 0, requests = 0, shortened = {}
               PROVE  Len(delivered[e]) = current[e]
    BY DEF Lossless
  <2>1. LosslessInv(e) /\ DeliveredInv(e)
    BY <1>1 DEF EcuHolds, NothingLost
  <2>2. Len(Way) = 0 /\ Len(toSend[e]) = 0
    BY DEF Way
  <2>3. ToCome(e) = {}
    <3>1. Sent(e) = {} /\ Unsent(e) = {}
      BY <2>2 DEF From, Sent, Unsent
    <3> QED BY <3>1 DEF ToCome
  <2>4. \A k, p : ~ Awaited(e, k, p)
    BY <2>3 DEF Awaited
  <2>5. transfers[e] = NoTransfer /\ ~ (Due(e) <= current[e])
    BY <2>1, <2>4 DEF LosslessInv
  <2>6. PICK n \in Nat : n = Len(delivered[e])
    BY <1>1, DeliveredCount
  <2>7. current[e] \in Nat /\ ~ (n + 1 <= current[e])
    BY <1>1, <2>5, <2>6 DEF TablesInv, Due
  <2>8. n <= current[e]
    <3>1. CASE n = 0
      BY <2>7, <3>1
    <3>2. CASE n # 0
      <4>1. n \in 1..n
        BY <3>2
      <4>2. Number(e, n) = n /\ Number(e, n) \in 1..current[e]
        BY <2>1, <2>6, <4>1 DEF LosslessInv, DeliveredInv
      <4> QED BY <2>7, <4>2
    <3> QED BY <3>1, <3>2
  <2> QED BY <2>6, <2>7, <2>8
<1> QED BY <1>3, <1>4, <1>5 DEF FramesKeepTheirMessage

\* What the session is handed of an ECU are messages it sent, in its order, each once and
\* whole, whatever the queue drops, a request resets, or other ECUs and malformed frames
\* mix in; when nothing was lost, all of them (native.py: QueueFrameSource, _feed;
\* isotp_manager.rs: process_frame).
THEOREM FramesArrive == FramesSpec => []FramesKeepTheirMessage
<1>1. FramesInit => FramesInv
  BY FramesStart
<1>2. FramesInv /\ [FramesNext]_frameVars => FramesInv'
  BY FramesStep
<1>3. FramesInv => FramesKeepTheirMessage
  BY FramesShow
<1> QED BY <1>1, <1>2, <1>3, PTL DEF FramesSpec

-----------------------------------------------------------------------------
(* The trace buffer. *)

USE CapacityAssumption

-----------------------------------------------------------------------------
(* Sequences. *)

\* A rotated sequence, slot by slot.
LEMMA RotatedIndex ==
  ASSUME NEW S, NEW b \in Seq(S), NEW h \in 0..Len(b)
  PROVE  LET r == SubSeq(b, h + 1, Len(b)) \o SubSeq(b, 1, h)
         IN  /\ r \in Seq(S) /\ Len(r) = Len(b)
             /\ \A i \in 1..Len(b) :
                  r[i] = IF i <= Len(b) - h THEN b[h + i] ELSE b[h + i - Len(b)]
<1> DEFINE u == SubSeq(b, h + 1, Len(b))
           v == SubSeq(b, 1, h)
           r == u \o v
<1>1. /\ u \in Seq(S) /\ Len(u) = Len(b) - h
      /\ \A i \in 1..(Len(b) - h) : u[i] = b[h + i]
  BY SubSeqProperties, SMT
<1>2. v \in Seq(S) /\ Len(v) = h /\ \A i \in 1..h : v[i] = b[i]
  BY SubSeqProperties, SMT
<1> HIDE DEF u, v
<1>3. /\ r \in Seq(S) /\ Len(r) = Len(u) + Len(v)
      /\ \A i \in 1..(Len(u) + Len(v)) : r[i] = IF i <= Len(u) THEN u[i] ELSE v[i - Len(u)]
  BY <1>1, <1>2, ConcatProperties, Zenon
<1>4. Len(r) = Len(b)
  BY <1>1, <1>2, <1>3, LenProperties, SMT
<1>5. ASSUME NEW i \in 1..Len(b)
      PROVE  r[i] = IF i <= Len(b) - h THEN b[h + i] ELSE b[h + i - Len(b)]
  <2> HIDE DEF r
  <2>1. CASE i <= Len(b) - h
    BY <2>1, <1>1, <1>2, <1>3, LenProperties, SMT
  <2>2. CASE i > Len(b) - h
    <3>1. i - Len(u) \in 1..h /\ i - Len(u) = h + i - Len(b) /\ ~(i <= Len(u))
      BY <2>2, <1>1, LenProperties, SMT
    <3>2. r[i] = v[i - Len(u)]
      BY <3>1, <1>1, <1>2, <1>3, LenProperties, SMT
    <3> QED BY <3>1, <3>2, <1>2, <2>2, LenProperties, SMT
  <2> QED BY <2>1, <2>2, LenProperties, SMT
<1> QED BY <1>3, <1>4, <1>5 DEF u, v

\* The newest n elements of a sequence, slot by slot.
LEMMA NewestIndex ==
  ASSUME NEW S, NEW s \in Seq(S), NEW n \in Nat
  PROVE  /\ Newest(s, n) \in Seq(S)
         /\ Len(Newest(s, n)) = Smaller(n, Len(s))
         /\ \A i \in 1..Smaller(n, Len(s)) :
              Newest(s, n)[i] = s[Len(s) - Smaller(n, Len(s)) + i]
<1>1. Len(s) \in Nat /\ Smaller(n, Len(s)) \in 0..Len(s)
  BY LenProperties, SMT DEF Smaller
<1> DEFINE k == Smaller(n, Len(s))
           m == Len(s) - k + 1
<1> HIDE DEF k
<1>2. /\ SubSeq(s, m, Len(s)) \in Seq(S) /\ Len(SubSeq(s, m, Len(s))) = k
      /\ \A i \in 1..k : SubSeq(s, m, Len(s))[i] = s[Len(s) - k + i]
  BY <1>1, SubSeqProperties, SMT DEF k
<1> QED BY <1>2 DEF Newest, k

\* A sequence no longer than n is its own newest n elements.
LEMMA NewestOfShort ==
  ASSUME NEW S, NEW s \in Seq(S), NEW n \in Nat, Len(s) <= n
  PROVE  Newest(s, n) = s
<1>1. Len(s) \in Nat
  BY LenProperties
<1>2. Smaller(n, Len(s)) = Len(s)
  BY <1>1, SMT DEF Smaller
<1>3. /\ Newest(s, n) \in Seq(S)
      /\ Len(Newest(s, n)) = Smaller(n, Len(s))
      /\ \A i \in 1..Smaller(n, Len(s)) :
           Newest(s, n)[i] = s[Len(s) - Smaller(n, Len(s)) + i]
  BY NewestIndex
<1>4. Len(Newest(s, n)) = Len(s) /\ \A i \in 1..Len(s) : Newest(s, n)[i] = s[i]
  BY <1>1, <1>2, <1>3, SMT
<1> QED BY <1>3, <1>4, SeqEqual, Zenon

\* Stepping round the ring.
LEMMA NextSlot ==
  ASSUME NEW n \in Nat \ {0}, NEW h \in 0..(n - 1)
  PROVE  (h + 1) % n = IF h + 1 = n THEN 0 ELSE h + 1
<1>1. CASE h + 1 = n
  BY <1>1, SMT
<1>2. CASE h + 1 < n
  BY <1>2, Z3
<1> QED BY <1>1, <1>2, SMT

\* push on a full buffer: overwriting slot `head` and moving on drops the
\* oldest frame and adds the new one behind the youngest.
LEMMA Overwrite ==
  ASSUME NEW b \in Seq(Frames), NEW h \in 0..(Capacity - 1),
         NEW p \in Seq(Frames), NEW f \in Frames, Len(b) = Capacity,
         SubSeq(b, h + 1, Len(b)) \o SubSeq(b, 1, h) = Newest(p, Capacity)
  PROVE  LET c == [b EXCEPT ![h + 1] = f]
             k == (h + 1) % Capacity
         IN  SubSeq(c, k + 1, Len(c)) \o SubSeq(c, 1, k) = Newest(Append(p, f), Capacity)
<1> DEFINE c == [b EXCEPT ![h + 1] = f]
           k == (h + 1) % Capacity
           q == Append(p, f)
           old == SubSeq(b, h + 1, Len(b)) \o SubSeq(b, 1, h)
           new == SubSeq(c, k + 1, Len(c)) \o SubSeq(c, 1, k)
<1>1. /\ c \in Seq(Frames) /\ Len(c) = Capacity
      /\ \A j \in 1..Capacity : c[j] = IF j = h + 1 THEN f ELSE b[j]
  BY ExceptSeq, SMT
<1>2. k = IF h + 1 = Capacity THEN 0 ELSE h + 1
  BY NextSlot
<1>3. /\ q \in Seq(Frames) /\ Len(q) = Len(p) + 1
      /\ \A j \in 1..Len(p) : q[j] = p[j]
      /\ q[Len(p) + 1] = f
  BY AppendProperties, LenProperties, SMT
<1>4. /\ old \in Seq(Frames) /\ Len(old) = Capacity
      /\ \A i \in 1..Capacity :
           old[i] = IF i <= Capacity - h THEN b[h + i] ELSE b[h + i - Capacity]
  <2>1. h \in 0..Len(b)
    BY SMT
  <2> QED BY <2>1, RotatedIndex
<1>5. /\ new \in Seq(Frames) /\ Len(new) = Capacity
      /\ \A i \in 1..Capacity :
           new[i] = IF i <= Capacity - k THEN c[k + i] ELSE c[k + i - Capacity]
  <2> HIDE DEF c, k
  <2>1. k \in 0..Len(c)
    BY <1>1, <1>2, SMT
  <2>2. /\ new \in Seq(Frames) /\ Len(new) = Len(c)
        /\ \A i \in 1..Len(c) :
             new[i] = IF i <= Len(c) - k THEN c[k + i] ELSE c[k + i - Len(c)]
    BY <2>1, <1>1, RotatedIndex, Zenon
  <2> QED BY <2>2, <1>1, Zenon
<1>6. /\ Len(p) \in Nat /\ Len(p) >= Capacity
      /\ \A i \in 1..Capacity : old[i] = p[Len(p) - Capacity + i]
  <2>1. Len(p) \in Nat /\ Capacity \in Nat
    BY LenProperties
  <2>2. /\ Len(Newest(p, Capacity)) = Smaller(Capacity, Len(p))
        /\ \A i \in 1..Smaller(Capacity, Len(p)) :
             Newest(p, Capacity)[i] = p[Len(p) - Smaller(Capacity, Len(p)) + i]
    BY <2>1, NewestIndex
  <2>3. Smaller(Capacity, Len(p)) = Capacity
    BY <2>2, <1>4
  <2>4. Len(p) >= Capacity
    BY <2>1, <2>3, SMT DEF Smaller
  <2> QED BY <2>1, <2>2, <2>3, <2>4
<1>7. /\ Newest(q, Capacity) \in Seq(Frames) /\ Len(Newest(q, Capacity)) = Capacity
      /\ \A i \in 1..Capacity : Newest(q, Capacity)[i] = q[Len(p) + 1 - Capacity + i]
  <2> HIDE DEF q
  <2>1. Smaller(Capacity, Len(q)) = Capacity
    BY <1>3, <1>6, SMT DEF Smaller
  <2>2. /\ Newest(q, Capacity) \in Seq(Frames)
        /\ Len(Newest(q, Capacity)) = Smaller(Capacity, Len(q))
        /\ \A i \in 1..Smaller(Capacity, Len(q)) :
             Newest(q, Capacity)[i] = q[Len(q) - Smaller(Capacity, Len(q)) + i]
    BY <1>3, NewestIndex
  <2> QED BY <2>1, <2>2, <1>3
<1>8. ASSUME NEW i \in 1..Capacity
      PROVE  new[i] = q[Len(p) + 1 - Capacity + i]
  <2> HIDE DEF c, k, q, old, new
  <2>1. CASE i = Capacity
    <3>1. new[i] = f
      BY <2>1, <1>1, <1>2, <1>5, SMT
    <3> QED BY <3>1, <2>1, <1>3, <1>6, SMT
  <2>2. CASE i < Capacity
    <3>1. new[i] = old[i + 1]
      BY <2>2, <1>1, <1>2, <1>4, <1>5, SMT
    <3>2. old[i + 1] = p[Len(p) - Capacity + (i + 1)]
      BY <2>2, <1>6, SMT
    <3>3. q[Len(p) + 1 - Capacity + i] = p[Len(p) + 1 - Capacity + i]
      <4>1. Len(p) + 1 - Capacity + i \in 1..Len(p)
        BY <2>2, <1>6, SMT
      <4> QED BY <4>1, <1>3
    <3>4. Len(p) - Capacity + (i + 1) = Len(p) + 1 - Capacity + i
      BY <1>6, SMT
    <3> QED BY <3>1, <3>2, <3>3, <3>4
  <2> QED BY <2>1, <2>2, SMT
<1>9. new = Newest(q, Capacity)
  <2> HIDE DEF c, k, q, old, new
  <2> QED BY <1>5, <1>7, <1>8, SeqEqual, Zenon
<1> QED BY <1>9

\* push on a buffer with room.
LEMMA Growing ==
  ASSUME NEW b \in Seq(Frames), NEW p \in Seq(Frames), NEW f \in Frames,
         Len(b) < Capacity, b = Newest(p, Capacity)
  PROVE  b = p /\ Append(b, f) = Newest(Append(p, f), Capacity)
<1>1. Len(p) \in Nat /\ Capacity \in Nat
  BY LenProperties
<1>2. Len(b) = Smaller(Capacity, Len(p))
  BY <1>1, NewestIndex
<1>3. Len(p) < Capacity
  BY <1>1, <1>2, SMT DEF Smaller
<1>4. Newest(p, Capacity) = p
  BY <1>1, <1>3, NewestOfShort, SMT
<1>5. Append(p, f) \in Seq(Frames) /\ Len(Append(p, f)) = Len(p) + 1
  BY AppendProperties
<1>6. Newest(Append(p, f), Capacity) = Append(p, f)
  <2>1. Len(Append(p, f)) <= Capacity
    BY <1>1, <1>3, <1>5, SMT
  <2> QED BY <2>1, <1>1, <1>5, NewestOfShort, Zenon
<1> QED BY <1>4, <1>6

-----------------------------------------------------------------------------
(* The inductive invariant.  Beyond the layout it says which calls hold    *)
(* the buffer's guard, and that a writer holds it alone: this is why a     *)
(* snapshot may use a copy of `head` whose own guard is already gone.      *)

OnBuffer(t) == call[t].op \in {"push", "clear", "snapshot", "len"} /\ stage[t] >= 1

Exclusion == \A t, u \in Threads :
                t # u /\ OnBuffer(t) /\ OnBuffer(u) => ~Writes(call[t].op)

StageInRange == \A t \in Threads : stage[t] <= Len(LockOrder(call[t].op))

HeadRests == Len(buf) < Capacity => head = 0

IInv == /\ TypeOK
        /\ HeadRests
        /\ StageInRange
        /\ Exclusion
        /\ SnapshotHeadIsCurrent
        /\ RingHoldsNewest

\* A thread is inside one of the five operations, or idle.
LEMMA CallCases ==
  ASSUME TypeOK, NEW t \in Threads
  PROVE  /\ call[t].op \in {"push", "clear", "snapshot", "len", "total_pushed", "idle"}
         /\ call[t].op = "push" => call[t].arg \in Frames
         /\ call[t].op = "snapshot" => call[t].arg \in Nat
         /\ call[t] = Idle <=> call[t].op = "idle"
<1>1. call[t] \in Calls \cup {Idle}
  BY DEF TypeOK
<1>2. CASE call[t] \in Pushes
  BY <1>2, SMT DEF Pushes, Idle
<1>3. CASE call[t] \in Snapshots
  <2>1. call[t].op = "snapshot" /\ call[t].arg \in Limits
    BY <1>3, SMT DEF Snapshots
  <2>2. call[t] # Idle
    BY <2>1, SMT DEF Idle
  <2>3. call[t].arg \in Nat
    BY <2>1, LimitsAssumption
  <2>4. ~(call[t].op = "push") /\ ~(call[t].op = "idle")
    BY <2>1, SMT
  <2> QED BY <2>1, <2>2, <2>3, <2>4, Zenon
<1>4. CASE call[t] \in Plain
  BY <1>4, SMT DEF Plain, Idle
<1>5. CASE call[t] = Idle
  BY <1>5, SMT DEF Idle
<1>6. call[t] \in Pushes \/ call[t] \in Snapshots \/ call[t] \in Plain \/ call[t] = Idle
  BY <1>1 DEF Calls
<1> QED BY <1>2, <1>3, <1>4, <1>5, <1>6, Zenon

\* Taking the first lock of a call on the buffer keeps writers exclusive.
LEMMA FirstGuard ==
  ASSUME TypeOK, NEW t \in Threads, NEW u \in Threads \ {t},
         MayTake(t, "buffer"), OnBuffer(u)
  PROVE  ~Writes(call[u].op) /\ ~Writes(call[t].op)
<1>1. "buffer" \in Kept(call[u].op)
  BY DEF Kept
<1>2. LockOrder(call[u].op)[1] = "buffer"
  BY DEF OnBuffer, LockOrder
<1>3. 1 \in 1..stage[u]
  BY SMT DEF OnBuffer, TypeOK
<1>4. Holds(u, "buffer")
  BY <1>1, <1>2, <1>3 DEF Holds
<1> QED BY <1>4 DEF MayTake

\* A new, empty ring satisfies the invariant (TraceBuffer::new).
THEOREM InitIInv == Init => IInv
<1> SUFFICES ASSUME Init PROVE IInv
  OBVIOUS
<1>1. TypeOK
  BY SMT DEF Init, LogInit, TypeOK, Idle
<1>2. HeadRests /\ StageInRange /\ Exclusion /\ SnapshotHeadIsCurrent
  BY SMT DEF Init, LogInit, HeadRests, StageInRange, Exclusion, OnBuffer,
             SnapshotHeadIsCurrent, Idle, LockOrder
<1>3. RingHoldsNewest
  <2>1. <<>> \in Seq(Frames) /\ Len(<<>>) <= Capacity /\ Capacity \in Nat
    BY EmptySeq, SMT
  <2>2. Newest(<<>>, Capacity) = <<>>
    BY <2>1, NewestOfShort, Zenon
  <2> QED BY <2>2, SMT DEF Init, LogInit, RingHoldsNewest, Ordered
<1> QED BY <1>1, <1>2, <1>3 DEF IInv

\* What returning from a call leaves of the guards.
LEMMA GuardsAfterFinish ==
  ASSUME IInv, NEW t \in Threads, NEW answer, Finish(t, answer)
  PROVE  /\ call' \in [Threads -> Calls \cup {Idle}]
         /\ stage' \in [Threads -> 0..3]
         /\ seenHead' \in [Threads -> 0..(Capacity - 1)]
         /\ StageInRange'
         /\ Exclusion'
<1>1. /\ call' = [call EXCEPT ![t] = Idle] /\ stage' = [stage EXCEPT ![t] = 0]
      /\ seenHead' = seenHead
  BY DEF Finish
<1>2. /\ call \in [Threads -> Calls \cup {Idle}] /\ stage \in [Threads -> 0..3]
      /\ seenHead \in [Threads -> 0..(Capacity - 1)]
  BY DEF IInv, TypeOK
<1>3. /\ call' \in [Threads -> Calls \cup {Idle}] /\ stage' \in [Threads -> 0..3]
  BY <1>1, <1>2, SMT
<1>4. StageInRange'
  BY <1>1, <1>2, SMT DEF IInv, StageInRange, LockOrder, Idle
<1>5. Exclusion'
  BY <1>1, <1>2, SMT DEF IInv, Exclusion, OnBuffer, Writes, Idle
<1> QED BY <1>1, <1>2, <1>3, <1>4, <1>5

\* A writer in its body has the buffer to itself, so no snapshot is
\* holding a copy of head.
LEMMA WriterIsAlone ==
  ASSUME IInv, NEW t \in Threads, Writes(call[t].op),
         stage[t] = Len(LockOrder(call[t].op)), NEW u \in Threads,
         call[u].op = "snapshot"
  PROVE  stage[u] # 2
<1>1. OnBuffer(t) /\ t # u
  BY SMT DEF OnBuffer, Writes, LockOrder
<1>2. stage[u] = 2 => OnBuffer(u)
  BY SMT DEF OnBuffer
<1> QED BY <1>1, <1>2 DEF IInv, Exclusion

\* Entering a call touches neither the ring nor a lock.
THEOREM BeginIInv == ASSUME IInv, NEW t \in Threads, Begin(t) PROVE IInv'
<1>1. PICK c \in Calls : call' = [call EXCEPT ![t] = c]
  BY DEF Begin, Invoke
<1>2. call[t] = Idle /\ UNCHANGED <<pushed, buf, head, total, stage, seenHead>>
  BY DEF Begin, Invoke, ringVars
<1>3. stage[t] = 0
  <2>1. LockOrder(call[t].op) = <<>>
    BY <1>2, SMT DEF LockOrder, Idle
  <2>2. stage[t] <= 0 /\ stage[t] \in 0..3
    BY <2>1, SMT DEF IInv, TypeOK, StageInRange
  <2> QED BY <2>2, SMT
<1>4. TypeOK'
  BY <1>1, <1>2, SMT DEF IInv, TypeOK
<1>5. \A u \in Threads : u # t => call'[u] = call[u]
  BY <1>1 DEF IInv, TypeOK
<1>6. StageInRange'
  <2> SUFFICES ASSUME NEW u \in Threads PROVE stage[u] <= Len(LockOrder(call'[u].op))
    BY <1>2 DEF StageInRange
  <2>1. CASE u = t
    BY <2>1, <1>3, SMT DEF LockOrder
  <2>2. CASE u # t
    BY <2>2, <1>5 DEF IInv, StageInRange
  <2> QED BY <2>1, <2>2
<1>7. Exclusion'
  <2>1. ~OnBuffer(t)'
    BY <1>2, <1>3, SMT DEF OnBuffer
  <2>2. \A u \in Threads : OnBuffer(u)' => u # t /\ OnBuffer(u) /\ call'[u] = call[u]
    BY <2>1, <1>2, <1>5 DEF OnBuffer
  <2> QED BY <2>2 DEF IInv, Exclusion
<1>8. SnapshotHeadIsCurrent'
  BY <1>2, <1>3, <1>5, SMT DEF IInv, SnapshotHeadIsCurrent
<1>9. HeadRests' /\ RingHoldsNewest'
  BY <1>2 DEF IInv, HeadRests, RingHoldsNewest, Ordered
<1> QED BY <1>4, <1>6, <1>7, <1>8, <1>9 DEF IInv

\* Taking one lock keeps writers exclusive, and a snapshot that takes the
\* head lock copies the current head.
THEOREM AcquireIInv == ASSUME IInv, NEW t \in Threads, Acquire(t) PROVE IInv'
<1> DEFINE lock == LockOrder(call[t].op)[stage[t] + 1]
<1>1. /\ stage' = [stage EXCEPT ![t] = @ + 1]
      /\ stage[t] < Len(LockOrder(call[t].op))
      /\ MayTake(t, lock)
      /\ UNCHANGED <<pushed, call, buf, head, total>>
      /\ seenHead' = IF lock = "head" THEN [seenHead EXCEPT ![t] = head] ELSE seenHead
  BY DEF Acquire, logVars
<1>2. TypeOK
  BY DEF IInv
<1>3. stage[t] \in 0..2 /\ stage'[t] = stage[t] + 1
  BY <1>1, <1>2, SMT DEF TypeOK, LockOrder
<1>4. stage' \in [Threads -> 0..3] /\ seenHead' \in [Threads -> 0..(Capacity - 1)]
  BY <1>1, <1>2, <1>3, SMT DEF TypeOK
<1>5. TypeOK'
  BY <1>1, <1>2, <1>4 DEF TypeOK
<1>6. \A u \in Threads : u # t => stage'[u] = stage[u] /\ seenHead'[u] = seenHead[u]
  BY <1>1, <1>2, SMT DEF TypeOK
<1>7. StageInRange'
  BY <1>1, <1>2, <1>3, <1>6, SMT DEF IInv, StageInRange, TypeOK, LockOrder
<1>8. ASSUME NEW u \in Threads \ {t}, OnBuffer(u), OnBuffer(t)'
      PROVE  ~Writes(call[u].op) /\ ~Writes(call[t].op)
  <2>1. CASE stage[t] = 0
    <3>1. lock = "buffer"
      BY <2>1, <1>1, <1>8, SMT DEF OnBuffer, LockOrder
    <3> QED BY <3>1, <1>1, <1>2, <1>8, FirstGuard
  <2>2. CASE stage[t] # 0
    <3>1. OnBuffer(t)
      BY <2>2, <1>1, <1>3, <1>8, SMT DEF OnBuffer
    <3> QED BY <3>1, <1>8 DEF IInv, Exclusion
  <2> QED BY <2>1, <2>2
<1>9. Exclusion'
  <2> SUFFICES ASSUME NEW u \in Threads, NEW v \in Threads, u # v,
                      OnBuffer(u)', OnBuffer(v)'
               PROVE  ~Writes(call[u].op)
    BY <1>1 DEF Exclusion
  <2>1. \A w \in Threads \ {t} : OnBuffer(w)' => OnBuffer(w)
    BY <1>1, <1>6, SMT DEF OnBuffer
  <2>2. CASE u = t
    BY <2>1, <2>2, <1>8
  <2>3. CASE v = t
    BY <2>1, <2>3, <1>8
  <2>4. CASE u # t /\ v # t
    BY <2>1, <2>4 DEF IInv, Exclusion
  <2> QED BY <2>2, <2>3, <2>4
<1>10. SnapshotHeadIsCurrent'
  <2> SUFFICES ASSUME NEW u \in Threads, call[u].op = "snapshot", stage'[u] = 2
               PROVE  seenHead'[u] = head
    BY <1>1 DEF SnapshotHeadIsCurrent
  <2>1. CASE u = t
    <3>1. lock = "head"
      BY <2>1, <1>3, SMT DEF LockOrder
    <3> QED BY <3>1, <2>1, <1>1, <1>2, SMT DEF TypeOK
  <2>2. CASE u # t
    BY <2>2, <1>6 DEF IInv, SnapshotHeadIsCurrent
  <2> QED BY <2>1, <2>2
<1>11. HeadRests' /\ RingHoldsNewest'
  BY <1>1 DEF IInv, HeadRests, RingHoldsNewest, Ordered
<1> QED BY <1>5, <1>7, <1>9, <1>10, <1>11 DEF IInv

\* push, with room or over the oldest frame, leaves the newest frames.
THEOREM PushIInv == ASSUME IInv, NEW t \in Threads, Push(t) PROVE IInv'
<1> DEFINE f == call[t].arg
<1>1. /\ call[t].op = "push" /\ Finish(t, None)
      /\ total' = total + 1 /\ pushed' = Append(pushed, f)
      /\ seenHead' = seenHead
      /\ stage[t] = Len(LockOrder(call[t].op))
      /\ call' = [call EXCEPT ![t] = Idle]
  BY DEF Push, Finish
<1>2. /\ TypeOK /\ HeadRests /\ f \in Frames
      /\ Ordered(head) = Newest(pushed, Capacity) /\ total = Len(pushed)
  BY <1>1, CallCases DEF IInv, RingHoldsNewest
<1>3. /\ buf \in Seq(Frames) /\ Len(buf) \in Nat /\ Len(buf) <= Capacity
      /\ head \in 0..(Capacity - 1) /\ pushed \in Seq(Frames)
  BY <1>2, LenProperties DEF TypeOK
<1>4. /\ pushed' \in Seq(Frames) /\ total' = Len(pushed')
  BY <1>1, <1>2, <1>3, AppendProperties
<1>5. /\ buf' \in Seq(Frames) /\ Len(buf') <= Capacity /\ head' \in 0..(Capacity - 1)
      /\ Len(buf') < Capacity => head' = 0
      /\ Ordered(head)' = Newest(pushed', Capacity)
  <2>1. CASE Len(buf) < Capacity
    <3>1. buf' = Append(buf, f) /\ head' = head /\ head = 0
      BY <2>1, <1>2 DEF Push, HeadRests
    <3>2. buf' \in Seq(Frames) /\ Len(buf') = Len(buf) + 1
      BY <3>1, <1>2, <1>3, AppendProperties
    <3>3. buf' = Newest(pushed', Capacity)
      <4>1. buf = Newest(pushed, Capacity)
        BY <2>1, <1>2 DEF Ordered
      <4> QED BY <4>1, <3>1, <2>1, <1>1, <1>2, <1>3, Growing
    <3>4. Ordered(head)' = buf'
      <4>1. CASE Len(buf') < Capacity
        BY <4>1 DEF Ordered
      <4>2. CASE Len(buf') = Capacity
        <5>1. SubSeq(buf', head' + 1, Len(buf')) = buf'
          BY <3>1, <3>2, SubSeqFull, SMT
        <5>2. SubSeq(buf', 1, head') = <<>>
          BY <3>1, SubSeqEmpty, SMT
        <5>3. buf' \o <<>> = buf'
          BY <3>2, ConcatEmptySeq
        <5>4. ~(Len(buf') < Capacity)
          BY <4>2, SMT
        <5> QED BY <5>1, <5>2, <5>3, <5>4, Zenon DEF Ordered
      <4> QED BY <4>1, <4>2, <3>2, <2>1, <1>3, SMT
    <3> QED BY <3>1, <3>2, <3>3, <3>4, <2>1, <1>3, SMT
  <2>2. CASE ~(Len(buf) < Capacity)
    <3>1. Len(buf) = Capacity
      BY <2>2, <1>3, SMT
    <3>2. buf' = [buf EXCEPT ![head + 1] = f] /\ head' = (head + 1) % Capacity
      BY <2>2 DEF Push
    <3>3. buf' \in Seq(Frames) /\ Len(buf') = Capacity
      BY <3>1, <3>2, <1>2, <1>3, ExceptSeq, SMT
    <3>4. head' \in 0..(Capacity - 1)
      BY <3>2, <1>3, NextSlot, SMT
    <3>5. SubSeq(buf, head + 1, Len(buf)) \o SubSeq(buf, 1, head) = Newest(pushed, Capacity)
      BY <2>2, <1>2 DEF Ordered
    <3>6. SubSeq(buf', head' + 1, Len(buf')) \o SubSeq(buf', 1, head')
            = Newest(pushed', Capacity)
      BY <3>1, <3>2, <3>5, <1>1, <1>2, <1>3, Overwrite
    <3>7. ~(Len(buf') < Capacity)
      BY <3>3, SMT
    <3>8. Ordered(head)' = Newest(pushed', Capacity)
      BY <3>6, <3>7 DEF Ordered
    <3>9. Len(buf') <= Capacity
      BY <3>3, SMT
    <3> QED BY <3>3, <3>4, <3>7, <3>8, <3>9, Zenon
  <2> QED BY <2>1, <2>2
<1>6. /\ StageInRange' /\ Exclusion'
      /\ call' \in [Threads -> Calls \cup {Idle}] /\ stage' \in [Threads -> 0..3]
      /\ seenHead' \in [Threads -> 0..(Capacity - 1)]
  BY <1>1, GuardsAfterFinish
<1>7. TypeOK'
  BY <1>2, <1>4, <1>5, <1>6, SMT DEF TypeOK
<1>8. SnapshotHeadIsCurrent'
  <2> SUFFICES ASSUME NEW u \in Threads, call'[u].op = "snapshot", stage'[u] = 2
               PROVE  FALSE
    BY DEF SnapshotHeadIsCurrent
  <2>1. u # t /\ call[u].op = "snapshot" /\ stage[u] = 2
    BY <1>1, <1>2, SMT DEF Finish, TypeOK, Idle
  <2> QED BY <2>1, <1>1, WriterIsAlone DEF Writes
<1> QED BY <1>4, <1>5, <1>6, <1>7, <1>8 DEF IInv, HeadRests, RingHoldsNewest

\* clear restarts ring, head and counter together.
THEOREM ClearIInv == ASSUME IInv, NEW t \in Threads, Clear(t) PROVE IInv'
<1>1. /\ call[t].op = "clear" /\ Finish(t, None) /\ seenHead' = seenHead
      /\ buf' = <<>> /\ head' = 0 /\ total' = 0 /\ pushed' = <<>>
      /\ stage[t] = Len(LockOrder(call[t].op))
  BY DEF Clear, Finish
<1>2. <<>> \in Seq(Frames) /\ Len(<<>>) <= Capacity /\ Capacity \in Nat
  BY EmptySeq, SMT
<1>3. /\ StageInRange' /\ Exclusion'
      /\ call' \in [Threads -> Calls \cup {Idle}] /\ stage' \in [Threads -> 0..3]
      /\ seenHead' \in [Threads -> 0..(Capacity - 1)]
  BY <1>1, GuardsAfterFinish
<1>4. TypeOK' /\ HeadRests'
  BY <1>1, <1>2, <1>3, SMT DEF TypeOK, HeadRests
<1>5. RingHoldsNewest'
  <2>1. Newest(<<>>, Capacity) = <<>>
    BY <1>2, NewestOfShort, Zenon
  <2> QED BY <2>1, <1>1, SMT DEF RingHoldsNewest, Ordered
<1>6. SnapshotHeadIsCurrent'
  <2> SUFFICES ASSUME NEW u \in Threads, call'[u].op = "snapshot", stage'[u] = 2
               PROVE  FALSE
    BY DEF SnapshotHeadIsCurrent
  <2>1. u # t /\ call[u].op = "snapshot" /\ stage[u] = 2
    BY <1>1, SMT DEF IInv, Finish, TypeOK, Idle
  <2> QED BY <2>1, <1>1, WriterIsAlone DEF Writes
<1> QED BY <1>3, <1>4, <1>5, <1>6 DEF IInv

\* The three calls that only read: snapshot, len and total_pushed.
THEOREM ReadIInv ==
  ASSUME IInv, NEW t \in Threads, NEW answer, Finish(t, answer),
         UNCHANGED <<buf, head, total, pushed>>
  PROVE  IInv'
<1>1. /\ StageInRange' /\ Exclusion'
      /\ call' \in [Threads -> Calls \cup {Idle}] /\ stage' \in [Threads -> 0..3]
      /\ seenHead' \in [Threads -> 0..(Capacity - 1)]
  BY GuardsAfterFinish
<1>2. TypeOK' /\ HeadRests' /\ RingHoldsNewest'
  BY <1>1 DEF IInv, TypeOK, HeadRests, RingHoldsNewest, Ordered
<1>3. SnapshotHeadIsCurrent'
  BY SMT DEF IInv, TypeOK, SnapshotHeadIsCurrent, Finish, Idle
<1> QED BY <1>1, <1>2, <1>3 DEF IInv

\* The invariant is inductive: no step of any caller breaks it.
THEOREM NextIInv == IInv /\ [Next]_vars => IInv'
<1> SUFFICES ASSUME IInv, [Next]_vars PROVE IInv'
  OBVIOUS
<1>1. CASE UNCHANGED vars
  BY <1>1 DEF vars, logVars, ringVars, IInv, TypeOK, HeadRests, StageInRange,
              Exclusion, OnBuffer, SnapshotHeadIsCurrent, RingHoldsNewest, Ordered
<1>2. ASSUME NEW t \in Threads, Begin(t) \/ Acquire(t) \/ Body(t) PROVE IInv'
  <2>1. CASE Begin(t)
    BY <2>1, BeginIInv
  <2>2. CASE Acquire(t)
    BY <2>2, AcquireIInv
  <2>3. CASE Push(t)
    BY <2>3, PushIInv
  <2>4. CASE Clear(t)
    BY <2>4, ClearIInv
  <2>5. CASE Snapshot(t) \/ ReadLen(t) \/ TotalPushed(t)
    BY <2>5, ReadIInv DEF Snapshot, ReadLen, TotalPushed
  <2> QED BY <1>2, <2>1, <2>2, <2>3, <2>4, <2>5 DEF Body
<1> QED BY <1>1, <1>2 DEF Next

\* The layout of the ring and every invariant the model-checking run checks
\* hold in every reachable state.
THEOREM RingInvariant == Spec => []IInv
<1> QED BY InitIInv, NextIInv, PTL DEF Spec

\* TypeOK of TraceRing.
THEOREM TypeCorrect == Spec => []TypeOK
<1>1. IInv => TypeOK
  BY DEF IInv
<1> QED BY <1>1, RingInvariant, PTL

\* Read from head, the buffer is the newest Capacity frames since the last
\* clear, and total_pushed counts them all.
THEOREM HoldsNewest == Spec => []RingHoldsNewest
<1>1. IInv => RingHoldsNewest
  BY DEF IInv
<1> QED BY <1>1, RingInvariant, PTL

\* The head a snapshot copied stays the head until the snapshot is done.
THEOREM SnapshotHead == Spec => []SnapshotHeadIsCurrent
<1>1. IInv => SnapshotHeadIsCurrent
  BY DEF IInv
<1> QED BY <1>1, RingInvariant, PTL

-----------------------------------------------------------------------------
(* Refinement: a body is the step of the abstract log, everything else     *)
(* before it is the abstract Invoke or a stutter.                          *)

\* A body that answers and acts as the log prescribes is the log's Return.
LEMMA FinishIsReturn ==
  ASSUME NEW t \in Threads, NEW answer, Finish(t, answer),
         answer = Answer(call[t]), pushed' = Effect(call[t])
  PROVE  Return(t)
BY DEF Finish, Return

\* Every step of a caller is a step of the abstract log or a stutter.
LEMMA StepRefines ==
  ASSUME IInv, NEW t \in Threads, Begin(t) \/ Acquire(t) \/ Body(t)
  PROVE  [LogNext]_logVars
<1>1. RingHoldsNewest /\ TypeOK /\ SnapshotHeadIsCurrent
  BY DEF IInv
<1>2. buf \in Seq(Frames) /\ (head \in 0..Len(buf) \/ Len(buf) < Capacity)
  BY <1>1, LenProperties, SMT DEF TypeOK
<1>3. CASE Begin(t)
  BY <1>3 DEF Begin, LogNext
<1>4. CASE Acquire(t)
  BY <1>4 DEF Acquire
<1>5. CASE Push(t)
  <2>1. Effect(call[t]) = Append(pushed, call[t].arg) /\ Answer(call[t]) = None
    BY <1>5, SMT DEF Push, Effect, Answer
  <2> QED BY <2>1, <1>5, FinishIsReturn DEF Push, LogNext
<1>6. CASE Clear(t)
  <2>1. Effect(call[t]) = <<>> /\ Answer(call[t]) = None
    BY <1>6, SMT DEF Clear, Effect, Answer
  <2> QED BY <2>1, <1>6, FinishIsReturn DEF Clear, LogNext
<1>7. CASE Snapshot(t)
  <2>1. /\ Effect(call[t]) = pushed
        /\ Answer(call[t]) = Newest(Newest(pushed, Capacity), call[t].arg)
    BY <1>7, SMT DEF Snapshot, Effect, Answer
  <2>2. seenHead[t] = head
    <3>1. stage[t] = 2
      BY <1>7, SMT DEF Snapshot, Finish, LockOrder
    <3> QED BY <3>1, <1>1, <1>7 DEF Snapshot, SnapshotHeadIsCurrent
  <2>3. Ordered(seenHead[t]) = Newest(pushed, Capacity)
    BY <2>2, <1>1 DEF RingHoldsNewest
  <2> QED BY <2>1, <2>3, <1>7, FinishIsReturn DEF Snapshot, LogNext
<1>8. CASE ReadLen(t)
  <2>1. /\ Effect(call[t]) = pushed
        /\ Answer(call[t]) = <<Smaller(Len(pushed), Capacity)>>
    BY <1>8, SMT DEF ReadLen, Effect, Answer
  <2>2. Len(buf) = Smaller(Len(pushed), Capacity)
    <3>1. Len(Ordered(head)) = Len(buf)
      <4>1. CASE Len(buf) < Capacity
        BY <4>1 DEF Ordered
      <4>2. CASE ~(Len(buf) < Capacity)
        <5>1. Ordered(head) = SubSeq(buf, head + 1, Len(buf)) \o SubSeq(buf, 1, head)
          BY <4>2 DEF Ordered
        <5>2. head \in 0..Len(buf) /\ buf \in Seq(Frames)
          BY <4>2, <1>1, <1>2 DEF TypeOK
        <5> QED BY <5>1, <5>2, RotatedIndex
      <4> QED BY <4>1, <4>2
    <3>2. Len(Newest(pushed, Capacity)) = Smaller(Capacity, Len(pushed))
      BY <1>1, NewestIndex DEF TypeOK
    <3>3. Len(pushed) \in Nat
      BY <1>1, LenProperties DEF TypeOK
    <3> QED BY <3>1, <3>2, <3>3, <1>1, SMT DEF Smaller, RingHoldsNewest
  <2> QED BY <2>1, <2>2, <1>8, FinishIsReturn DEF ReadLen, LogNext
<1>9. CASE TotalPushed(t)
  <2>1. Effect(call[t]) = pushed /\ Answer(call[t]) = <<Len(pushed)>>
    BY <1>9, SMT DEF TotalPushed, Effect, Answer
  <2> QED BY <2>1, <1>1, <1>9, FinishIsReturn DEF TotalPushed, LogNext, RingHoldsNewest
<1> QED BY <1>3, <1>4, <1>5, <1>6, <1>7, <1>8, <1>9 DEF Body

\* Every call of the locked ring is one atomic step of the abstract log.
THEOREM RingImplementsLog == Spec => ImplementsLog
<1>1. Init => LogInit
  BY DEF Init
<1>2. IInv /\ [Next]_vars => [LogNext]_logVars
  <2> SUFFICES ASSUME IInv, [Next]_vars PROVE [LogNext]_logVars
    OBVIOUS
  <2>1. CASE UNCHANGED vars
    BY <2>1 DEF vars
  <2>2. CASE Next
    BY <2>2, StepRefines DEF Next
  <2> QED BY <2>1, <2>2
<1> QED BY <1>1, <1>2, RingInvariant, PTL DEF Spec, ImplementsLog, LogSpec

-----------------------------------------------------------------------------
(* No gridlock. *)

\* A writer inside the buffer lock waits only for a total_pushed that is
\* about to return.
LEMMA FreeForWriter ==
  ASSUME IInv, NEW t \in Threads, Writes(call[t].op), OnBuffer(t),
         stage[t] < Len(LockOrder(call[t].op))
  PROVE  \/ MayTake(t, LockOrder(call[t].op)[stage[t] + 1])
         \/ \E u \in Threads : call[u].op = "total_pushed" /\ stage[u] = 1
<1>1. TypeOK /\ Exclusion /\ StageInRange
  BY DEF IInv
<1>2. /\ LockOrder(call[t].op) = <<"buffer", "head", "total">>
      /\ stage[t] \in {1, 2}
  <2>1. LockOrder(call[t].op) = <<"buffer", "head", "total">>
    BY DEF Writes, LockOrder
  <2>2. Len(LockOrder(call[t].op)) = 3
    BY <2>1, Zenon DEF LockOrder
  <2>3. stage[t] \in 0..3 /\ stage[t] >= 1
    BY <1>1 DEF OnBuffer, TypeOK
  <2> QED BY <2>1, <2>2, <2>3, SMT
<1>3. LockOrder(call[t].op)[stage[t] + 1] \in {"head", "total"}
  BY <1>2, SMT
<1>4. SUFFICES ASSUME NEW u \in Threads \ {t},
                      Holds(u, LockOrder(call[t].op)[stage[t] + 1])
               PROVE  call[u].op = "total_pushed" /\ stage[u] = 1
  BY DEF MayTake
<1>5. ~OnBuffer(u)
  BY <1>1 DEF Exclusion
<1>6. call[u].op \in {"push", "clear", "snapshot", "len", "total_pushed", "idle"}
  BY <1>1, CallCases
<1>7. PICK i \in 1..stage[u] : TRUE
  BY <1>4 DEF Holds
<1>8. stage[u] \in 1..3 /\ stage[u] <= Len(LockOrder(call[u].op))
  BY <1>1, <1>7, SMT DEF TypeOK, StageInRange
<1>9. call[u].op = "total_pushed" \/ call[u].op = "idle"
  BY <1>5, <1>6, <1>8, SMT DEF OnBuffer
<1>10. call[u].op # "idle"
  BY <1>8, SMT DEF LockOrder
<1> QED BY <1>8, <1>9, <1>10, SMT DEF LockOrder

\* With no writer inside the buffer lock, a reading call never waits.
LEMMA FreeForReader ==
  ASSUME IInv, NEW t \in Threads, call[t].op \in {"snapshot", "len", "total_pushed"},
         \A u \in Threads : ~(OnBuffer(u) /\ Writes(call[u].op))
  PROVE  \/ stage[t] = Len(LockOrder(call[t].op))
         \/ MayTake(t, LockOrder(call[t].op)[stage[t] + 1])
<1>1. ASSUME NEW u \in Threads \ {t}, NEW lock, Holds(u, lock)
      PROVE  ~Writes(call[u].op)
  <2>1. PICK i \in 1..stage[u] : TRUE
    BY <1>1 DEF Holds
  <2>2. stage[u] >= 1
    <3>1. stage[u] \in 0..3
      BY DEF IInv, TypeOK
    <3> QED BY <2>1, <3>1, SMT
  <2> QED BY <2>2 DEF OnBuffer, Writes
<1> QED BY <1>1 DEF MayTake, Writes

\* For any number of callers, some call under way can always proceed: the
\* three locks are taken in one order.
THEOREM NeverGridlocked == Spec => []SomeCallProceeds
<1>1. IInv => SomeCallProceeds
  <2> SUFFICES ASSUME IInv, NEW t \in Threads, call[t] # Idle
               PROVE  \E u \in Threads :
                        /\ call[u] # Idle
                        /\ \/ stage[u] = Len(LockOrder(call[u].op))
                           \/ MayTake(u, LockOrder(call[u].op)[stage[u] + 1])
    BY DEF SomeCallProceeds
  <2>1. TypeOK /\ StageInRange
    BY DEF IInv
  <2>2. \A u \in Threads :
          /\ call[u].op \in {"push", "clear", "snapshot", "len", "total_pushed", "idle"}
          /\ call[u] = Idle <=> call[u].op = "idle"
    BY <2>1, CallCases
  <2>3. \A u \in Threads : call[u].op = "total_pushed" /\ stage[u] = 1 =>
                             call[u] # Idle /\ stage[u] = Len(LockOrder(call[u].op))
    BY <2>2, SMT DEF LockOrder
  <2>4. CASE \E u \in Threads : OnBuffer(u) /\ Writes(call[u].op)
    <3>1. PICK u \in Threads : OnBuffer(u) /\ Writes(call[u].op)
      BY <2>4
    <3>2. call[u] # Idle
      BY <3>1, <2>2 DEF Writes
    <3>3. stage[u] = Len(LockOrder(call[u].op)) \/ stage[u] < Len(LockOrder(call[u].op))
      BY <2>1, <3>1, SMT DEF TypeOK, StageInRange, LockOrder, Writes
    <3> QED BY <3>1, <3>2, <3>3, <2>3, FreeForWriter
  <2>5. CASE ~\E u \in Threads : OnBuffer(u) /\ Writes(call[u].op)
    <3>1. CASE \E u \in Threads : call[u].op \in {"snapshot", "len", "total_pushed"}
      <4>1. PICK u \in Threads : call[u].op \in {"snapshot", "len", "total_pushed"}
        BY <3>1
      <4>2. call[u] # Idle
        BY <4>1, <2>2
      <4> QED BY <4>1, <4>2, <2>5, FreeForReader
    <3>2. CASE ~\E u \in Threads : call[u].op \in {"snapshot", "len", "total_pushed"}
      <4>1. \A u \in Threads : stage[u] = 0
        <5> SUFFICES ASSUME NEW u \in Threads PROVE stage[u] = 0
          OBVIOUS
        <5>1. CASE call[u].op = "idle"
          <6>1. LockOrder(call[u].op) = <<>>
            BY <5>1, SMT DEF LockOrder
          <6>2. stage[u] <= Len(<<>>) /\ stage[u] \in 0..3
            BY <6>1, <2>1 DEF TypeOK, StageInRange
          <6> QED BY <6>2, SMT
        <5>2. CASE call[u].op \in {"push", "clear"}
          <6>1. ~(stage[u] >= 1)
            BY <5>2, <2>5 DEF OnBuffer, Writes
          <6>2. stage[u] \in 0..3
            BY <2>1 DEF TypeOK
          <6> QED BY <6>1, <6>2, SMT
        <5> QED BY <5>1, <5>2, <3>2, <2>2
      <4>2. \A u \in Threads : \A lock : ~Holds(u, lock)
        BY <4>1, SMT DEF Holds
      <4> QED BY <4>2 DEF MayTake
    <3> QED BY <3>1, <3>2
  <2> QED BY <2>4, <2>5
<1> QED BY <1>1, RingInvariant, PTL
=============================================================================
