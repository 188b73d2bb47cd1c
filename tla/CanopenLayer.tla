---------------------------- MODULE CanopenLayer ----------------------------
(* The CANopen layer of the studio: how a frame is classified, natively by  *)
(* canopen_core and by the Python code that stands in for it, what the      *)
(* device decoders read in it, and the frames the layer sends. A frame is   *)
(* [cid, ext, data], its data a sequence of bytes; numbers are the real     *)
(* ones.                                                                    *)
EXTENDS Integers, Sequences, FiniteSets, TLC

None == -1
NoSignals == [s \in {} |-> 0]

\* A dictionary with one entry written.
Entered(table, key, value) ==
  [k \in DOMAIN table \cup {key} |-> IF k = key THEN value ELSE table[k]]

NmtState(byte) ==
  CASE byte = \h00 -> "BOOT_UP"
    [] byte = \h04 -> "STOPPED"
    [] byte = \h05 -> "OPERATIONAL"
    [] byte = \h7F -> "PRE_OPERATIONAL"
    [] OTHER       -> "UNKNOWN"

\* The blocks of 128 identifiers of the predefined connection set.
Blocks ==
  {[base |-> \h180 + 256 * (n - 1), service |-> "TPDO", pdo |-> n] : n \in 1..4}
  \cup {[base |-> \h200 + 256 * (n - 1), service |-> "RPDO", pdo |-> n] : n \in 1..4}
  \cup {[base |-> \h580, service |-> "SDO_TX", pdo |-> None],
        [base |-> \h600, service |-> "SDO_RX", pdo |-> None],
        [base |-> \h700, service |-> "HEARTBEAT", pdo |-> None]}

Class(service, node, pdo) == [service |-> service, node |-> node, pdo |-> pdo]

\* The classes both classifiers share: the single identifiers, emergencies,
\* and the blocks, which they let begin at different nodes.
Predefined(f, firstNode) ==
  LET Of == {b \in Blocks : f.cid - b.base \in firstNode..127} IN
  CASE f.cid = \h000 -> Class("NMT_MASTER", IF Len(f.data) >= 2 THEN f.data[2] ELSE None, None)
    [] f.cid = \h080 -> Class("SYNC", None, None)
    [] f.cid = \h100 -> Class("TIME_STAMP", None, None)
    [] f.cid \in \h081..\h0FF -> Class("EMERGENCY", f.cid - \h080, None)
    [] Of # {} -> LET b == CHOOSE b \in Of : TRUE IN Class(b.service, f.cid - b.base, b.pdo)
    [] OTHER -> Class("RAW_CAN", None, None)

ClassifiedByNumber(f, firstNode) == Predefined(f, firstNode)

Classified(f, firstNode) ==
  IF f.ext THEN Class("EXTENDED_J1939", f.cid % 256, None) ELSE Predefined(f, firstNode)

\* The classification of canopen_core, with the heartbeat state it reports: a
\* heartbeat without a byte is a node in an unknown state.
Native(f) ==
  [class |-> Classified(f, 1),
   beat  |-> NmtState(IF f.data = <<>> THEN \hFF ELSE f.data[1])]

\* The Python classification: blocks begin at node 0, and a heartbeat without a
\* byte is node guarding, which changes no state.
Fallback(f) ==
  [class |-> Classified(f, 0),
   beat  |-> IF f.data = <<>> THEN "none" ELSE NmtState(f.data[1])]

\* The decoders' identifiers outside the predefined set. The last decoder to
\* name one wins, which only its description shows.
SevconIds == {\h148, \h441, \h156, \h270, \h473}
CustomIds == SevconIds \cup {\h270}

-----------------------------------------------------------------------------
(* The decoders. An offset is that of the code, which counts from 0. *)
Byte(d, at) == d[at + 1]
Word(d, at) == Byte(d, at) + 256 * Byte(d, at + 1)
Int16(d, at) == IF Word(d, at) < 32768 THEN Word(d, at) ELSE Word(d, at) - 65536
Int32(d, at) == Word(d, at) + 65536 * Int16(d, at + 2)

Bit(word, n) == (word \div 2^n) % 2 = 1
Bits(word) == {n \in 0..15 : Bit(word, n)}

\* The drive state: the bits 0..3 and 6 of the status word, and for the states
\* of a running drive bit 5 as well.
DriveState(word) ==
  LET on == Bits(word) \cap {0, 1, 2, 3, 6}
      running == Bits(word) \cap {0, 1, 2, 3, 5, 6} IN
  CASE on = {}                  -> "Not Ready to Switch On"
    [] on = {6}                 -> "Switch On Disabled"
    [] running = {0, 5}         -> "Ready to Switch On"
    [] running = {0, 1, 5}      -> "Switched On"
    [] running = {0, 1, 2, 5}   -> "Operation Enabled"
    [] running = {0, 1, 2}      -> "Quick Stop Active"
    [] on = {0, 1, 2, 3}        -> "Fault Reaction Active"
    [] on = {3}                 -> "Fault"
    [] OTHER                    -> "Status"

Cia402(f) ==
  LET d == f.data IN
  CASE f.cid \in \h181..\h1FF /\ Len(d) >= 2 ->
         [status_word |-> Word(d, 0), cia402_state |-> DriveState(Word(d, 0))]
           @@ IF Len(d) >= 6 THEN [velocity_actual |-> Int32(d, 2)] ELSE NoSignals
    [] f.cid \in \h201..\h27F /\ Len(d) >= 2 -> [control_word |-> Word(d, 0)]
    [] f.cid \in \h281..\h2FF /\ Len(d) >= 6 ->
         [tpdo2_val1 |-> Word(d, 0), tpdo2_val2 |-> Int32(d, 2)]
    [] OTHER -> NoSignals

Sevcon(f) ==
  LET d == f.data IN
  CASE f.cid = \h701 /\ d # <<>> -> [sevcon_nmt_state |-> NmtState(d[1])]
    [] f.cid = \h148 /\ Len(d) >= 8 ->
         [inverter_status_v1 |-> Int16(d, 0), inverter_status_v2 |-> Int16(d, 2),
          inverter_status_v3 |-> Int16(d, 4), inverter_status_v4 |-> Int16(d, 6)]
    [] f.cid = \h441 /\ Len(d) >= 8 ->
         [motor_monitor_m1 |-> Int16(d, 0), motor_monitor_m2 |-> Int16(d, 2),
          motor_monitor_m3 |-> Int16(d, 4), motor_monitor_m4 |-> Int16(d, 6)]
    [] f.cid = \h156 /\ Len(d) >= 8 ->
         [heatsink_temp_c |-> Int16(d, 6), motor_temp_raw |-> Int16(d, 2),
          aux_voltage |-> Int16(d, 4)]
    [] f.cid = \h270 /\ Len(d) >= 7 ->
         [control_mode |-> Byte(d, 0), speed_limit_step |-> Byte(d, 1),
          target_torque |-> Int16(d, 5)]
    [] f.cid = \h473 /\ Len(d) >= 8 ->
         [max_speed_rpm |-> Int32(d, 0), actual_speed_rpm |-> Int32(d, 4)]
    [] OTHER -> NoSignals

DeHaardt(f) ==
  IF f.cid = \h270 /\ Len(f.data) >= 2
  THEN [de_haardt_mode_code |-> Byte(f.data, 0), de_haardt_limit_val |-> Byte(f.data, 1)]
  ELSE NoSignals

\* A 29-bit identifier is priority, data page, PDU format, PDU specific and
\* source address; a format below 240 is addressed.
J1939(f) ==
  LET pf == (f.cid \div 65536) % 256
      ps == (f.cid \div 256) % 256
      dp == (f.cid \div 16777216) % 2
      page == 65536 * dp + 256 * pf
      all == [priority |-> f.cid \div 67108864, source_address |-> f.cid % 256] IN
  all @@ IF pf < 240 THEN [destination_address |-> ps, pgn |-> page]
                     ELSE [pgn |-> page + ps]

\* Registered in this order; each says for itself what it decodes.
MayDecode(f, class) ==
  [sevcon   |-> f.cid \in SevconIds \/ class.node = 1,
   dehaardt |-> f.cid = \h270,
   j1939    |-> f.ext,
   cia402   |-> \E block \in {\h180, \h280, \h380, \h200} : f.cid - block \in 1..127]

Decoders == <<"sevcon", "dehaardt", "j1939", "cia402">>

Decoded(name, f) ==
  CASE name = "sevcon"   -> Sevcon(f)
    [] name = "dehaardt" -> DeHaardt(f)
    [] name = "j1939"    -> J1939(f)
    [] name = "cia402"   -> Cia402(f)

\* The signals of every decoder the profile lets through ("all" of them, or
\* "raw" for none), a later one over an earlier one.
Dispatch(f, class, profile) ==
  LET Extract(name) ==
        IF profile \in {"all", name} /\ MayDecode(f, class)[name]
        THEN Decoded(name, f) ELSE NoSignals IN
  Extract(Decoders[4]) @@ Extract(Decoders[3]) @@ Extract(Decoders[2]) @@ Extract(Decoders[1])

\* One frame through the layer: what it is, what the network table becomes, and
\* what the decoders make of it.
Process(nodes, f, native, profile) ==
  LET seen == IF native THEN Native(f) ELSE Fallback(f)
      class == IF f.cid \in CustomIds THEN [seen.class EXCEPT !.service = "TPDO"] ELSE seen.class
      beats == seen.class.service = "HEARTBEAT" /\ seen.beat # "none"
  IN [class   |-> class,
      nodes   |-> IF beats THEN Entered(nodes, seen.class.node, seen.beat) ELSE nodes,
      signals |-> Dispatch(f, class, profile)]

-----------------------------------------------------------------------------
(* The frames the layer sends. *)
Frame(cid, data) == [cid |-> cid, ext |-> FALSE, data |-> data]
Low(word) == word % 256
High(word) == (word \div 256) % 256
Object(index, sub) == <<Low(index), High(index), sub>>

NmtFrame(command, node) == Frame(\h000, <<command, node>>)
SyncFrame == Frame(\h080, <<>>)
SdoRead(node, index, sub) == Frame(\h600 + node, <<\h40>> \o Object(index, sub) \o <<0, 0, 0, 0>>)

\* The command specifier says how many of the four bytes are not used.
SdoWrite(node, index, sub, bytes) ==
  LET unused == 4 - Len(bytes) IN
  Frame(\h600 + node,
        <<\h23 + 4 * (unused % 4)>> \o Object(index, sub) \o bytes \o [i \in 1..unused |-> 0])

\* The object a frame of an SDO exchange is about.
IndexOf(data) == Word(data, 1)
SubOf(data) == Byte(data, 3)
=============================================================================
