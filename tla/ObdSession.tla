----------------------------- MODULE ObdSession -----------------------------
(***************************************************************************)
(* The J1979 client of an open diagnostic session and the write gate, in   *)
(* front of a vehicle of several ECUs on a shared bus: an answer may be    *)
(* lost, refused, or late, which means that it is heard with those to a    *)
(* later request.  A reply says which mode, PID and frame it answers; what *)
(* it carries is the state of its ECU when it was sent.  PIDs come in      *)
(* blocks of BlockSize (32 in the code).                                   *)
(***************************************************************************)
EXTENDS Naturals, Sequences, FiniteSets, SequencesExt

CONSTANTS Ecus,
          Cars,        \* the vehicles: of each ECU its state
          BlockSize, SupportPids,
          PidStatus, PidThisCycle,   \* 0x01 and 0x41
          PidFreezeDtc,              \* 0x02 of mode 02
          VinLength,
          MaxCalls,    \* bound: calls of the client
          MaxLate      \* bound: late answers under way

ASSUME BoundsAssumption ==
  BlockSize \in Nat \ {0} /\ {VinLength, MaxCalls, MaxLate} \subseteq Nat

\* What an ECU is and remembers; a code is two bytes, and never two zeros.
Byte == 0..255
Code == (Byte \X Byte) \ {<<0, 0>>}
EcuState == [pids : SUBSET (Nat \ {0}), diesel : BOOLEAN, bitOnlySinceClear : BOOLEAN,
             monitors : SUBSET {1, 2}, complete : SUBSET {1, 2}, frozen : BOOLEAN,
             dtcs : [{3, 7, 10} -> Seq(Code)],
             counts : BOOLEAN, padding : Seq({0}),
             info : [{2, 10} -> Seq({"ok", "other", "nul"})]]

\* An ECU implements the support PIDs of the blocks before those of its PIDs.
Announced(pids) ==
  \A b \in SupportPids \cup {0}, p \in pids :
    /\ 0 < b /\ b < p => b \in pids
    /\ b + BlockSize < p => b + BlockSize \in SupportPids

ASSUME CarsAssumption ==
  /\ Cars \subseteq [Ecus -> EcuState]
  /\ \A c \in Cars, e \in Ecus : Announced(c[e].pids)
  /\ SupportPids \subseteq Nat
  /\ {PidStatus, PidThisCycle, PidFreezeDtc} \subseteq Nat \ {0} /\ PidStatus # PidThisCycle

VARIABLES car,        \* the vehicle
          late,       \* answers under way that nobody is waiting for any more
          call,       \* the call being made: its name and its step
          base, found, \* a walk of the support bitmasks: next block, PIDs of each ECU
          held,       \* freeze frames found, by ECU, and what is read into them
          answers,    \* replies kept from one request of a call to the next
          supported,  \* _supported, of mode 01
          result,     \* what the last call returned
          calls, gaps, \* bound; history: an answer of this call was lost or late
          cleared     \* history: the ECUs that carried out the last clear

session == <<call, base, found, held, answers, supported, result>>
obdVars == <<car, late, session, calls, gaps, cleared>>

Nobody == [e \in {} |-> {}]
Idle == [op |-> "idle", at |-> "idle", arg |-> 0]
NoResult == [op |-> "none", value |-> {}]

ObdInit ==
  /\ car \in Cars /\ late = {}
  /\ call = Idle /\ base = 0 /\ found = Nobody /\ held = Nobody /\ answers = {}
  /\ supported = Nobody /\ result = NoResult
  /\ calls = 0 /\ gaps = FALSE /\ cleared = {}
-----------------------------------------------------------------------------
(* The bus. *)
Kinds == [stored |-> 3, pending |-> 7, permanent |-> 10]

\* An ECU that has what is asked for.
Implements(e, q) ==
  CASE q.mode = 1 -> q.pid = 0 \/ q.pid \in car[e].pids
    [] q.mode = 2 -> q.pid \in {0, PidFreezeDtc} \/ q.pid \in car[e].pids
    [] OTHER -> TRUE

Reply(e, q) == [ecu |-> e, mode |-> q.mode, pid |-> q.pid, frame |-> q.frame, of |-> car[e]]

Replies(q) == {Reply(e, q) : e \in {e \in Ecus : Implements(e, q)}}

\* positive_responses: the answer to another mode is dropped.
Positive(q, R) == {r \in R : r.mode = q.mode}

\* One request hears R.  An answer not heard comes late, was refused, or is lost.
Hears(q, R) ==
  /\ late' \in SUBSET ((late \cup Replies(q)) \ R) /\ Cardinality(late') <= MaxLate
  /\ gaps' = (gaps \/ ~ Replies(q) \subseteq R)

Q(mode, pid, frame) == [mode |-> mode, pid |-> pid, frame |-> frame]

\* Mutant: an answer is taken for the request's because of its mode alone.
AnyEcho(r, q) == TRUE

\* _payload_after_echo, and the test of discovery.
Echoes(r, q) == r.pid = q.pid /\ r.frame = q.frame

Kept(q, R) == {r \in Positive(q, R) : Echoes(r, q)}

MovesTo(at) == call' = [call EXCEPT !.at = at]
Returns(value) == /\ call' = Idle
                  /\ result' = [op |-> call.op, value |-> value]

Call(op, at, arg) ==
  /\ call = Idle /\ calls < MaxCalls
  /\ call' = [op |-> op, at |-> at, arg |-> arg]
  /\ base' = 0 /\ found' = Nobody /\ held' = Nobody /\ answers' = {}
  /\ gaps' = FALSE /\ result' = NoResult /\ calls' = calls + 1
  /\ UNCHANGED <<car, late, supported, cleared>>

\* The link fails at any request, and the call with it: TransportError.
LinkLost ==
  /\ call # Idle /\ call.op # "clear"
  /\ call' = Idle /\ result' = NoResult
  /\ UNCHANGED <<car, late, base, found, held, answers, supported, calls, gaps, cleared>>
-----------------------------------------------------------------------------
(* discover_supported_pids *)
Mask(r, b) == {p \in r.of.pids : p > b /\ p <= b + BlockSize}

PidsOf(f, e) == IF e \in DOMAIN f THEN f[e] ELSE {}

Found(b, R) == [e \in DOMAIN found \cup {r.ecu : r \in R} |->
                  PidsOf(found, e) \cup
                    UNION {{b} \cup Mask(r, b) : r \in {r \in R : r.ecu = e}}]

\* Mutant: the walk ends unless every ECU says that there is more.
ContinuesIfAll(b, R) == R # {} /\ \A r \in R : b + BlockSize \in Mask(r, b)

Continues(b, R) == \E r \in R : b + BlockSize \in Mask(r, b)

Walk(mode, frame, whenDone) ==
  LET q == Q(mode, base, frame) IN
  \E R \in SUBSET (Replies(q) \cup late) :
    /\ Hears(q, R)
    /\ found' = Found(base, Kept(q, R))
    /\ IF Continues(base, Kept(q, R)) /\ base + BlockSize \in SupportPids
       THEN base' = base + BlockSize /\ UNCHANGED <<call, result, supported>>
       ELSE whenDone
    /\ UNCHANGED <<car, held, answers, calls, cleared>>

\* supported_pids: the cached answer unless there is none or a refresh is asked for.
SupportedPids ==
  \/ Call("supported", "walk", 1)
  \/ /\ call = Idle /\ supported # Nobody /\ calls < MaxCalls /\ calls' = calls + 1
     /\ result' = [op |-> "cached", value |-> supported]
     /\ UNCHANGED <<car, late, call, base, found, held, answers, supported,
                    gaps, cleared>>

Discover == /\ call.op = "supported"
            /\ Walk(1, 0, supported' = found' /\ Returns(found') /\ UNCHANGED base)

\* identify: the PIDs, then the VIN.  Of the names and calibrations it also asks
\* for, only a lost link is an error.
Identify == Call("identify", "walk", 1)

DiscoverFirst == /\ call.op = "identify" /\ call.at = "walk"
                 /\ Walk(1, 0, supported' = found' /\ MovesTo("vin") /\ UNCHANGED <<base, result>>)
-----------------------------------------------------------------------------
(* read_vin.  The text of a vehicle information item is a sequence of       *)
(* "ok" (may be in a VIN), "other" (printable) and "nul" characters.  The   *)
(* echo is not looked at: the answer to any item of mode 09 will do.        *)
InfoVin == 2

Printable(text) == SelectSeq(text, LAMBDA c : c # "nul")

ExtractVin(text) ==
  LET t == Printable(text) IN
  IF Len(t) >= VinLength /\ \A i \in (Len(t) - VinLength + 1)..Len(t) : t[i] = "ok"
  THEN SubSeq(t, Len(t) - VinLength + 1, Len(t)) ELSE <<>>

ReadVin == Call("vin", "vin", InfoVin)
ReadTextInfo(item) == Call("text", "text", item)

AskVin ==
  /\ call.at = "vin"
  /\ LET q == Q(9, InfoVin, 0) IN
     \E R \in SUBSET (Replies(q) \cup late) :
       Hears(q, R) /\ Returns({<<r.ecu, r.pid>> : r \in
                         {r \in Positive(q, R) : ExtractVin(r.of.info[r.pid]) # <<>>}})
  /\ UNCHANGED <<car, base, found, held, answers, supported, calls, cleared>>

AskText ==
  /\ call.at = "text"
  /\ LET q == Q(9, call.arg, 0) IN
     \E R \in SUBSET (Replies(q) \cup late) :
       Hears(q, R) /\ Returns({<<r.ecu, r.pid>> : r \in
                         {r \in Kept(q, R) : Printable(r.of.info[r.pid]) # <<>>}})
  /\ UNCHANGED <<car, base, found, held, answers, supported, calls, cleared>>
-----------------------------------------------------------------------------
(* read_pid *)
Reading(r, q) == [ecu |-> r.ecu, pid |-> q.pid, frame |-> q.frame,
                  of |-> <<r.mode, r.pid, r.frame>>]

ReadPid(p) == Call("pid", "ask", p)

AskPid ==
  /\ call.op = "pid"
  /\ LET q == Q(1, call.arg, 0) IN
     \E R \in SUBSET (Replies(q) \cup late) :
       Hears(q, R) /\ Returns({Reading(r, q) : r \in Kept(q, R)})
  /\ UNCHANGED <<car, base, found, held, answers, supported, calls, cleared>>
-----------------------------------------------------------------------------
(* read_freeze_frames: which ECU holds one, what it says it captured, and  *)
(* then each of those PIDs of all of them at once.                         *)
ReadFreezeFrames(f) == Call("freeze", "trigger", f)

AskTrigger ==
  /\ call.at = "trigger"
  /\ LET q == Q(2, PidFreezeDtc, call.arg) IN
     \E R \in SUBSET (Replies(q) \cup late) :
       LET H == {r.ecu : r \in {r \in Kept(q, R) : r.of.frozen}} IN
       /\ Hears(q, R)
       /\ held' = [e \in H |-> {}]
       /\ IF H = {} THEN Returns({}) ELSE MovesTo("walk") /\ UNCHANGED result
  /\ UNCHANGED <<car, base, found, answers, supported, calls, cleared>>

WalkFrozen ==
  /\ call.op = "freeze" /\ call.at = "walk"
  /\ Walk(2, call.arg, MovesTo("values") /\ base' = 1 /\ UNCHANGED <<supported, result>>)

Wanted == {p \in UNION {PidsOf(found, e) : e \in DOMAIN held} :
             p % BlockSize # 0 /\ p # PidFreezeDtc}

\* "base" is the PID to read now: they are taken in order.
AskFrozen ==
  /\ call.at = "values"
  /\ LET Left == {p \in Wanted : p >= base} IN
     \/ /\ Left = {} /\ Returns(UNION {held[e] : e \in DOMAIN held})
        /\ UNCHANGED <<base, held, late, gaps>>
     \/ \E p \in Left : /\ \A o \in Left : p <= o
          /\ LET q == Q(2, p, call.arg) IN
             \E R \in SUBSET (Replies(q) \cup late) :
               /\ Hears(q, R)
               /\ held' = [e \in DOMAIN held |->
                             held[e] \cup {Reading(r, q) : r \in {r \in Kept(q, R) : r.ecu = e}}]
          /\ base' = p + 1
          /\ UNCHANGED <<call, result>>
  /\ UNCHANGED <<car, found, answers, supported, calls, cleared>>
-----------------------------------------------------------------------------
(* read_readiness.  Bytes C and D name other monitors on a diesel; an ECU  *)
(* without engine monitors leaves the ignition bit clear, and any ECU may  *)
(* leave it clear in the answer about this cycle.                          *)
SparkNames == <<"catalyst", "evaporative_system">>
CompressionNames == <<"nmhc_catalyst", "boost_pressure">>

SaysDiesel(r) == r.of.diesel /\ ~ (r.pid = PidThisCycle /\ r.of.bitOnlySinceClear)

\* Mutant: every ECU's answer is decoded after its own ignition bit.
OwnIgnition(r, compression) == IF SaysDiesel(r) THEN CompressionNames ELSE SparkNames

Names(r, compression) == IF compression THEN CompressionNames ELSE SparkNames

\* decode_monitor_status and combine: available if any ECU has the monitor,
\* complete only if all that have it say so.
Combined(A, compression) ==
  LET Says == {[name |-> Names(r, compression)[i], has |-> i \in r.of.monitors,
                done |-> i \in r.of.complete] : r \in A, i \in 1..2}
  IN {[name |-> n,
       status |-> IF ~ \E s \in Says : s.name = n /\ s.has THEN "not_available"
                  ELSE IF \A s \in Says : s.name = n /\ s.has => s.done THEN "complete"
                  ELSE "incomplete"] : n \in {s.name : s \in Says}}

ReadReadiness(pid) == Call("readiness", "status", pid)

AskStatus ==
  /\ call.at = "status"
  /\ LET q == Q(1, call.arg, 0) IN
     \E R \in SUBSET (Replies(q) \cup late) :
       LET A == Kept(q, R) IN
       /\ Hears(q, R)
       /\ answers' = A
       /\ IF A = {} THEN Returns({})
          ELSE IF (\E r \in A : SaysDiesel(r)) \/ call.arg = PidStatus
          THEN Returns(Combined(A, \E r \in A : SaysDiesel(r)))
          ELSE MovesTo("ignition") /\ UNCHANGED result
  /\ UNCHANGED <<car, base, found, held, supported, calls, cleared>>

AskIgnition ==
  /\ call.at = "ignition"
  /\ LET q == Q(1, PidStatus, 0) IN
     \E R \in SUBSET (Replies(q) \cup late) :
       Hears(q, R) /\ Returns(Combined(answers, \E r \in Kept(q, R) : SaysDiesel(r)))
  /\ UNCHANGED <<car, base, found, held, answers, supported, calls, cleared>>
-----------------------------------------------------------------------------
(* read_dtcs.  A code is two bytes.  An ECU may open with their number, and *)
(* may pad with zeros; the count is believed if it accounts for everything. *)
Pairs(data) == [i \in 1..(Len(data) \div 2) |-> <<data[2 * i - 1], data[2 * i]>>]

Words(data) == {w \in {Pairs(data)[i] : i \in DOMAIN Pairs(data)} : w # <<0, 0>>}

Counts(data) == /\ data # <<>> /\ 2 * data[1] <= Len(data) - 1
                /\ \A i \in (2 * data[1] + 2)..Len(data) : data[i] = 0

\* Mutant: the count is believed whenever the codes it declares fit.
ParseFitting(data) == IF data # <<>> /\ 2 * data[1] <= Len(data) - 1
                      THEN Words(SubSeq(data, 2, 2 * data[1] + 1)) ELSE Words(data)

ParseDtcPayload(data) == IF Counts(data) THEN Words(SubSeq(data, 2, 2 * data[1] + 1))
                         ELSE Words(data)

\* An ECU's answer: with or without the count, and padded or not.
Bytes(codes) == [i \in 1..(2 * Len(codes)) |-> codes[(i + 1) \div 2][2 - (i % 2)]]

Payload(r) == (IF r.of.counts THEN <<Len(r.of.dtcs[r.mode])>> ELSE <<>>)
              \o Bytes(r.of.dtcs[r.mode]) \o r.of.padding

ReadDtcs(kind) == Call("dtcs", "ask", Kinds[kind])

AskDtcs ==
  /\ call.op = "dtcs"
  /\ LET q == Q(call.arg, 0, 0) IN
     \E R \in SUBSET (Replies(q) \cup late) :
       /\ Hears(q, R)
       /\ answers' = Positive(q, R)
       /\ Returns(UNION {{<<r.ecu, w>> : w \in ParseDtcPayload(Payload(r))} : r \in answers'})
  /\ UNCHANGED <<car, base, found, held, supported, calls, cleared>>
-----------------------------------------------------------------------------
(* obd_clear_dtcs: WriteGate.check, in its order, for the one service that *)
(* is implemented; then mode 04, and the codes once more.                  *)
\* The two environment variables it asks for are read at every call.
GateRefuses(process, agent, confirm) == ~ process \/ ~ agent \/ ~ confirm

ClearTroubleCodes(process, agent, confirm) ==
  /\ IF GateRefuses(process, agent, confirm)
     THEN /\ call = Idle /\ calls < MaxCalls /\ calls' = calls + 1
          /\ result' = [op |-> "clear", value |-> "refused"]
          /\ cleared' = {}
          /\ UNCHANGED <<car, late, call, base, found, held, answers, supported, gaps>>
     ELSE Call("clear", "send", 0)

Erased(s) == [s EXCEPT !.dtcs = [@ EXCEPT ![3] = <<>>, ![7] = <<>>],
                       !.frozen = FALSE, !.complete = {}]

\* Each ECU carries it out or refuses; who is heard to acknowledge is one thing,
\* that the tool says "cleared" without looking at it is another.
SendClear ==
  /\ call.op = "clear"
  /\ \E E \in SUBSET Ecus :
       /\ car' = [e \in Ecus |-> IF e \in E THEN Erased(car[e]) ELSE car[e]]
       /\ cleared' = E
  /\ \/ Returns("cleared")
     \/ Returns("refused")     \* TransportError, which is a DiagnosticError
  /\ UNCHANGED <<late, base, found, held, answers, supported, calls, gaps>>
-----------------------------------------------------------------------------
ObdNext == \/ SupportedPids \/ Discover \/ Identify \/ DiscoverFirst
           \/ ReadVin \/ AskVin \/ AskText
           \/ \E item \in {InfoVin, 10} : ReadTextInfo(item)
           \/ \E p \in {PidStatus, BlockSize + 2} : ReadPid(p)
           \/ AskPid
           \/ \E f \in {0, 1} : ReadFreezeFrames(f)
           \/ AskTrigger \/ WalkFrozen \/ AskFrozen
           \/ \E p \in {PidStatus, PidThisCycle} : ReadReadiness(p)
           \/ AskStatus \/ AskIgnition
           \/ \E kind \in DOMAIN Kinds : ReadDtcs(kind)
           \/ AskDtcs
           \/ \E process, agent, confirm \in BOOLEAN : ClearTroubleCodes(process, agent, confirm)
           \/ SendClear \/ LinkLost

ObdSpec == ObdInit /\ [][ObdNext]_obdVars
-----------------------------------------------------------------------------
Truth(e) == {0} \cup car[e].pids

\* What discovery says an ECU implements, it implements, whichever answers were
\* late; and when none was lost it has missed nothing, though the blocks end
\* earlier for one ECU than for another.
DiscoveryExact ==
  /\ \A e \in DOMAIN supported : supported[e] \subseteq Truth(e)
  /\ result.op = "supported" /\ ~ gaps => result.value = [e \in Ecus |-> Truth(e)]

\* A reading is of the mode, the PID and the frame it is filed under, though late
\* answers to other requests are heard with those to this one; and when nothing
\* was lost, the freeze frames hold all that the ECUs with a fault captured.
ReadingsBelong ==
  /\ result.op = "pid" => \A v \in result.value : v.of = <<1, v.pid, 0>>
  /\ result.op = "freeze" =>
       /\ \A v \in result.value : v.of = <<2, v.pid, v.frame>>
       /\ ~ gaps => \A e \in Ecus : car[e].frozen =>
            {p \in car[e].pids : p % BlockSize # 0 /\ p # PidFreezeDtc}
              \subseteq {v.pid : v \in {v \in result.value : v.ecu = e}}

\* Readiness is told by the right names, though perhaps only the engine's controller
\* says that it is a diesel, and not in the answer asked for; and a monitor is called
\* complete only if it is so in every ECU that has it and answers what was asked.
ReadinessRight ==
  result.op = "readiness" /\ result.value # {} /\ ~ gaps =>
    LET told == {v.name : v \in result.value}
    IN /\ (\E e \in Ecus : PidStatus \in car[e].pids /\ car[e].diesel) =>
            told = ToSet(CompressionNames)
       /\ (\A e \in Ecus : ~ car[e].diesel) => told = ToSet(SparkNames)
       /\ \A v \in result.value, i \in 1..2 :
            v.name \in {SparkNames[i], CompressionNames[i]} /\ v.status = "complete" =>
              \A r \in answers, e \in Ecus :
                r.pid \in car[e].pids /\ i \in car[e].monitors => i \in car[e].complete

\* The codes reported are those the ECUs sent, with a count or without one, padded
\* or not, unless codes sent without a count happen to look like a count of fewer.
DtcsAsSent ==
  result.op = "dtcs" /\ (\A r \in answers : r.of.counts \/ ~ Counts(Payload(r))) =>
    result.value = UNION {{<<r.ecu, w>> : w \in ToSet(r.of.dtcs[r.mode])} : r \in answers}

\* "Read back, so the answer reflects the vehicle rather than the request": codes
\* are reported cleared only if an ECU has cleared them.
ClearedReflectsTheVehicle ==
  result = [op |-> "clear", value |-> "cleared"] => cleared # {}
=============================================================================
