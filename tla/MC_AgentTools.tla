----------------------------- MODULE MC_AgentTools -----------------------------
(* What agents ask: the requests of AgentRequests and the profiles of             *)
(* VehicleProfiles, which share no state; a behaviour exercises one of them.      *)
(* Requests: every message of up to three words of a vocabulary that covers each  *)
(* test of the dispatcher, and a few longer ones.  Profiles: a generic one, a     *)
(* make and a variant of it; an edit that breaks, removes, orphans, loops or      *)
(* redefines them, or that no load survives; vehicles with and without a VIN.      *)
EXTENDS AgentRequests, VehicleProfiles, TLC

Word(text, has, number, hex, frame) ==
  [text |-> text, has |-> has, number |-> number, hex |-> hex, frame |-> frame]
Plain(text, has) == Word(text, has, Absent, Absent, FALSE)

Connect_ == Plain("connect", {})
Send == Plain("send", {"send"})
Sdo == Plain("sdo", {"sdo"})
Read == Plain("read", {"read"})
Node == Plain("node", {})
Index == Plain("index", {})
Simulate == Plain("simulate", {"sim"})
Five == Word("5", {}, 5, 5, FALSE)
Thousand == Word("0x1000", {}, Absent, 4096, TRUE)
Vocabulary == { Connect_, Send, Sdo, Read, Node, Index, Five, Thousand,
  Plain("disconnect", {}), Plain("network", {"network"}), Plain("trace", {"trace"}),
  Plain("connected", {"connected"}), Plain("restart", {"start"}),
  Plain("reset", {}), Plain("sync", {"sync"}),
  Word("701", {}, 701, 1793, TRUE), Word("add", {}, Absent, 2781, TRUE) }

Longer == { <<Connect_, Plain("udp", {}), Plain("group", {}), Simulate>>,
            <<Connect_, Plain("udp", {}), Plain("group", {}), Five, Simulate>>,
            <<Connect_, Simulate>>,
            <<Sdo, Read, Node, Five, Index, Thousand>>,
            <<Sdo, Read, Index, Thousand, Plain("sub", {}), Node, Node, Five>>,
            <<Sdo, Read, Plain("sub", {}), Word("701", {}, 701, 1793, TRUE)>>,
            <<Send, Thousand, Five, Word("05", {}, 5, 5, TRUE)>> }

MessagesTried == Longer \cup UNION {[1..n -> Vocabulary] : n \in 1..3}

Request(host, origin, method, message) ==
  [host |-> host, origin |-> origin, method |-> method, message |-> message]
PostsTried ==
  {Request("loopback", Absent, "message/send", m) : m \in MessagesTried}
  \cup {Request(h, o, me, m) : h \in {Absent, "loopback", "other"},
          o \in {Absent, "front-end", "other"},
          me \in {Absent, "tasks/get", "message/send"},
          m \in {<<Connect_>>, <<Plain("sync", {"sync"})>>}}
ToolCallsTried ==
  {[tool |-> "send_frame", id |-> 1793, data |-> d] :
     d \in {<<>>, <<5>>, <<255>>, <<256>>, [i \in 1..8 |-> 0], [i \in 1..9 |-> 0]}}
  \cup {[tool |-> "send_nmt", command |-> c, node |-> n] :
          c \in {"start", "halt"}, n \in {0, 255, 256}}
  \cup {[tool |-> "sdo_read", node |-> 1, index |-> i, sub |-> n] :
          i \in {4096, 65536}, n \in {0, 255, 256}}
  \cup {[tool |-> "send_sync"]}
PermittedTried == {"front-end"}
Entry(service, identifier) == [service |-> service, identifier |-> identifier]
GateCallsTried ==
  [gate : [agent : BOOLEAN,
           entries : {<<>>, <<Entry(46, 1)>>, <<Entry(49, Absent), Entry(4, Absent)>>}],
   service : {4, 8, 46, 49}, identifier : {Absent, 1, 2}, confirm : {TRUE, FALSE, Absent}]

Rules(wmi, prefixes, from, to, required, forbidden, names) ==
  [wmi |-> wmi, prefixes |-> prefixes, yearFrom |-> from, yearTo |-> to,
   required |-> required, forbidden |-> forbidden, names |-> names]
NoRules == Rules({}, {}, None, None, {}, {}, {})
File(id, extends, pids, rules) ==
  [id |-> id, extends |-> extends, pids |-> pids, rules |-> rules, parses |-> "yes"]

Generic == File("j1979_base", None, ("rpm" :> "std" @@ "soc" :> "std"), NoRules)
Make == File("make", None, ("soc" :> "make" @@ "temp" :> "make"),
             Rules({"A"}, {}, None, None, {"rpm"}, {}, {"ECM"}))
Variant == File("variant", "make", ("soc" :> "variant"),
              Rules({}, {<<"A", "x">>}, 2015, None, {"rpm", "soc"}, {"temp"}, {}))
Other == File("other", None, ("temp" :> "other"), Rules({}, {}, None, 2000, {"temp"}, {}, {}))
Broken == [Generic EXCEPT !.parses = "skipped"]
BadYear == [Other EXCEPT !.parses = "raises"]
Orphan == [Make EXCEPT !.extends = ""]
Looping == [Make EXCEPT !.extends = "variant"]

DiskContents == { <<Generic, Make, Variant, Other>>, <<Broken, Make, Variant>>,
                  <<Generic, Looping, Variant, Other>>, <<Generic, Other>>,
                  <<Generic, Make, BadYear>>, <<Generic, Orphan, Variant>>,
                  <<Generic, Make, [Make EXCEPT !.pids = ("soc" :> "edited")], Variant>> }

Vehicle(vin, code, supported, names) ==
  [vin |-> vin, yearCode |-> code, supported |-> supported, names |-> names]
VehiclesTried == { Vehicle(<<"A", "x">>, 7, {"rpm", "soc"}, {}),
                   Vehicle(<<"A", "y">>, None, {"rpm"}, {"ECM"}),
                   Vehicle(<<"B", "x">>, 7, {"rpm", "soc"}, {}),
                   Vehicle(None, None, {"rpm", "soc", "temp"}, {}) }

ChosenByHand == {None, "make", "variant"}

VARIABLE part      \* which of the two a behaviour exercises

vars == <<part, requestVars, profileVars>>

Idle == RequestsInit /\ adapter = "none" /\ switches = [process |-> FALSE, agents |-> FALSE]
Init == \/ part = "requests" /\ RequestsInit
           /\ disk = <<>> /\ shared = None /\ edits = 0 /\ chosen = None
           /\ session = [s \in {"gui", "mcp"} |-> Closed]
        \/ part = "profiles" /\ ProfilesInit /\ Idle

Next == \/ part = "requests" /\ RequestsNext /\ UNCHANGED <<part, profileVars>>
        \/ part = "profiles" /\ ProfilesNext /\ UNCHANGED <<part, requestVars>>
Spec == Init /\ [][Next]_vars
================================================================================
