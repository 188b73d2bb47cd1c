--------------------------- MODULE VehicleProfiles ---------------------------
(***************************************************************************)
(* Vehicle profiles (diag/profiles/): files that inherit from one another, *)
(* read from disk into a library, matched against what a vehicle says of   *)
(* itself, and applied to the diagnostic sessions of the window (gui.py)   *)
(* and of the MCP tools (diag/mcp_tools.py) while a user edits the files   *)
(* and reloads them.  The window reads the disk afresh for each            *)
(* identification; the tools share one library, which a reload replaces.   *)
(***************************************************************************)
EXTENDS Integers, FiniteSets, Sequences, SequencesExt, FiniteSetsExt

CONSTANTS Disks,       \* contents of the profile directory: sequences of files
          Vehicles,    \* what a vehicle may say of itself
          ByHand,     \* profiles chosen by hand, None for automatic
          MaxDepth,    \* MAX_DEPTH: 16
          MaxEdits,    \* bound: edits of the directory
          None

\* The directory is a sequence of files, each with an identifier that is not None.
ASSUME DisksAssumption ==
  \A files \in Disks :
    /\ files \in Seq(Range(files))
    /\ \A i \in DOMAIN files : /\ files[i].id # None
                               /\ {"id", "extends"} \subseteq DOMAIN files[i]
ASSUME DepthAssumption == MaxDepth \in Nat

VARIABLES disk,        \* the files, in path order
          shared,      \* the default library of the tools, None before its first use
          session,     \* "gui", "mcp" -> its diagnostic session
          chosen,      \* the window's profile chooser
          edits

profileVars == <<disk, shared, session, chosen, edits>>

Base == "j1979_base"
Closed == [phase |-> "closed", vehicle |-> None, manual |-> None, match |-> None, table |-> None]

ProfilesInit ==
        /\ disk \in Disks /\ shared = None /\ edits = 0
        /\ session = [s \in {"gui", "mcp"} |-> Closed]
        /\ chosen = None

-----------------------------------------------------------------------------
(* The library: id -> file.  A file that is refused with a ProfileError is *)
(* skipped, and a later file replaces an earlier one with its id.  Any     *)
(* other error (a year that is no number, bytes that are not UTF-8) is not *)
(* caught: it ends the load of every file.                                 *)

Loads(files) == \A i \in DOMAIN files : files[i].parses # "raises"

\* Only the base need not name a parent, but an empty name is none.
Parent(file) == CASE file.extends = None /\ file.id # Base -> Base
                  [] file.extends = "" -> None
                  [] OTHER -> file.extends

Load(files) ==
  LET good == {i \in DOMAIN files : files[i].parses = "yes"}
      last(id) == files[Max({i \in good : files[i].id = id})]
  IN [id \in {files[i].id : i \in good} |-> [last(id) EXCEPT !.extends = Parent(last(id))]]

\* A parent that is missing is stayed at.
Ancestor(library, id) ==
  LET up[n \in 0..MaxDepth] ==
        IF n = 0 THEN id
        ELSE LET last == up[n - 1]
             IN IF last \in DOMAIN library THEN library[last].extends ELSE last
  IN up

\* Lengths of a chain that ends: none if a parent is missing, the chain loops
\* or it is deeper than MaxDepth.
Lengths(library, id) == {n \in 1..MaxDepth : Ancestor(library, id)[n] = None
                                             /\ Ancestor(library, id)[n - 1] # None}
Resolves(library, id) == Lengths(library, id) # {}

\* Base first.
Chain(library, id) == LET n == Min(Lengths(library, id))
                      IN [k \in 1..n |-> library[Ancestor(library, id)[n - k]]]

Over(lower, upper) == [key \in DOMAIN lower \cup DOMAIN upper |->
                         IF key \in DOMAIN upper THEN upper[key] ELSE lower[key]]

\* Mutant: a definition already there is kept.
MergeFirst(chain) ==
  LET table[n \in 0..Len(chain)] ==
        IF n = 0 THEN <<>> ELSE Over(chain[n].pids, table[n - 1])
  IN table[Len(chain)]

\* merge_chain: each layer over the one before.
Merge(chain) ==
  LET table[n \in 0..Len(chain)] ==
        IF n = 0 THEN <<>> ELSE Over(table[n - 1], chain[n].pids)
  IN table[Len(chain)]

\* The last layer is the profile itself: its rules are not inherited.
Resolved(library, id) ==
  LET chain == Chain(library, id)
  IN [id |-> id, table |-> Merge(chain), rules |-> library[id].rules,
      lineage |-> [k \in DOMAIN chain |-> chain[k].id]]

-----------------------------------------------------------------------------
(* Matching.  Scores count in halves; None is a contradiction. *)

\* The year code of a VIN repeats every thirty years, and the position that
\* tells the cycles apart is a convention only: both years are candidates.
CandidateYears(vehicle) ==
  IF vehicle.yearCode = None THEN {} ELSE {1980 + vehicle.yearCode, 2010 + vehicle.yearCode}
YearFits(rules, year) == /\ rules.yearFrom # None => year >= rules.yearFrom
                         /\ rules.yearTo # None => year <= rules.yearTo
HasYears(rules) == rules.yearFrom # None \/ rules.yearTo # None
IsEmpty(rules) == /\ rules.wmi = {} /\ rules.prefixes = {} /\ ~ HasYears(rules)
                  /\ rules.required = {} /\ rules.forbidden = {} /\ rules.names = {}

Starts(vehicle, prefixes) == \E p \in prefixes : IsPrefix(p, vehicle.vin)
ScoreAgainstVin(rules, vehicle) ==
  LET prefix == IF rules.prefixes = {} THEN 0 ELSE 8
      wmi    == IF rules.wmi = {} THEN 0 ELSE 6
      year   == IF HasYears(rules) THEN 4 ELSE 0
  IN IF \/ rules.prefixes # {} /\ ~ Starts(vehicle, rules.prefixes)
        \/ rules.wmi # {} /\ vehicle.vin[1] \notin rules.wmi
        \/ HasYears(rules) /\ ~ \E y \in CandidateYears(vehicle) : YearFits(rules, y)
        \/ prefix + wmi + year = 0
     THEN None ELSE prefix + wmi + year

ScoreAgainstFingerprint(rules, supported) ==
  IF \/ rules.required = {} /\ rules.forbidden = {}
     \/ ~ rules.required \subseteq supported
     \/ rules.forbidden \cap supported # {}
  THEN None ELSE 2 * Cardinality(rules.required) + Cardinality(rules.forbidden)

\* An ECU name adds to a match and never makes one.
ScoreEcuNames(rules, vehicle) == 2 * Cardinality(rules.names \cap vehicle.names)

ContradictsVin(rules, vehicle) ==
  /\ vehicle.vin # None
  /\ \/ rules.wmi # {} /\ vehicle.vin[1] \notin rules.wmi
     \/ rules.prefixes # {} /\ ~ Starts(vehicle, rules.prefixes)

SpecificProfiles(library) ==
  {id \in DOMAIN library : id # Base /\ Resolves(library, id) /\ ~ IsEmpty(library[id].rules)}

VinScores(library, vehicle) ==
  IF vehicle.vin = None THEN {}
  ELSE {<<id, ScoreAgainstVin(library[id].rules, vehicle)>> : id \in SpecificProfiles(library)}

\* Mutant: what the VIN says is not held against a fingerprint.
FingerprintScoresAlone(library, vehicle) ==
  IF vehicle.supported = {} THEN {}
  ELSE {<<id, ScoreAgainstFingerprint(library[id].rules, vehicle.supported)>> :
          id \in SpecificProfiles(library)}

FingerprintScores(library, vehicle) ==
  IF vehicle.supported = {} THEN {}
  ELSE {<<id, ScoreAgainstFingerprint(library[id].rules, vehicle.supported)>> :
          id \in {p \in SpecificProfiles(library) : ~ ContradictsVin(library[p].rules, vehicle)}}

\* The highest score; of equals the first in the order of their names, which
\* the model leaves open.
Best(library, vehicle, scores) ==
  LET fit == {<<s[1], s[2] + ScoreEcuNames(library[s[1]].rules, vehicle)>> :
                s \in {x \in scores : x[2] # None}}
  IN {s[1] : s \in {x \in fit : \A y \in fit : y[2] <= x[2]}}

Match(library, id, stage) == [id |-> id, stage |-> stage, from |-> library,
                              profile |-> Resolved(library, id)]

\* Every match the resolver may return; none when it raises, which it does
\* for a profile chosen by hand and for the generic one alone.
Resolve(library, vehicle, manual) ==
  LET byVin == Best(library, vehicle, VinScores(library, vehicle))
      byFingerprint == Best(library, vehicle, FingerprintScores(library, vehicle))
  IN IF manual # None
     THEN {Match(library, id, "manual") : id \in {x \in {manual} : Resolves(library, x)}}
     ELSE IF byVin # {} THEN {Match(library, id, "vin") : id \in byVin}
     ELSE IF byFingerprint # {} THEN {Match(library, id, "fingerprint") : id \in byFingerprint}
     ELSE {Match(library, id, "fallback") : id \in {x \in {Base} : Resolves(library, x)}}

-----------------------------------------------------------------------------
(* The sessions.  Identifying is a conversation with the vehicle, then the *)
(* resolution, then the result is stored: the rest of the studio runs in   *)
(* between.                                                                *)

\* _obd_identify closes the session of before; obd_connect wants none open.
Identify(s) ==
  /\ session[s].phase \in IF s = "gui" THEN {"closed", "open"} ELSE {"closed"}
  /\ \E vehicle \in Vehicles, manual \in IF s = "gui" THEN {chosen} ELSE ByHand :
       session' = [session EXCEPT ![s] = [Closed EXCEPT !.phase = "identifying",
                                                        !.vehicle = vehicle, !.manual = manual]]
  /\ UNCHANGED <<disk, shared, chosen, edits>>

\* default_library reads the disk for the tools when nothing is shared yet;
\* a failure of the load or of the resolution closes the session.
Resolution(s) ==
  LET fromDisk == s = "gui" \/ shared = None
      library  == IF fromDisk THEN Load(disk) ELSE shared
      matches  == IF fromDisk /\ ~ Loads(disk) THEN {}
                  ELSE Resolve(library, session[s].vehicle, session[s].manual)
  IN /\ session[s].phase = "identifying"
     /\ shared' = IF s = "mcp" /\ Loads(disk) THEN library ELSE shared
     /\ IF matches = {} THEN session' = [session EXCEPT ![s] = Closed]
        ELSE \E m \in matches :
               session' = [session EXCEPT ![s].phase = "resolved", ![s].match = m,
                                          ![s].table = m.profile.table]
     /\ UNCHANGED <<disk, chosen, edits>>

Store(s) == /\ session[s].phase = "resolved"
            /\ session' = [session EXCEPT ![s].phase = "open"]
            /\ UNCHANGED <<disk, shared, chosen, edits>>

Close(s) == /\ session[s].phase = "open"
            /\ session' = [session EXCEPT ![s] = Closed]
            /\ UNCHANGED <<disk, shared, chosen, edits>>

Choose == /\ \E id \in ByHand : /\ chosen' = id
                                /\ id # None => Loads(disk) /\ Resolves(Load(disk), id)
          /\ UNCHANGED <<disk, shared, session, edits>>

\* reload_default_library: nothing is replaced without the generic profile.
\* A load that raises replaces nothing either: its error leaves the callers.
Replaces == Loads(disk) /\ Resolves(Load(disk), Base)

\* The open session resolves again from what the vehicle said.  A profile
\* chosen by hand that is gone raises: the session keeps what it had.
Reapplied(s, fresh, manual) ==
  LET matches == Resolve(fresh, session[s].vehicle, manual)
  IN IF matches = {} THEN UNCHANGED session
     ELSE \E m \in matches :
            session' = [session EXCEPT ![s].match = m, ![s].table = m.profile.table]

\* The tools re-apply the choice the session was opened with; the window
\* applies what its chooser shows, and the chooser drops what is gone.
Reload(s) ==
  LET fresh == Load(disk)
      shown == IF chosen # None /\ ~ Resolves(fresh, chosen) THEN None ELSE chosen
  IN /\ shared' = IF Replaces THEN fresh ELSE shared
     /\ IF ~ Replaces THEN UNCHANGED <<session, chosen>>
        ELSE /\ chosen' = IF s = "gui" THEN shown ELSE chosen
             /\ IF session[s].phase # "open" THEN UNCHANGED session
                ELSE Reapplied(s, fresh, IF s = "gui" THEN shown ELSE session[s].manual)
     /\ UNCHANGED <<disk, edits>>

Edit == /\ edits < MaxEdits /\ edits' = edits + 1
        /\ disk' \in Disks
        /\ UNCHANGED <<shared, session, chosen>>

ProfilesNext == \/ \E s \in {"gui", "mcp"} :
                     Identify(s) \/ Resolution(s) \/ Store(s) \/ Close(s) \/ Reload(s)
                \/ Choose \/ Edit

ProfilesSpec == ProfilesInit /\ [][ProfilesNext]_profileVars
-----------------------------------------------------------------------------
Open(s) == session[s].phase = "open"

\* A profile matched automatically never contradicts the maker and the
\* prefix of a VIN that is known, whichever stage found it and however often
\* the files were edited and reloaded; without a match it is the generic one.
NeverAnotherMake ==
  \A s \in DOMAIN session : Open(s) =>
    LET match == session[s].match
        rules == match.profile.rules
        vin   == session[s].vehicle.vin
    IN /\ match.stage \in {"vin", "fingerprint"} /\ vin # None =>
            /\ rules.wmi # {} => vin[1] \in rules.wmi
            /\ rules.prefixes # {} => \E p \in rules.prefixes : IsPrefix(p, vin)
       /\ match.stage \notin {"vin", "fingerprint", "manual"} => match.id = Base

\* A session decodes each PID by the definition of the nearest profile of its
\* lineage that has one, all of one reading of the files, and knows every PID
\* its lineage describes (merge_chain; the generic profile is in the lineage
\* unless a file names no parent on purpose).
NearestDefinitionDecodes ==
  \A s \in DOMAIN session : Open(s) =>
    LET library == session[s].match.from
        lineage == session[s].match.profile.lineage
        table   == session[s].table
    IN /\ lineage[Len(lineage)] = session[s].match.id
       /\ DOMAIN table = UNION {DOMAIN library[lineage[k]].pids : k \in DOMAIN lineage}
       /\ \A pid \in DOMAIN table : \E k \in DOMAIN lineage :
            /\ pid \in DOMAIN library[lineage[k]].pids
            /\ table[pid] = library[lineage[k]].pids[pid]
            /\ \A j \in (k + 1)..Len(lineage) : pid \notin DOMAIN library[lineage[j]].pids

\* A profile chosen by hand for a session of the tools stays its profile,
\* through every reload.
ChoiceIsHonoured ==
  Open("mcp") /\ session["mcp"].manual # None => session["mcp"].match.id = session["mcp"].manual

\* The profile in use is the vehicle's: matched to it (resolver.py), or
\* chosen by hand (mcp_tools.py).
ProfileIsTheVehicles == NeverAnotherMake /\ ChoiceIsHonoured
=============================================================================
