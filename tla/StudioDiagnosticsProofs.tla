------------------------ MODULE StudioDiagnosticsProofs ------------------------
(* The studio's and the agents' diagnostic sessions, for any number of links, *)
(* sessions, pollers, PIDs and agents.                                        *)
EXTENDS StudioDiagnostics, FiniteSetTheorems, TLAPS

Sessions == [link : Nat, n : Nat]
PollerPlaces == {"unused", "check", "cycle", "waiting", "record", "writing", "ended"}
PollerRecords ==
  [at : PollerPlaces, session : Sessions, stop : BOOLEAN, asked : Nat, got : Nat,
   file : {"none", "open", "closed"}, lost : Nat]
PollerTypes == pollers \in [Pollers -> PollerRecords]

\* A recording loses samples only as its thread ends, or as it is about to: no
\* file is closed under a poller that was not told to stop.
LostInv(p) ==
  /\ pollers[p].asked <= Pids /\ pollers[p].got <= pollers[p].asked
  /\ pollers[p].at = "waiting" => pollers[p].got < pollers[p].asked
  /\ pollers[p].at = "unused" => ~ pollers[p].stop /\ pollers[p].file # "closed"
  /\ pollers[p].at \in {"unused", "cycle", "waiting", "record", "writing"} => pollers[p].lost = 0
  /\ pollers[p].at = "check" => pollers[p].got = 0 /\ (pollers[p].lost = 0 \/ pollers[p].stop)
  /\ pollers[p].at = "ended" => pollers[p].got = 0
  /\ pollers[p].lost <= Pids
  /\ Alive(p) /\ pollers[p].file = "closed" => pollers[p].stop
-----------------------------------------------------------------------------
(* What the operations of a poller do to it, and to no other. *)
Alone(p) == \A q \in Pollers \ {p} : pollers'[q] = pollers[q]

Turns(p, at, asked, got, lost) ==
  /\ pollers'[p].at = at /\ pollers'[p].asked = asked /\ pollers'[p].got = got
  /\ pollers'[p].lost = lost /\ pollers'[p].file = pollers[p].file
  /\ pollers'[p].session = pollers[p].session /\ (pollers'[p].stop <=> pollers[p].stop)

\* Whatever a poller does changes it field by field.
LEMMA PollerTurns ==
  ASSUME PollerTypes, NEW p \in Pollers
  PROVE  /\ \A at \in PollerPlaces : Becomes(p, at) =>
              /\ PollerTypes' /\ Alone(p)
              /\ Turns(p, at, pollers[p].asked, pollers[p].got, pollers[p].lost)
         /\ CycleBegins(p) =>
              PollerTypes' /\ Alone(p) /\ Turns(p, "cycle", 0, pollers[p].got, pollers[p].lost)
         /\ \A lost \in Nat : Ends(p, lost) =>
              PollerTypes' /\ Alone(p) /\ Turns(p, "ended", 0, 0, pollers[p].lost + lost)
         /\ \A lost \in Nat : CycleDone(p, lost) =>
              /\ PollerTypes' /\ Alone(p)
              /\ Turns(p, "check", pollers[p].asked, 0, pollers[p].lost + lost)
<1>1. pollers[p] \in PollerRecords
  BY DEF PollerTypes
<1>2. ASSUME NEW at \in PollerPlaces, Becomes(p, at)
      PROVE  /\ PollerTypes' /\ Alone(p)
             /\ Turns(p, at, pollers[p].asked, pollers[p].got, pollers[p].lost)
  <2>1. pollers' = [pollers EXCEPT ![p].at = at]
    BY <1>2 DEF Becomes
  <2>2. PICK r : r = [pollers[p] EXCEPT !.at = at]
    OBVIOUS
  <2>3. 0 \in Nat
    BY <1>1 DEF PollerRecords
  <2>4. /\ r \in PollerRecords
        /\ r.at = at
    BY <1>1, <2>2, <2>3 DEF PollerRecords, PollerPlaces
  <2>5. /\ r.asked = pollers[p].asked /\ r.got = pollers[p].got /\ r.lost = pollers[p].lost
        /\ r.file = pollers[p].file /\ r.session = pollers[p].session /\ r.stop = pollers[p].stop
    BY <1>1, <2>2 DEF PollerRecords
  <2>6. pollers' = [pollers EXCEPT ![p] = r]
    BY <2>1, <2>2
  <2> QED BY <2>4, <2>5, <2>6 DEF PollerTypes, Alone, Turns
<1>3. ASSUME CycleBegins(p)
      PROVE  PollerTypes' /\ Alone(p) /\ Turns(p, "cycle", 0, pollers[p].got, pollers[p].lost)
  <2>1. pollers' = [pollers EXCEPT ![p].at = "cycle", ![p].asked = 0]
    BY <1>3 DEF CycleBegins
  <2>2. PICK r : r = [pollers[p] EXCEPT !.at = "cycle", !.asked = 0]
    OBVIOUS
  <2>3. 0 \in Nat
    BY <1>1 DEF PollerRecords
  <2>4. /\ r \in PollerRecords
        /\ r.at = "cycle" /\ r.asked = 0
    BY <1>1, <2>2, <2>3 DEF PollerRecords, PollerPlaces
  <2>5. /\ r.got = pollers[p].got /\ r.lost = pollers[p].lost /\ r.file = pollers[p].file
        /\ r.session = pollers[p].session /\ r.stop = pollers[p].stop
    BY <1>1, <2>2 DEF PollerRecords
  <2>6. pollers' = [pollers EXCEPT ![p] = r]
    BY <2>1, <2>2
  <2> QED BY <2>4, <2>5, <2>6 DEF PollerTypes, Alone, Turns
<1>4. ASSUME NEW lost \in Nat, Ends(p, lost)
      PROVE  PollerTypes' /\ Alone(p) /\ Turns(p, "ended", 0, 0, pollers[p].lost + lost)
  <2>1. pollers' = [pollers EXCEPT ![p].at = "ended", ![p].asked = 0, ![p].got = 0,
                                   ![p].lost = @ + lost]
    BY <1>4 DEF Ends
  <2>2. PICK r : r = [pollers[p] EXCEPT !.at = "ended", !.asked = 0, !.got = 0, !.lost = @ + lost]
    OBVIOUS
  <2>3. pollers[p].lost + lost \in Nat
    BY <1>1 DEF PollerRecords
  <2>4. /\ r \in PollerRecords
        /\ r.at = "ended" /\ r.asked = 0 /\ r.got = 0
        /\ r.lost = pollers[p].lost + lost
    BY <1>1, <2>2, <2>3 DEF PollerRecords, PollerPlaces
  <2>5. /\ r.file = pollers[p].file /\ r.session = pollers[p].session /\ r.stop = pollers[p].stop
    BY <1>1, <2>2 DEF PollerRecords
  <2>6. pollers' = [pollers EXCEPT ![p] = r]
    BY <2>1, <2>2
  <2> QED BY <2>4, <2>5, <2>6 DEF PollerTypes, Alone, Turns
<1>5. ASSUME NEW lost \in Nat, CycleDone(p, lost)
      PROVE  /\ PollerTypes' /\ Alone(p)
             /\ Turns(p, "check", pollers[p].asked, 0, pollers[p].lost + lost)
  <2>1. pollers' = [pollers EXCEPT ![p].at = "check", ![p].got = 0, ![p].lost = @ + lost]
    BY <1>5 DEF CycleDone
  <2>2. PICK r : r = [pollers[p] EXCEPT !.at = "check", !.got = 0, !.lost = @ + lost]
    OBVIOUS
  <2>3. pollers[p].lost + lost \in Nat
    BY <1>1 DEF PollerRecords
  <2>4. /\ r \in PollerRecords
        /\ r.at = "check" /\ r.got = 0 /\ r.lost = pollers[p].lost + lost
    BY <1>1, <2>2, <2>3 DEF PollerRecords, PollerPlaces
  <2>5. /\ r.asked = pollers[p].asked /\ r.file = pollers[p].file /\ r.session = pollers[p].session
        /\ r.stop = pollers[p].stop
    BY <1>1, <2>2 DEF PollerRecords
  <2>6. pollers' = [pollers EXCEPT ![p] = r]
    BY <2>1, <2>2
  <2> QED BY <2>4, <2>5, <2>6 DEF PollerTypes, Alone, Turns
<1> QED BY <1>2, <1>3, <1>4, <1>5

\* A request goes out, and is answered.
LEMMA AskTurns ==
  ASSUME PollerTypes, NEW p \in Pollers
  PROVE  /\ \A sessionOpen : Ask(p, sessionOpen) =>
              /\ PollerTypes' /\ Alone(p) /\ pollers[p].at = "cycle" /\ pollers[p].asked # Pids
              /\ \E at \in {"waiting", "cycle"} :
                   Turns(p, at, pollers[p].asked + 1, pollers[p].got, pollers[p].lost)
         /\ \A audible : Answered(p, audible) =>
              /\ PollerTypes' /\ Alone(p) /\ pollers[p].at = "waiting"
              /\ \E n \in 0..1 :
                   Turns(p, "cycle", pollers[p].asked, pollers[p].got + n, pollers[p].lost)
<1>1. pollers[p] \in PollerRecords
  BY DEF PollerTypes
<1>2. ASSUME NEW sessionOpen, Ask(p, sessionOpen)
      PROVE  /\ PollerTypes' /\ Alone(p) /\ pollers[p].at = "cycle" /\ pollers[p].asked # Pids
             /\ \E at \in {"waiting", "cycle"} :
                  Turns(p, at, pollers[p].asked + 1, pollers[p].got, pollers[p].lost)
  <2>1. PICK at \in {"waiting", "cycle"} :
          pollers' = [pollers EXCEPT ![p].asked = @ + 1, ![p].at = at]
    BY <1>2 DEF Ask
  <2>2. PICK r : r = [pollers[p] EXCEPT !.asked = @ + 1, !.at = at]
    OBVIOUS
  <2>3. pollers[p].asked + 1 \in Nat
    BY <1>1 DEF PollerRecords
  <2>4. r \in PollerRecords /\ r.at = at /\ r.asked = pollers[p].asked + 1
    BY <1>1, <2>2, <2>3 DEF PollerRecords, PollerPlaces
  <2>5. /\ r.got = pollers[p].got /\ r.lost = pollers[p].lost /\ r.file = pollers[p].file
        /\ r.session = pollers[p].session /\ r.stop = pollers[p].stop
    BY <1>1, <2>2 DEF PollerRecords
  <2>6. pollers' = [pollers EXCEPT ![p] = r]
    BY <2>1, <2>2
  <2>7. PollerTypes' /\ Alone(p)
        /\ Turns(p, at, pollers[p].asked + 1, pollers[p].got, pollers[p].lost)
    BY <2>4, <2>5, <2>6 DEF PollerTypes, Alone, Turns
  <2>8. pollers[p].at = "cycle" /\ pollers[p].asked # Pids
    BY <1>2 DEF Ask, CycleOver
  <2> QED BY <2>7, <2>8
<1>3. ASSUME NEW audible, Answered(p, audible)
      PROVE  /\ PollerTypes' /\ Alone(p) /\ pollers[p].at = "waiting"
             /\ \E n \in 0..1 :
                  Turns(p, "cycle", pollers[p].asked, pollers[p].got + n, pollers[p].lost)
  <2>1. PICK n \in 0..1 : pollers' = [pollers EXCEPT ![p].at = "cycle", ![p].got = @ + n]
    <3>1. PICK n \in 0..(IF audible THEN 1 ELSE 0) :
            pollers' = [pollers EXCEPT ![p].at = "cycle", ![p].got = @ + n]
      BY <1>3 DEF Answered
    <3>2. n \in 0..1
      OBVIOUS
    <3> QED BY <3>1, <3>2
  <2>2. PICK r : r = [pollers[p] EXCEPT !.at = "cycle", !.got = @ + n]
    OBVIOUS
  <2>3. pollers[p].got + n \in Nat
    BY <1>1 DEF PollerRecords
  <2>4. r \in PollerRecords /\ r.at = "cycle" /\ r.got = pollers[p].got + n
    BY <1>1, <2>2, <2>3 DEF PollerRecords, PollerPlaces
  <2>5. /\ r.asked = pollers[p].asked /\ r.lost = pollers[p].lost /\ r.file = pollers[p].file
        /\ r.session = pollers[p].session /\ r.stop = pollers[p].stop
    BY <1>1, <2>2 DEF PollerRecords
  <2>6. pollers' = [pollers EXCEPT ![p] = r]
    BY <2>1, <2>2
  <2>7. PollerTypes' /\ Alone(p)
        /\ Turns(p, "cycle", pollers[p].asked, pollers[p].got + n, pollers[p].lost)
    BY <2>4, <2>5, <2>6 DEF PollerTypes, Alone, Turns
  <2>8. pollers[p].at = "waiting"
    BY <1>3 DEF Answered
  <2> QED BY <2>7, <2>8
<1> QED BY <1>2, <1>3

\* What a poller's thread does by itself: it goes on or ends, and neither stops
\* itself nor closes its file.
Advances(p) ==
  /\ Alone(p) /\ Alive(p) /\ pollers'[p].at # "unused"
  /\ pollers'[p].session = pollers[p].session /\ (pollers'[p].stop <=> pollers[p].stop)

\* A poller's thread, and an answer or an error it waits for.
LEMMA PollerAdvances ==
  ASSUME PollerTypes, NEW p \in Pollers, LostInv(p),
         \/ \E sessionOpen, expired : PollerStep(p, sessionOpen, expired)
         \/ \E audible : Answered(p, audible)
         \/ LinkFails(p)
  PROVE  PollerTypes' /\ Advances(p) /\ LostInv(p)'
<1>1. /\ pollers[p].asked \in Nat /\ pollers[p].got \in Nat /\ pollers[p].lost \in Nat
      /\ Pids \in Nat /\ 0 \in Nat
  BY PidsAssumption DEF PollerTypes, PollerRecords
<1>2. {"check", "cycle", "waiting", "record", "writing", "ended"} \subseteq PollerPlaces
  BY DEF PollerPlaces
\* The invariant, for a turn that leaves the file as it is.
<1>3. ASSUME Alive(p), PollerTypes', Alone(p),
             NEW at \in PollerPlaces, NEW asked \in Nat, NEW got \in Nat, NEW lost \in Nat,
             Turns(p, at, asked, got, lost), at # "unused",
             asked <= Pids, got <= asked, lost <= Pids,
             at = "waiting" => got < asked,
             at \in {"cycle", "waiting", "record", "writing"} => lost = 0,
             at = "check" => got = 0 /\ (lost = 0 \/ pollers[p].stop),
             at = "ended" => got = 0
      PROVE  PollerTypes' /\ Advances(p) /\ LostInv(p)'
  <2>1. /\ pollers'[p].at = at /\ pollers'[p].asked = asked /\ pollers'[p].got = got
        /\ pollers'[p].lost = lost /\ pollers'[p].file = pollers[p].file
        /\ pollers'[p].session = pollers[p].session /\ (pollers'[p].stop <=> pollers[p].stop)
    BY <1>3 DEF Turns
  <2>2. Advances(p)
    BY <1>3, <2>1 DEF Advances
  <2>3. pollers[p].file = "closed" => pollers[p].stop
    BY <1>3 DEF LostInv
  <2>4. LostInv(p)'
    BY <1>3, <2>1, <2>3 DEF LostInv
  <2> QED BY <1>3, <2>2, <2>4
<1>4. ASSUME NEW expired, RunChecks(p, expired) PROVE PollerTypes' /\ Advances(p) /\ LostInv(p)'
  <2>1. pollers[p].at = "check" /\ Alive(p)
    BY <1>4 DEF RunChecks, Alive
  <2>2. pollers[p].got = 0 /\ pollers[p].lost <= Pids /\ (pollers[p].lost = 0 \/ pollers[p].stop)
    BY <2>1 DEF LostInv
  <2>3. CASE Ends(p, 0)
    <3>1. PollerTypes' /\ Alone(p) /\ Turns(p, "ended", 0, 0, pollers[p].lost + 0)
      BY <1>1, <2>3, PollerTurns
    <3>2. Turns(p, "ended", 0, 0, pollers[p].lost)
      BY <1>1, <3>1 DEF Turns
    <3>3. pollers[p].lost <= Pids /\ 0 <= Pids /\ 0 <= 0
      BY <1>1, <2>2
    <3> QED BY <1>1, <1>2, <1>3, <2>1, <3>1, <3>2, <3>3
  <2>4. CASE CycleBegins(p) /\ ~ pollers[p].stop
    <3>1. PollerTypes' /\ Alone(p) /\ Turns(p, "cycle", 0, pollers[p].got, pollers[p].lost)
      BY <2>4, PollerTurns
    <3> QED BY <1>1, <1>2, <1>3, <2>1, <2>2, <2>4, <3>1
  <2> QED BY <1>4, <2>3, <2>4 DEF RunChecks
<1>5. ASSUME CycleEnds(p) PROVE PollerTypes' /\ Advances(p) /\ LostInv(p)'
  <2>1. pollers[p].at = "cycle" /\ Alive(p)
    BY <1>5 DEF CycleEnds, Alive
  <2>2. PollerTypes' /\ Alone(p)
        /\ Turns(p, "record", pollers[p].asked, pollers[p].got, pollers[p].lost)
    BY <1>2, <1>5, PollerTurns DEF CycleEnds
  <2>3. pollers[p].lost = 0 /\ pollers[p].asked <= Pids /\ pollers[p].got <= pollers[p].asked
    BY <2>1 DEF LostInv
  <2> QED BY <1>1, <1>2, <1>3, <2>1, <2>2, <2>3
<1>6. ASSUME NEW sessionOpen, Ask(p, sessionOpen)
      PROVE  PollerTypes' /\ Advances(p) /\ LostInv(p)'
  <2>1. PollerTypes' /\ Alone(p) /\ pollers[p].at = "cycle" /\ pollers[p].asked # Pids
    BY <1>6, AskTurns
  <2>2. PICK at \in {"waiting", "cycle"} :
          Turns(p, at, pollers[p].asked + 1, pollers[p].got, pollers[p].lost)
    BY <1>6, AskTurns
  <2>3. pollers[p].lost = 0 /\ pollers[p].asked <= Pids /\ pollers[p].got <= pollers[p].asked
    BY <2>1 DEF LostInv
  <2>4. /\ pollers[p].asked + 1 \in Nat /\ pollers[p].asked + 1 <= Pids
        /\ pollers[p].got < pollers[p].asked + 1 /\ pollers[p].got <= pollers[p].asked + 1
        /\ pollers[p].lost <= Pids
    BY <1>1, <2>1, <2>3
  <2>5. Alive(p) /\ at \in PollerPlaces /\ at # "unused" /\ at # "check" /\ at # "ended"
    BY <1>2, <2>1 DEF Alive
  <2> QED BY <1>1, <1>3, <2>1, <2>2, <2>3, <2>4, <2>5
<1>7. ASSUME NEW audible, Answered(p, audible) PROVE PollerTypes' /\ Advances(p) /\ LostInv(p)'
  <2>1. PollerTypes' /\ Alone(p) /\ pollers[p].at = "waiting"
    BY <1>7, AskTurns
  <2>2. PICK n \in 0..1 :
          Turns(p, "cycle", pollers[p].asked, pollers[p].got + n, pollers[p].lost)
    BY <1>7, AskTurns
  <2>3. pollers[p].lost = 0 /\ pollers[p].asked <= Pids /\ pollers[p].got < pollers[p].asked
    BY <2>1 DEF LostInv
  <2>4. pollers[p].got + n \in Nat /\ pollers[p].got + n <= pollers[p].asked
        /\ pollers[p].lost <= Pids
    BY <1>1, <2>3
  <2>5. Alive(p)
    BY <2>1 DEF Alive
  <2> QED BY <1>1, <1>2, <1>3, <2>1, <2>2, <2>3, <2>4, <2>5
\* What a cycle got is lost with it, and nothing was lost before.
<1>8. ASSUME pollers[p].at \in {"waiting", "record", "writing"}, Ends(p, pollers[p].got)
      PROVE  PollerTypes' /\ Advances(p) /\ LostInv(p)'
  <2>1. PollerTypes' /\ Alone(p) /\ Turns(p, "ended", 0, 0, pollers[p].lost + pollers[p].got)
    BY <1>1, <1>8, PollerTurns
  <2>2. pollers[p].lost = 0 /\ pollers[p].asked <= Pids /\ pollers[p].got <= pollers[p].asked
    BY <1>8 DEF LostInv
  <2>3. pollers[p].lost + pollers[p].got \in Nat /\ pollers[p].lost + pollers[p].got <= Pids
    BY <1>1, <2>2
  <2>4. Alive(p)
    BY <1>8 DEF Alive
  <2> QED BY <1>1, <1>2, <1>3, <2>1, <2>3, <2>4
<1>9. ASSUME pollers[p].at \in {"record", "writing"}, NEW lost \in Nat, CycleDone(p, lost),
             lost = 0 \/ (lost = pollers[p].got /\ pollers[p].stop)
      PROVE  PollerTypes' /\ Advances(p) /\ LostInv(p)'
  <2>1. PollerTypes' /\ Alone(p) /\ Turns(p, "check", pollers[p].asked, 0, pollers[p].lost + lost)
    BY <1>9, PollerTurns
  <2>2. pollers[p].lost = 0 /\ pollers[p].asked <= Pids /\ pollers[p].got <= pollers[p].asked
    BY <1>9 DEF LostInv
  <2>3. /\ pollers[p].lost + lost \in Nat /\ pollers[p].lost + lost <= Pids
        /\ 0 <= pollers[p].asked
        /\ pollers[p].lost + lost = 0 \/ pollers[p].stop
    BY <1>1, <1>9, <2>2
  <2>4. Alive(p)
    BY <1>9 DEF Alive
  <2> QED BY <1>1, <1>2, <1>3, <2>1, <2>2, <2>3, <2>4
<1>10. ASSUME Record(p) PROVE PollerTypes' /\ Advances(p) /\ LostInv(p)'
  <2>1. pollers[p].at = "record" /\ Alive(p)
    BY <1>10 DEF Record, Alive
  <2>2. CASE CycleDone(p, 0)
    BY <1>1, <1>9, <2>1, <2>2
  <2>3. CASE pollers[p].file = "closed" /\ CycleDone(p, pollers[p].got)
    <3>1. pollers[p].stop
      BY <2>1, <2>3 DEF LostInv
    <3> QED BY <1>1, <1>9, <2>1, <2>3, <3>1
  <2>4. CASE Becomes(p, "writing")
    <3>1. PollerTypes' /\ Alone(p)
          /\ Turns(p, "writing", pollers[p].asked, pollers[p].got, pollers[p].lost)
      BY <1>2, <2>4, PollerTurns
    <3>2. pollers[p].lost = 0 /\ pollers[p].asked <= Pids /\ pollers[p].got <= pollers[p].asked
      BY <2>1 DEF LostInv
    <3> QED BY <1>1, <1>2, <1>3, <2>1, <3>1, <3>2
  <2> QED BY <1>10, <2>2, <2>3, <2>4 DEF Record
<1>11. ASSUME Written(p) PROVE PollerTypes' /\ Advances(p) /\ LostInv(p)'
  <2>1. pollers[p].at = "writing"
    BY <1>11 DEF Written
  <2>2. CASE CycleDone(p, 0)
    BY <1>1, <1>9, <2>1, <2>2
  <2>3. CASE Ends(p, pollers[p].got)
    BY <1>8, <2>1, <2>3
  <2> QED BY <1>11, <2>2, <2>3 DEF Written
<1>12. ASSUME LinkFails(p) PROVE PollerTypes' /\ Advances(p) /\ LostInv(p)'
  BY <1>8, <1>12 DEF LinkFails
<1> QED
  BY <1>4, <1>5, <1>6, <1>7, <1>10, <1>11, <1>12 DEF PollerStep

\* What a poller may become while nobody starts it: its session is its own for
\* good, and it is not alive again, nor unused, nor free to go on.
Steady(q) ==
  /\ Alive(q)' => Alive(q)
  /\ pollers'[q].session = pollers[q].session
  /\ pollers[q].at # "unused" => pollers'[q].at # "unused"
  /\ pollers[q].stop => pollers'[q].stop

AllSteady == PollerTypes' /\ \A q \in Pollers : Steady(q) /\ LostInv(q)'

\* A poller that nothing is done to.
LEMMA PollerKept ==
  ASSUME NEW q \in Pollers, pollers'[q] = pollers[q]
  PROVE  Steady(q) /\ (LostInv(q) => LostInv(q)')
  BY DEF Steady, Alive, LostInv

\* Nothing is done to any poller.
LEMMA AllKept ==
  ASSUME PollerTypes, \A q \in Pollers : LostInv(q), UNCHANGED pollers
  PROVE  AllSteady
<1>1. PollerTypes'
  BY DEF PollerTypes
<1> QED BY <1>1, PollerKept DEF AllSteady

\* A poller's thread takes a step.
LEMMA AllPolled ==
  ASSUME PollerTypes, \A q \in Pollers : LostInv(q), NEW p \in Pollers,
         \/ \E sessionOpen, expired : PollerStep(p, sessionOpen, expired)
         \/ \E audible : Answered(p, audible)
         \/ LinkFails(p)
  PROVE  AllSteady
<1>1. PollerTypes' /\ Advances(p) /\ LostInv(p)'
  BY PollerAdvances
<1>2. Steady(p)
  BY <1>1 DEF Advances, Steady
<1>3. ASSUME NEW q \in Pollers, q # p PROVE Steady(q) /\ LostInv(q)'
  BY <1>1, <1>3, PollerKept DEF Advances, Alone
<1> QED BY <1>1, <1>2, <1>3 DEF AllSteady

\* A poller is told to stop.
LEMMA StopRaised ==
  ASSUME PollerTypes, \A q \in Pollers : LostInv(q), NEW p \in Pollers,
         pollers[p].at # "unused", RaiseStop(p)
  PROVE  AllSteady /\ pollers'[p].stop
<1>1. PICK r : r = [pollers[p] EXCEPT !.stop = TRUE]
  OBVIOUS
<1>2. pollers[p] \in PollerRecords
  BY DEF PollerTypes
<1>3. r \in PollerRecords /\ r.stop = TRUE
  BY <1>1, <1>2 DEF PollerRecords
<1>4. /\ r.at = pollers[p].at /\ r.asked = pollers[p].asked /\ r.got = pollers[p].got
      /\ r.lost = pollers[p].lost /\ r.file = pollers[p].file /\ r.session = pollers[p].session
  BY <1>1, <1>2 DEF PollerRecords
<1>5. pollers' = [pollers EXCEPT ![p] = r]
  BY <1>1 DEF RaiseStop
<1>6. PollerTypes' /\ pollers'[p] = r /\ \A q \in Pollers \ {p} : pollers'[q] = pollers[q]
  BY <1>3, <1>5 DEF PollerTypes
<1>7. pollers'[p].stop = TRUE
  BY <1>3, <1>6
<1>8. Steady(p)
  BY <1>4, <1>6, <1>7 DEF Steady, Alive
<1>9. LostInv(p)'
  <2>1. LostInv(p)
    OBVIOUS
  <2> QED BY <1>4, <1>6, <1>7, <2>1 DEF LostInv, Alive
<1> QED BY <1>6, <1>7, <1>8, <1>9, PollerKept DEF AllSteady

\* A recording is closed whose poller was stopped, or ended by itself.
LEMMA FileClosed ==
  ASSUME PollerTypes, \A q \in Pollers : LostInv(q), NEW p \in Pollers,
         pollers[p].at # "unused", Alive(p) => pollers[p].stop, CloseFile(p)
  PROVE  AllSteady
<1>1. PICK r : r = [pollers[p] EXCEPT !.file = IF @ = "open" THEN "closed" ELSE @]
  OBVIOUS
<1>2. pollers[p] \in PollerRecords
  BY DEF PollerTypes
<1>3. r \in PollerRecords
  BY <1>1, <1>2 DEF PollerRecords
<1>4. /\ r.at = pollers[p].at /\ r.asked = pollers[p].asked /\ r.got = pollers[p].got
      /\ r.lost = pollers[p].lost /\ r.stop = pollers[p].stop /\ r.session = pollers[p].session
  BY <1>1, <1>2 DEF PollerRecords
<1>5. pollers' = [pollers EXCEPT ![p] = r]
  BY <1>1 DEF CloseFile
<1>6. PollerTypes' /\ pollers'[p] = r /\ \A q \in Pollers \ {p} : pollers'[q] = pollers[q]
  BY <1>3, <1>5 DEF PollerTypes
<1>7. Steady(p)
  BY <1>4, <1>6 DEF Steady, Alive
<1>8. LostInv(p)'
  <2>1. LostInv(p)
    OBVIOUS
  <2> QED BY <1>4, <1>6, <2>1 DEF LostInv, Alive
<1> QED BY <1>6, <1>7, <1>8, PollerKept DEF AllSteady

\* A poller is made and started.
LEMMA PollerStarts ==
  ASSUME PollerTypes, \A q \in Pollers : LostInv(q), NEW p \in Pollers,
         NEW s \in Sessions, NEW file \in {"none", "open"}, Start(p, s, file)
  PROVE  /\ PollerTypes' /\ \A q \in Pollers : LostInv(q)'
         /\ \A q \in Pollers \ {p} : Steady(q)
         /\ pollers[p].at = "unused" /\ pollers'[p].at = "check" /\ pollers'[p].session = s
<1>1. PICK r : r = [NewPoller(s, file) EXCEPT !.at = "check"]
  OBVIOUS
<1>2. r = [at |-> "check", session |-> s, stop |-> FALSE, asked |-> 0, got |-> 0,
           file |-> file, lost |-> 0]
  BY <1>1 DEF NewPoller
<1>3. r \in PollerRecords /\ r.at = "check" /\ r.session = s /\ r.stop = FALSE /\ r.asked = 0
      /\ r.got = 0 /\ r.file # "closed" /\ r.lost = 0
  BY <1>2 DEF PollerRecords, PollerPlaces
<1>4. pollers' = [pollers EXCEPT ![p] = r] /\ pollers[p].at = "unused"
  BY <1>1 DEF Start, Unused
<1>5. PollerTypes' /\ pollers'[p] = r /\ \A q \in Pollers \ {p} : pollers'[q] = pollers[q]
  BY <1>3, <1>4 DEF PollerTypes
<1>6. LostInv(p)'
  BY <1>3, <1>5, PidsAssumption DEF LostInv, Alive
<1> QED BY <1>3, <1>4, <1>5, <1>6, PollerKept
-----------------------------------------------------------------------------
(* The studio and its agents. *)
AgentPlaces == {"idle", "holding", "identifying", "leaving", "forgetting", "sampling"}
AgentRecords == [at : AgentPlaces, session : Sessions, poller : {0} \cup Pollers]
WorkRecords == [job : {"identify", "read"}, session : Sessions, at : {"asking", "done", "failed"}]

StudioTypes ==
  /\ PollerTypes
  /\ link \in Nat /\ connected \in Nat /\ made \in Nat
  /\ open \in SUBSET Sessions /\ session \in Sessions /\ work \in SUBSET WorkRecords
  /\ poller \in {0} \cup Pollers /\ joined \in {0} \cup Pollers /\ stopping \in SUBSET Pollers
  /\ agent \in [Agents -> AgentRecords]
  /\ tools \in Sessions /\ client \in Sessions
  /\ busy \in BOOLEAN /\ owned \in BOOLEAN /\ overlapped \in BOOLEAN

\* Whoever waits for a poller to end has told it to stop.
StopInv == /\ \A p \in stopping : pollers[p].stop
           /\ joined # 0 => pollers[joined].stop

\* The studio has one piece of work, one poller, or one poller it is about to
\* leave behind with the link; the first two keep it busy.
BusyInv ==
  /\ \A v, w \in work : v = w
  /\ work # {} => busy /\ poller = 0 /\ joined = 0
  /\ tk = "closing" => link # 0 /\ poller = 0
  /\ joined # 0 => tk = "closing" /\ pollers[joined].session = session
  /\ poller # 0 => busy /\ pollers[poller].session = session /\ pollers[poller].at # "unused"
  /\ poller # 0 \/ joined # 0 => session # NoSession

\* A session is of a link that was opened; an ELM327's does not outlive it.
Opened(s) == s.link \in 1..connected /\ s.n <= made
LinkInv ==
  /\ link \in {0, connected}
  /\ session # NoSession => Opened(session)
  /\ \A w \in work : Opened(w.session)
  /\ \A s \in open : Opened(s) /\ (s.n = 0 => s.link = link)

\* A poller that was left behind has a session that is closed for good.
Gone(s) == s \notin open /\ Opened(s) /\ (s.n = 0 => s.link # link)
Mine(p) == poller = p \/ joined = p
Left(p) == Alive(p) /\ ~ Sampled(p) /\ ~ Mine(p)
LeftInv == \A p \in Pollers : Left(p) => Gone(pollers[p].session)

\* An agent stays with its poller until it has ended.
SampleInv == \A a \in Agents : agent[a].poller # 0 =>
  /\ agent[a].at # "sampling" => ~ Alive(agent[a].poller)
  /\ pollers[agent[a].poller].at # "unused"

\* The capture loop feeds the session the studio has, or is about to have.
FedInv ==
  /\ \A w \in work : w.job = "identify" => session = NoSession
  /\ \A w \in work : Reaches(w.session) /\ IsNative(w.session) => source = w.session
  /\ Reaches(session) /\ IsNative(session) => source = session

\* Agents that do not overlap keep the globals of mcp_tools in step: between two
\* calls the session they share is registered if it is native, and theirs to close.
AtWork(a) == agent[a].at \notin {"idle", "sampling"}
Held(s) == IsNative(s) => registered = s /\ s \in extra
ToolInv == ~ overlapped =>
  /\ \A a, b \in Agents : AtWork(a) /\ AtWork(b) => a = b
  /\ client # NoSession =>
       client = tools \/ \E a \in Agents : agent[a].at \in {"leaving", "forgetting"}
  /\ (\A a \in Agents : ~ AtWork(a)) /\ tools # NoSession =>
       Held(tools) /\ (owned <=> IsNative(tools))
  /\ \A a \in Agents : agent[a].at = "holding" =>
       tools = NoSession /\ client = NoSession /\ Held(agent[a].session)
  /\ \A a \in Agents : agent[a].at = "identifying" =>
       /\ tools = agent[a].session /\ client = NoSession /\ Held(tools)
       /\ owned <=> IsNative(tools)

StudioInv ==
  /\ StudioTypes /\ \A p \in Pollers : LostInv(p)
  /\ StopInv /\ BusyInv /\ LinkInv /\ LeftInv /\ SampleInv /\ FedInv /\ ToolInv
  /\ LinkKeepsItsSession
-----------------------------------------------------------------------------
\* Where an agent's call takes it; the other agents stay where they are.
AgentGoes(a, at, s, p) ==
  /\ agent' \in [Agents -> AgentRecords]
  /\ agent'[a].at = at /\ agent'[a].session = s /\ agent'[a].poller = p
  /\ \A b \in Agents \ {a} : agent'[b] = agent[b]

\* No session, and the record of an agent that does nothing.
LEMMA Nobody == NoSession \in Sessions /\ ~ IsNative(NoSession) /\ Idle \in AgentRecords
                /\ Idle.at = "idle" /\ Idle.session = NoSession /\ Idle.poller = 0
<1>1. NoSession \in Sessions /\ ~ IsNative(NoSession)
  BY DEF NoSession, Sessions, IsNative
<1>2. Idle \in AgentRecords /\ Idle.at = "idle" /\ Idle.session = NoSession /\ Idle.poller = 0
  BY <1>1 DEF Idle, AgentRecords, AgentPlaces
<1> QED BY <1>1, <1>2

\* A link's session is the link's own, or a new one of the caller's.
LEMMA SessionMade ==
  ASSUME StudioTypes, NEW s, s = SessionOf(link), Makes(s)
  PROVE  /\ s \in Sessions /\ s.link = link /\ made' \in Nat /\ made <= made' /\ s.n <= made'
         /\ s.n = 0 \/ s.n > made
         /\ kind[link] = "elm" => s.n = 0
<1>1. s = [link |-> link, n |-> IF kind[link] = "can" THEN made + 1 ELSE 0]
  BY DEF SessionOf
<1>2. s.link = link /\ s.n = (IF kind[link] = "can" THEN made + 1 ELSE 0)
  BY <1>1
<1>3. link \in Nat /\ made \in Nat
  BY DEF StudioTypes
<1>4. s \in Sessions
  BY <1>1, <1>3 DEF Sessions
<1>5. made' = IF IsNative(s) THEN s.n ELSE made
  BY DEF Makes
<1>6. IsNative(s) <=> s.n # 0
  BY DEF IsNative
<1> QED BY <1>2, <1>3, <1>4, <1>5, <1>6

\* An agent moves on, with the session and the poller it had.
LEMMA AgentMoves ==
  ASSUME StudioTypes, NEW a \in Agents, NEW at \in AgentPlaces, Moves(a, at)
  PROVE  AgentGoes(a, at, agent[a].session, agent[a].poller)
<1>1. PICK r : r = [agent[a] EXCEPT !.at = at]
  OBVIOUS
<1>2. agent[a] \in AgentRecords
  BY DEF StudioTypes
<1>3. r \in AgentRecords /\ r.at = at
  BY <1>1, <1>2 DEF AgentRecords
<1>4. r.session = agent[a].session /\ r.poller = agent[a].poller
  BY <1>1, <1>2 DEF AgentRecords
<1>5. agent' = [agent EXCEPT ![a] = r]
  BY <1>1 DEF Moves
<1> QED BY <1>3, <1>4, <1>5 DEF StudioTypes, AgentGoes

\* Where each call takes an agent.
LEMMA AgentEffects ==
  ASSUME StudioTypes, NEW a \in Agents
  PROVE  /\ ToolConnects(a) =>
              AgentGoes(a, "holding", SessionOf(link), agent[a].poller)
         /\ ToolHolds(a) => AgentGoes(a, "identifying", agent[a].session, agent[a].poller)
         /\ ToolIdentifies(a) => \/ AgentGoes(a, "idle", NoSession, 0)
                                 \/ AgentGoes(a, "leaving", agent[a].session, agent[a].poller)
         /\ ToolDisconnects(a) => AgentGoes(a, "leaving", agent[a].session, agent[a].poller)
         /\ ToolWithdraws(a) => AgentGoes(a, "forgetting", agent[a].session, agent[a].poller)
         /\ ToolForgets(a) => AgentGoes(a, "idle", NoSession, 0)
         /\ ToolSamples(a) => \E p \in Pollers :
              /\ AgentGoes(a, "sampling", client, p)
              /\ \E file \in {"none", "open"} : Start(p, client, file)
         /\ ToolSampled(a) => AgentGoes(a, "idle", agent[a].session, agent[a].poller)
<1>1. {"idle", "identifying", "leaving", "forgetting"} \subseteq AgentPlaces
  BY DEF AgentPlaces
<1>2. ASSUME NEW r \in AgentRecords, agent' = [agent EXCEPT ![a] = r]
      PROVE  AgentGoes(a, r.at, r.session, r.poller)
  BY <1>2 DEF StudioTypes, AgentGoes
<1>3. ASSUME ToolConnects(a) PROVE AgentGoes(a, "holding", SessionOf(link), agent[a].poller)
  <2>1. PICK s : s = SessionOf(link)
    OBVIOUS
  <2>2. s \in Sessions
    BY <1>3, <2>1, SessionMade DEF ToolConnects
  <2>3. PICK r : r = [agent[a] EXCEPT !.at = "holding", !.session = s]
    OBVIOUS
  <2>4. agent[a] \in AgentRecords
    BY DEF StudioTypes
  <2>5. r \in AgentRecords /\ r.at = "holding" /\ r.session = s
    BY <2>2, <2>3, <2>4 DEF AgentRecords, AgentPlaces
  <2>6. r.poller = agent[a].poller
    BY <2>3, <2>4 DEF AgentRecords
  <2>7. agent' = [agent EXCEPT ![a] = r]
    BY <1>3, <2>1, <2>3 DEF ToolConnects
  <2> QED BY <1>2, <2>1, <2>5, <2>6, <2>7
<1>4. ASSUME agent' = [agent EXCEPT ![a] = Idle] PROVE AgentGoes(a, "idle", NoSession, 0)
  BY <1>2, <1>4, Nobody
<1>5. ASSUME ToolSamples(a)
      PROVE  \E p \in Pollers :
               /\ AgentGoes(a, "sampling", client, p)
               /\ \E file \in {"none", "open"} : Start(p, client, file)
  <2>1. PICK p \in Pollers :
          /\ Start(p, client, "none")
          /\ agent' = [agent EXCEPT ![a] = [at |-> "sampling", session |-> client, poller |-> p]]
    BY <1>5 DEF ToolSamples
  <2>2. PICK r : r = [at |-> "sampling", session |-> client, poller |-> p]
    OBVIOUS
  <2>3. r \in AgentRecords /\ r.at = "sampling" /\ r.session = client /\ r.poller = p
    BY <2>2 DEF AgentRecords, AgentPlaces, StudioTypes
  <2> QED BY <1>2, <2>1, <2>2, <2>3
<1>6. ASSUME ToolSampled(a) PROVE AgentGoes(a, "idle", agent[a].session, agent[a].poller)
  BY <1>1, <1>6, AgentMoves DEF ToolSampled, Moves
<1>7. ToolHolds(a) => AgentGoes(a, "identifying", agent[a].session, agent[a].poller)
  BY <1>1, AgentMoves DEF ToolHolds
<1>8. ToolIdentifies(a) => \/ AgentGoes(a, "idle", NoSession, 0)
                           \/ AgentGoes(a, "leaving", agent[a].session, agent[a].poller)
  BY <1>1, <1>4, AgentMoves DEF ToolIdentifies
<1>9. ToolDisconnects(a) => AgentGoes(a, "leaving", agent[a].session, agent[a].poller)
  BY <1>1, AgentMoves DEF ToolDisconnects
<1>10. ToolWithdraws(a) => AgentGoes(a, "forgetting", agent[a].session, agent[a].poller)
  BY <1>1, AgentMoves DEF ToolWithdraws
<1>11. ToolForgets(a) => AgentGoes(a, "idle", NoSession, 0)
  BY <1>4 DEF ToolForgets
<1> QED BY <1>3, <1>5, <1>6, <1>7, <1>8, <1>9, <1>10, <1>11
-----------------------------------------------------------------------------
(* One step of the studio, an agent or a poller: what it does to each part of *)
(* the invariant. *)

\* No step but the two that start a poller brings one to life.
LEMMA PollersStep ==
  ASSUME StudioInv, Next, ~ StartPolling, \A a \in Agents : ~ ToolSamples(a)
  PROVE  AllSteady
<1>1. PollerTypes /\ \A q \in Pollers : LostInv(q)
  BY DEF StudioInv, StudioTypes
<1>2. ASSUME UNCHANGED pollers PROVE AllSteady
  BY <1>1, <1>2, AllKept
<1>3. poller \in {0} \cup Pollers /\ joined \in {0} \cup Pollers /\ stopping \in SUBSET Pollers
  BY DEF StudioInv, StudioTypes
<1>4. poller # 0 => pollers[poller].at # "unused"
  BY DEF StudioInv, BusyInv
<1>5. ASSUME NEW p \in Pollers, pollers[p].stop, CloseFile(p) PROVE AllSteady
  BY <1>1, <1>5, FileClosed DEF LostInv
<1>6. CASE StopPolling
  BY <1>1, <1>3, <1>4, <1>6, StopRaised DEF StopPolling
<1>7. CASE Watch
  BY <1>1, <1>2, <1>3, <1>4, <1>7, FileClosed DEF Watch
<1>8. CASE Disconnect
  BY <1>1, <1>2, <1>3, <1>4, <1>8, StopRaised DEF Disconnect
<1>9. CASE Disconnected
  BY <1>2, <1>3, <1>5, <1>9 DEF Disconnected, StudioInv, StopInv
<1>10. ASSUME NEW p \in Pollers, StopReturns(p) PROVE AllSteady
  BY <1>5, <1>10 DEF StopReturns, StudioInv, StopInv
<1>11. ASSUME NEW p \in Pollers, Polls(p) PROVE AllSteady
  BY <1>1, <1>11, AllPolled DEF Polls, Reply
<1>12. CASE Connect \/ Identify \/ Read \/ \E w \in work : Finish(w) \/ WorkEnds(w)
  BY <1>2, <1>12 DEF Connect, Identify, Read, Finish, WorkEnds
<1>13. CASE \E a \in Agents : ToolConnects(a) \/ ToolDisconnects(a) \/ ToolStep(a)
  BY <1>2, <1>13 DEF ToolConnects, ToolDisconnects, ToolStep, ToolHolds, ToolIdentifies,
    ToolWithdraws, ToolForgets, ToolSampled
<1> QED BY <1>6, <1>7, <1>8, <1>9, <1>10, <1>11, <1>12, <1>13 DEF Next

\* A poller that the studio or an agent starts was not in use.
LEMMA StartStep ==
  ASSUME StudioInv, NEW p \in Pollers, NEW s \in Sessions, NEW file \in {"none", "open"},
         Start(p, s, file)
  PROVE  /\ PollerTypes' /\ \A q \in Pollers : LostInv(q)'
         /\ \A q \in Pollers \ {p} : Steady(q)
         /\ pollers[p].at = "unused" /\ pollers'[p].at = "check" /\ pollers'[p].session = s
         /\ p # poller /\ p # joined /\ p \notin stopping
         /\ \A a \in Agents : agent[a].poller # p
<1>1. PollerTypes /\ \A q \in Pollers : LostInv(q)
  BY DEF StudioInv, StudioTypes
<1>2. /\ PollerTypes' /\ \A q \in Pollers : LostInv(q)'
      /\ \A q \in Pollers \ {p} : Steady(q)
      /\ pollers[p].at = "unused" /\ pollers'[p].at = "check" /\ pollers'[p].session = s
  BY <1>1, PollerStarts
<1>3. ~ pollers[p].stop
  BY <1>1, <1>2 DEF LostInv
<1>4. p # 0
  BY DEF Pollers
<1>5. p # poller
  BY <1>2, <1>4 DEF StudioInv, BusyInv
<1>6. p # joined /\ p \notin stopping
  BY <1>3, <1>4 DEF StudioInv, StopInv
<1>7. \A a \in Agents : agent[a].poller # p
  BY <1>2, <1>4 DEF StudioInv, SampleInv
<1> QED BY <1>2, <1>5, <1>6, <1>7

\* Whatever a step does, the pollers keep their samples and their types.
LEMMA PollersKeep ==
  ASSUME StudioInv, Next
  PROVE  PollerTypes' /\ \A q \in Pollers : LostInv(q)'
<1>1. CASE StartPolling
  <2>1. PICK p \in Pollers, file \in {"none", "open"} : Start(p, session, file)
    BY <1>1 DEF StartPolling
  <2>2. session \in Sessions
    BY DEF StudioInv, StudioTypes
  <2> QED BY <2>1, <2>2, StartStep
<1>2. ASSUME NEW a \in Agents, ToolSamples(a) PROVE PollerTypes' /\ \A q \in Pollers : LostInv(q)'
  <2>1. PICK p \in Pollers : Start(p, client, "none")
    BY <1>2 DEF ToolSamples
  <2>2. client \in Sessions
    BY DEF StudioInv, StudioTypes
  <2> QED BY <2>1, <2>2, StartStep
<1> QED BY <1>1, <1>2, PollersStep DEF AllSteady

\* The types of the rest.
LEMMA TypesStep ==
  ASSUME StudioInv, Next
  PROVE  StudioTypes'
<1>1. PollerTypes'
  BY PollersKeep
<1>2. StudioTypes
  BY DEF StudioInv
<1>3. \A l \in Nat : [link |-> l, n |-> 0] \in Sessions
  BY DEF Sessions
<1>4. NoSession \in Sessions
  BY Nobody
<1>5. \A job \in {"identify", "read"}, s \in Sessions :
        [job |-> job, session |-> s, at |-> "asking"] \in WorkRecords
  BY DEF WorkRecords
<1>6. CASE Connect
  <2>1. connected + 1 \in Nat
    BY <1>2 DEF StudioTypes
  <2>2. link' = connected + 1 /\ connected' = connected + 1 /\ open' \in SUBSET Sessions
    BY <1>2, <1>3, <1>6, <2>1 DEF Connect, StudioTypes
  <2> QED BY <1>1, <1>2, <1>6, <2>1, <2>2 DEF Connect, StudioTypes, guiVars, sessionVars,
            pollerVars, tkVars, toolVars
<1>7. CASE Identify
  <2>1. PICK s : /\ s = SessionOf(link) /\ Makes(s) /\ open' = (open \ Owned(session)) \cup {s}
                 /\ Runs("identify", s)
    BY <1>7 DEF Identify
  <2>2. s \in Sessions /\ made' \in Nat
    BY <1>2, <2>1, SessionMade
  <2>3. work' \in SUBSET WorkRecords
    BY <1>2, <1>5, <2>1, <2>2 DEF Runs, StudioTypes
  <2>4. open' \in SUBSET Sessions
    BY <1>2, <2>1, <2>2 DEF StudioTypes
  <2> QED BY <1>1, <1>2, <1>4, <1>7, <2>2, <2>3, <2>4 DEF Identify, StudioTypes,
            pollerVars, tkVars, toolVars
<1>8. CASE Read
  <2>1. work' \in SUBSET WorkRecords
    BY <1>2, <1>5, <1>8 DEF Read, Runs, StudioTypes
  <2> QED BY <1>1, <1>2, <1>8, <2>1 DEF Read, StudioTypes, linkVars, pollerVars, tkVars, toolVars
<1>9. ASSUME NEW w \in work, Finish(w) PROVE StudioTypes'
  <2>1. w.session \in Sessions
    BY <1>2 DEF StudioTypes, WorkRecords
  <2>2. session' \in Sessions
    BY <1>2, <1>9, <2>1 DEF Finish, StudioTypes
  <2>3. open' \in SUBSET Sessions
    BY <1>2, <1>9 DEF Finish, StudioTypes
  <2>4. work' \in SUBSET WorkRecords /\ busy' \in BOOLEAN
    BY <1>2, <1>9 DEF Finish, StudioTypes
  <2> QED BY <1>1, <1>2, <1>9, <2>2, <2>3, <2>4 DEF Finish, StudioTypes, pollerVars, tkVars,
            toolVars
<1>10. ASSUME NEW w \in work, WorkEnds(w) PROVE StudioTypes'
  <2>1. PICK at \in {"failed", "done"} : work' = (work \ {w}) \cup {[w EXCEPT !.at = at]}
    BY <1>10 DEF WorkEnds
  <2>2. [w EXCEPT !.at = at] \in WorkRecords
    BY <1>2 DEF StudioTypes, WorkRecords
  <2>3. work' \in SUBSET WorkRecords
    BY <1>2, <2>1, <2>2 DEF StudioTypes
  <2> QED BY <1>1, <1>2, <1>10, <2>3 DEF WorkEnds, StudioTypes, linkVars, pollerVars, tkVars,
            toolVars
<1>11. CASE StartPolling
  BY <1>1, <1>2, <1>11 DEF StartPolling, StudioTypes, linkVars, tkVars, toolVars
<1>12. CASE StopPolling
  BY <1>1, <1>2, <1>12 DEF StopPolling, StudioTypes, linkVars, sessionVars, tkVars, toolVars
<1>13. CASE Watch
  BY <1>1, <1>2, <1>13 DEF Watch, StudioTypes, linkVars, tkVars, toolVars
<1>14. CASE Disconnect
  BY <1>1, <1>2, <1>14 DEF Disconnect, StudioTypes, linkVars, sessionVars, toolVars
<1>15. CASE Disconnected
  <2>1. open' \in SUBSET Sessions /\ busy' \in BOOLEAN /\ link' \in Nat
    BY <1>2, <1>15 DEF Disconnected, StudioTypes, BusyStill
  <2> QED BY <1>1, <1>2, <1>4, <1>15, <2>1 DEF Disconnected, StudioTypes, pollerVars, toolVars
<1>16. ASSUME NEW p \in Pollers, Polls(p) PROVE StudioTypes'
  BY <1>1, <1>2, <1>16 DEF Polls, StudioTypes, linkVars, guiVars, sessionVars, pollerVars,
    tkVars, toolVars
<1>17. ASSUME NEW p \in Pollers, StopReturns(p) PROVE StudioTypes'
  BY <1>1, <1>2, <1>17 DEF StopReturns, StudioTypes, linkVars, sessionVars, tkVars, toolVars
<1>18. ASSUME NEW a \in Agents, NEW at, NEW s, NEW p, AgentGoes(a, at, s, p)
       PROVE  agent' \in [Agents -> AgentRecords]
  BY <1>18 DEF AgentGoes
<1>19. ASSUME NEW a \in Agents, ToolConnects(a) PROVE StudioTypes'
  <2>1. PICK s : s = SessionOf(link) /\ Makes(s) /\ open' = open \cup {s}
    BY <1>19 DEF ToolConnects
  <2>2. s \in Sessions /\ made' \in Nat
    BY <1>2, <2>1, SessionMade
  <2>3. open' \in SUBSET Sessions
    BY <1>2, <2>1, <2>2 DEF StudioTypes
  <2>4. overlapped' \in BOOLEAN
    BY <1>2, <1>19 DEF ToolConnects, Begins, StudioTypes
  <2>5. agent' \in [Agents -> AgentRecords]
    BY <1>2, <1>18, <1>19, AgentEffects
  <2> QED BY <1>1, <1>2, <1>19, <2>2, <2>3, <2>4, <2>5 DEF ToolConnects, StudioTypes, guiVars,
            sessionVars, pollerVars, tkVars
<1>20. ASSUME NEW a \in Agents, ToolDisconnects(a) PROVE StudioTypes'
  <2>1. open' \in SUBSET Sessions
    BY <1>2, <1>20 DEF ToolDisconnects, StudioTypes
  <2>2. overlapped' \in BOOLEAN
    BY <1>2, <1>20 DEF ToolDisconnects, Begins, StudioTypes
  <2>3. agent' \in [Agents -> AgentRecords]
    BY <1>2, <1>18, <1>20, AgentEffects
  <2> QED BY <1>1, <1>2, <1>20, <2>1, <2>2, <2>3 DEF ToolDisconnects, StudioTypes, guiVars,
            sessionVars, pollerVars, tkVars
<1>21. ASSUME NEW a \in Agents, ToolSamples(a) PROVE StudioTypes'
  <2>1. agent' \in [Agents -> AgentRecords]
    BY <1>2, <1>18, <1>21, AgentEffects
  <2> QED BY <1>1, <1>2, <1>21, <2>1 DEF ToolSamples, StudioTypes, linkVars, guiVars, sessionVars,
            pollerVars, tkVars
<1>22. ASSUME NEW a \in Agents, ToolHolds(a) PROVE StudioTypes'
  <2>1. agent' \in [Agents -> AgentRecords]
    BY <1>2, <1>18, <1>22, AgentEffects
  <2>2. agent[a].session \in Sessions
    BY <1>2 DEF StudioTypes, AgentRecords
  <2>3. tools' \in Sessions /\ owned' \in BOOLEAN
    BY <1>22, <2>2 DEF ToolHolds, Owns, IsNative
  <2> QED BY <1>1, <1>2, <1>22, <2>1, <2>3 DEF ToolHolds, StudioTypes, linkVars, guiVars,
            sessionVars, pollerVars, tkVars
<1>23. ASSUME NEW a \in Agents, ToolIdentifies(a) PROVE StudioTypes'
  <2>1. agent' \in [Agents -> AgentRecords]
    BY <1>2, <1>18, <1>23, AgentEffects
  <2>2. agent[a].session \in Sessions
    BY <1>2 DEF StudioTypes, AgentRecords
  <2>3. client' \in Sessions /\ open' \in SUBSET Sessions
    BY <1>2, <1>23, <2>2 DEF ToolIdentifies, StudioTypes
  <2> QED BY <1>1, <1>2, <1>23, <2>1, <2>3 DEF ToolIdentifies, StudioTypes, guiVars,
            sessionVars, pollerVars, tkVars
<1>24. ASSUME NEW a \in Agents, ToolWithdraws(a) \/ ToolForgets(a) \/ ToolSampled(a)
       PROVE  StudioTypes'
  <2>1. agent' \in [Agents -> AgentRecords]
    BY <1>2, <1>18, <1>24, AgentEffects
  <2>2. /\ tools' \in Sessions /\ client' \in Sessions
        /\ owned' \in BOOLEAN /\ overlapped' \in BOOLEAN
    BY <1>2, <1>4, <1>24 DEF ToolWithdraws, ToolForgets, ToolSampled, StudioTypes
  <2> QED BY <1>1, <1>2, <1>24, <2>1, <2>2 DEF ToolWithdraws, ToolForgets, ToolSampled, StudioTypes,
            linkVars, guiVars, sessionVars, pollerVars, tkVars
<1> QED BY <1>6, <1>7, <1>8, <1>9, <1>10, <1>11, <1>12, <1>13, <1>14, <1>15, <1>16, <1>17,
          <1>19, <1>20, <1>21, <1>22, <1>23, <1>24 DEF Next, ToolStep

\* A poller that was started once is steady from then on, and one told to stop stays so.
LEMMA PollersGo ==
  ASSUME StudioInv, Next
  PROVE  /\ \A q \in Pollers : pollers[q].at # "unused" => Steady(q)
         /\ \A q \in Pollers : pollers[q].stop => pollers[q].at # "unused" /\ pollers'[q].stop
<1>1. \A q \in Pollers : pollers[q].stop => pollers[q].at # "unused"
  BY DEF StudioInv, LostInv
<1>2. \A q \in Pollers : pollers[q].at # "unused" => Steady(q)
  <2>1. CASE StartPolling
    <3>1. PICK p \in Pollers, file \in {"none", "open"} : Start(p, session, file)
      BY <2>1 DEF StartPolling
    <3>2. session \in Sessions
      BY DEF StudioInv, StudioTypes
    <3> QED BY <3>1, <3>2, StartStep
  <2>2. ASSUME NEW a \in Agents, ToolSamples(a)
        PROVE  \A q \in Pollers : pollers[q].at # "unused" => Steady(q)
    <3>1. PICK p \in Pollers : Start(p, client, "none")
      BY <2>2 DEF ToolSamples
    <3>2. client \in Sessions
      BY DEF StudioInv, StudioTypes
    <3> QED BY <3>1, <3>2, StartStep
  <2> QED BY <2>1, <2>2, PollersStep DEF AllSteady
<1> QED BY <1>1, <1>2 DEF Steady

\* Whoever begins to wait for a poller tells it to stop first.
LEMMA StopStep ==
  ASSUME StudioInv, Next
  PROVE  StopInv'
<1>1. /\ \A q \in Pollers : pollers[q].stop => pollers'[q].stop
      /\ stopping \in SUBSET Pollers /\ joined \in {0} \cup Pollers /\ poller \in {0} \cup Pollers
  BY PollersGo DEF StudioInv, StudioTypes
<1>2. StopInv
  BY DEF StudioInv
<1>3. ASSUME stopping' \subseteq stopping, joined' \in {joined, 0} PROVE StopInv'
  BY <1>1, <1>2, <1>3 DEF StopInv
<1>4. ASSUME poller # 0, RaiseStop(poller) PROVE pollers'[poller].stop
  <2>1. PollerTypes /\ (\A q \in Pollers : LostInv(q)) /\ pollers[poller].at # "unused"
    BY <1>4 DEF StudioInv, StudioTypes, BusyInv
  <2> QED BY <1>1, <1>4, <2>1, StopRaised
<1>5. CASE StopPolling
  <2>1. stopping' = stopping \cup {poller} /\ pollers'[poller].stop /\ joined' = joined
    BY <1>4, <1>5 DEF StopPolling, tkVars
  <2> QED BY <1>1, <1>2, <2>1 DEF StopInv
<1>6. CASE Disconnect
  <2>1. stopping' = stopping /\ joined' = poller
    BY <1>6 DEF Disconnect
  <2>2. poller # 0 => pollers'[poller].stop
    BY <1>4, <1>6 DEF Disconnect
  <2> QED BY <1>1, <1>2, <2>1, <2>2 DEF StopInv
<1>7. CASE Connect \/ Identify \/ Read \/ StartPolling \/ Watch \/ Disconnected
  BY <1>3, <1>7 DEF Connect, Identify, Read, StartPolling, Watch, Disconnected, guiVars,
    pollerVars, tkVars
<1>8. CASE \E w \in work : Finish(w) \/ WorkEnds(w)
  BY <1>3, <1>8 DEF Finish, WorkEnds, pollerVars, tkVars
<1>9. CASE \E p \in Pollers : Polls(p) \/ StopReturns(p)
  BY <1>3, <1>9 DEF Polls, StopReturns, guiVars, pollerVars, tkVars
<1>10. CASE \E a \in Agents : \/ ToolConnects(a) \/ ToolDisconnects(a) \/ ToolSamples(a)
                              \/ ToolStep(a)
  BY <1>3, <1>10 DEF ToolConnects, ToolDisconnects, ToolSamples, ToolStep, ToolHolds,
    ToolIdentifies, ToolWithdraws, ToolForgets, ToolSampled, guiVars, pollerVars, tkVars
<1> QED BY <1>5, <1>6, <1>7, <1>8, <1>9, <1>10 DEF Next

\* The agents and the pollers leave the studio's part alone.
LEMMA NotTheStudio ==
  ASSUME \/ \E p \in Pollers : Polls(p)
         \/ \E a \in Agents : \/ ToolConnects(a) \/ ToolDisconnects(a) \/ ToolSamples(a)
                              \/ ToolStep(a)
  PROVE  UNCHANGED <<link, kind, connected, guiVars>>
  BY DEF Polls, ToolConnects, ToolDisconnects, ToolSamples, ToolStep, ToolHolds,
    ToolIdentifies, ToolWithdraws, ToolForgets, ToolSampled, linkVars

\* The studio takes up one thing at a time.
LEMMA BusyStep ==
  ASSUME StudioInv, Next
  PROVE  BusyInv'
<1>1. BusyInv /\ poller \in {0} \cup Pollers /\ joined \in {0} \cup Pollers
  BY DEF StudioInv, StudioTypes
<1>2. /\ joined # 0 => pollers'[joined].session = pollers[joined].session
      /\ poller # 0 => /\ pollers'[poller].session = pollers[poller].session
                       /\ pollers'[poller].at # "unused"
  <2>1. joined # 0 => pollers[joined].stop
    BY DEF StudioInv, StopInv
  <2> QED BY <1>1, <2>1, PollersGo DEF BusyInv, Steady
<1>3. ASSUME UNCHANGED <<work, busy, poller, joined, tk, session>>, link # 0 => link' # 0
      PROVE  BusyInv'
  BY <1>1, <1>2, <1>3 DEF BusyInv
<1>4. CASE Connect
  <2>1. link = 0 /\ UNCHANGED <<work, busy, poller, joined, tk, session>>
    BY <1>4 DEF Connect, guiVars, sessionVars, pollerVars, tkVars
  <2> QED BY <1>3, <2>1
<1>5. CASE Identify
  <2>1. work = {} /\ poller = 0 /\ joined = 0
    BY <1>1, <1>5 DEF Identify, BusyInv
  <2>2. PICK v : work' = {v}
    BY <1>5, <2>1 DEF Identify, Runs
  <2>3. busy' /\ poller' = 0 /\ joined' = 0 /\ tk' = "free"
    BY <1>5, <2>1 DEF Identify, pollerVars, tkVars
  <2> QED BY <2>2, <2>3 DEF BusyInv
<1>6. CASE Read
  <2>1. work = {} /\ poller = 0 /\ joined = 0
    BY <1>1, <1>6 DEF Read, BusyInv
  <2>2. PICK v : work' = {v}
    BY <1>6, <2>1 DEF Read, Runs
  <2>3. busy' /\ poller' = 0 /\ joined' = 0 /\ tk' = "free"
    BY <1>6, <2>1 DEF Read, pollerVars, tkVars
  <2> QED BY <2>2, <2>3 DEF BusyInv
<1>7. ASSUME NEW w \in work, Finish(w) PROVE BusyInv'
  <2>1. work' = {} /\ poller' = 0 /\ joined' = 0 /\ tk' = "free"
    BY <1>1, <1>7 DEF Finish, BusyInv, pollerVars, tkVars
  <2> QED BY <2>1 DEF BusyInv
<1>8. ASSUME NEW w \in work, WorkEnds(w) PROVE BusyInv'
  <2>1. work = {w}
    BY <1>1 DEF BusyInv
  <2>2. PICK v : work' = {v}
    BY <1>8, <2>1 DEF WorkEnds
  <2>3. UNCHANGED <<busy, poller, joined, tk, session, link>>
    BY <1>8 DEF WorkEnds, linkVars, pollerVars, tkVars
  <2> QED BY <1>1, <1>2, <2>1, <2>2, <2>3 DEF BusyInv
<1>9. CASE StartPolling
  <2>1. PICK p \in Pollers, file \in {"none", "open"} : Start(p, session, file) /\ poller' = p
    BY <1>9 DEF StartPolling
  <2>2. session \in Sessions
    BY DEF StudioInv, StudioTypes
  <2>3. pollers'[p].session = session /\ pollers'[p].at = "check"
    BY <2>1, <2>2, StartStep
  <2>4. /\ work' = {} /\ joined' = 0 /\ tk' = "free" /\ busy'
        /\ session' = session /\ session # NoSession
    BY <1>1, <1>9 DEF StartPolling, BusyInv, tkVars
  <2> QED BY <2>1, <2>3, <2>4 DEF BusyInv
<1>10. CASE StopPolling \/ \E p \in Pollers : StopReturns(p)
  BY <1>3, <1>10 DEF StopPolling, StopReturns, linkVars, sessionVars, tkVars
<1>11. CASE Watch
  <2>1. UNCHANGED <<work, joined, tk, session, link>>
    BY <1>11 DEF Watch, linkVars, tkVars
  <2>2. CASE UNCHANGED <<poller, busy>>
    BY <1>3, <2>1, <2>2
  <2>3. CASE poller # 0 /\ poller' = 0
    <3>1. work' = {} /\ joined' = 0 /\ poller' = 0 /\ tk' = "free"
      BY <1>1, <1>11, <2>1, <2>3 DEF Watch, BusyInv
    <3> QED BY <3>1 DEF BusyInv
  <2> QED BY <1>11, <2>2, <2>3 DEF Watch
<1>12. CASE Disconnect
  <2>1. UNCHANGED <<work, busy, session, link>> /\ link # 0
    BY <1>12 DEF Disconnect, linkVars, sessionVars
  <2>2. tk' = "closing" /\ joined' = poller /\ poller' = 0
    BY <1>12 DEF Disconnect
  <2> QED BY <1>1, <1>2, <2>1, <2>2 DEF BusyInv
<1>13. CASE Disconnected
  <2>1. work' = work /\ tk' = "free" /\ joined' = 0 /\ poller' = 0 /\ (busy' <=> busy /\ joined = 0)
    BY <1>1, <1>13 DEF Disconnected, BusyInv, BusyStill, pollerVars
  <2> QED BY <1>1, <2>1 DEF BusyInv
<1>14. CASE \/ \E p \in Pollers : Polls(p)
            \/ \E a \in Agents : \/ ToolConnects(a) \/ ToolDisconnects(a) \/ ToolSamples(a)
                                 \/ ToolStep(a)
  BY <1>3, <1>14, NotTheStudio DEF guiVars, sessionVars, pollerVars, tkVars
<1> QED BY <1>4, <1>5, <1>6, <1>7, <1>8, <1>9, <1>10, <1>11, <1>12, <1>13, <1>14 DEF Next

\* Sessions are opened on the current link only, and native ones are new.
Spreads ==
  /\ made \in Nat /\ made' \in Nat /\ made <= made' /\ connected \in Nat
  /\ \/ connected' = connected /\ link' \in {0, link}
     \/ link = 0 /\ connected' = connected + 1 /\ link' = connected'
  /\ \A s \in open' \ open : /\ s.link = link' /\ link' # 0 /\ s.n <= made'
                             /\ s.n = 0 \/ s.n > made

\* Whatever a step does, sessions spread like that.
LEMMA SpreadsStep ==
  ASSUME StudioInv, Next
  PROVE  Spreads
<1>1. StudioTypes /\ made \in Nat /\ connected \in Nat
  BY DEF StudioInv, StudioTypes
<1>2. ASSUME UNCHANGED <<link, connected, made>>, open' \subseteq open PROVE Spreads
  BY <1>1, <1>2 DEF Spreads
<1>3. ASSUME NEW s, s = SessionOf(link), Makes(s), link # 0, UNCHANGED <<link, connected>>,
             open' \subseteq open \cup {s}
      PROVE  Spreads
  <2>1. s.link = link /\ made' \in Nat /\ made <= made' /\ s.n <= made' /\ (s.n = 0 \/ s.n > made)
    BY <1>1, <1>3, SessionMade
  <2> QED BY <1>1, <1>3, <2>1 DEF Spreads
<1>4. CASE Connect
  <2>1. /\ link = 0 /\ link' = connected + 1 /\ connected' = connected + 1 /\ made' = made
        /\ open' \subseteq open \cup {[link |-> link', n |-> 0]}
    BY <1>4 DEF Connect
  <2>2. [link |-> link', n |-> 0].n = 0 /\ [link |-> link', n |-> 0].link = link'
    OBVIOUS
  <2> QED BY <1>1, <2>1, <2>2 DEF Spreads
<1>5. CASE Identify
  <2>1. PICK s : s = SessionOf(link) /\ Makes(s) /\ open' = (open \ Owned(session)) \cup {s}
    BY <1>5 DEF Identify
  <2>2. link # 0 /\ UNCHANGED <<link, connected>> /\ open' \subseteq open \cup {s}
    BY <1>5, <2>1 DEF Identify
  <2> QED BY <1>3, <2>1, <2>2
<1>6. ASSUME NEW a \in Agents, ToolConnects(a) PROVE Spreads
  <2>1. PICK s : s = SessionOf(link) /\ Makes(s) /\ open' = open \cup {s}
    BY <1>6 DEF ToolConnects
  <2>2. link # 0 /\ UNCHANGED <<link, connected>> /\ open' \subseteq open \cup {s}
    BY <1>6, <2>1 DEF ToolConnects
  <2> QED BY <1>3, <2>1, <2>2
<1>7. CASE Disconnected
  <2>1. link' = 0 /\ UNCHANGED <<connected, made>> /\ open' \subseteq open
    BY <1>7 DEF Disconnected
  <2> QED BY <1>1, <2>1 DEF Spreads
<1>8. CASE Read \/ StartPolling \/ StopPolling \/ Watch \/ Disconnect
  BY <1>2, <1>8 DEF Read, StartPolling, StopPolling, Watch, Disconnect, linkVars
<1>9. CASE \E w \in work : Finish(w) \/ WorkEnds(w)
  BY <1>2, <1>9 DEF Finish, WorkEnds, linkVars
<1>10. CASE \E p \in Pollers : Polls(p) \/ StopReturns(p)
  BY <1>2, <1>10 DEF Polls, StopReturns, linkVars
<1>11. CASE \E a \in Agents : ToolDisconnects(a) \/ ToolSamples(a) \/ ToolStep(a)
  BY <1>2, <1>11 DEF ToolDisconnects, ToolSamples, ToolStep, ToolHolds,
    ToolIdentifies, ToolWithdraws, ToolForgets, ToolSampled, linkVars
<1> QED BY <1>4, <1>5, <1>6, <1>7, <1>8, <1>9, <1>10, <1>11 DEF Next

\* The sessions the studio uses are ones it had, or the one it opens.
LEMMA SessionsUsed ==
  ASSUME StudioInv, Next
  PROVE  /\ session' \in {NoSession, session} \/ \E w \in work : session' = w.session
         /\ \A w \in work' : \/ \E v \in work : w.session = v.session
                             \/ w.session \in open'
                             \/ w.session = session /\ session # NoSession
<1>1. CASE Identify
  <2>1. PICK s : /\ open' = (open \ Owned(session)) \cup {s}
                 /\ work' = work \cup {[job |-> "identify", session |-> s, at |-> "asking"]}
    BY <1>1 DEF Identify, Runs
  <2>2. [job |-> "identify", session |-> s, at |-> "asking"].session = s
    OBVIOUS
  <2> QED BY <1>1, <2>1, <2>2 DEF Identify
<1>2. CASE Read
  <2>1. work' = work \cup {[job |-> "read", session |-> session, at |-> "asking"]}
    BY <1>2 DEF Read, Runs
  <2>2. [job |-> "read", session |-> session, at |-> "asking"].session = session
    OBVIOUS
  <2> QED BY <1>2, <2>1, <2>2 DEF Read
<1>3. CASE \E w \in work : Finish(w)
  BY <1>3 DEF Finish
<1>4. ASSUME NEW w \in work, WorkEnds(w)
      PROVE  session' = session /\ \A v \in work' : \E u \in work : v.session = u.session
  <2>1. PICK at \in {"failed", "done"} : work' = (work \ {w}) \cup {[w EXCEPT !.at = at]}
    BY <1>4 DEF WorkEnds
  <2>2. w \in WorkRecords
    BY DEF StudioInv, StudioTypes
  <2>3. [w EXCEPT !.at = at].session = w.session
    BY <2>2 DEF WorkRecords
  <2> QED BY <1>4, <2>1, <2>3 DEF WorkEnds
<1>5. CASE Connect \/ StartPolling \/ StopPolling \/ Watch \/ Disconnect \/ Disconnected
           \/ \E p \in Pollers : StopReturns(p)
  <2>1. session' \in {NoSession, session} /\ work' = work
    BY <1>5 DEF Connect, StartPolling, StopPolling, Watch, Disconnect, Disconnected,
      StopReturns, guiVars, sessionVars
  <2> QED BY <2>1
<1>6. CASE \/ \E p \in Pollers : Polls(p)
           \/ \E a \in Agents : \/ ToolConnects(a) \/ ToolDisconnects(a) \/ ToolSamples(a)
                                \/ ToolStep(a)
  BY <1>6, NotTheStudio DEF guiVars, sessionVars
<1> QED BY <1>1, <1>2, <1>3, <1>4, <1>5, <1>6 DEF Next

\* A session opened once was opened.
LEMMA OpenedStays ==
  ASSUME StudioInv, Spreads, NEW s \in Sessions, Opened(s)
  PROVE  Opened(s)'
<1>1. s.link \in Nat /\ s.n \in Nat
  BY DEF Sessions
<1> QED BY <1>1 DEF Opened, Spreads

\* Sessions keep to the links that were opened, and an ELM327's goes with its link.
LEMMA LinkStep ==
  ASSUME StudioInv, Next
  PROVE  LinkInv'
<1>1. Spreads /\ LinkInv /\ StudioTypes
  BY SpreadsStep DEF StudioInv
<1>2. \A s \in Sessions : Opened(s) => Opened(s)'
  BY <1>1, OpenedStays
<1>3. session \in Sessions /\ (\A w \in work : w.session \in Sessions) /\ open \in SUBSET Sessions
  BY <1>1 DEF StudioTypes, WorkRecords
<1>4. link' \in {0, connected'}
  BY <1>1 DEF Spreads, LinkInv
<1>5. \A s \in open' : Opened(s)'
  <2>1. TAKE s \in open'
  <2>2. CASE s \in open
    BY <1>1, <1>2, <1>3, <2>2 DEF LinkInv
  <2>3. CASE s \notin open
    <3>1. s.link = link' /\ link' # 0 /\ s.n <= made'
      BY <1>1, <2>3 DEF Spreads
    <3>2. connected' \in Nat
      BY <1>1 DEF Spreads
    <3> QED BY <1>4, <3>1, <3>2 DEF Opened
  <2> QED BY <2>2, <2>3
<1>6. session' # NoSession => Opened(session)'
  <2>1. ASSUME session' = session, session # NoSession PROVE Opened(session)'
    BY <1>1, <1>2, <1>3, <2>1 DEF LinkInv, Opened
  <2>2. ASSUME NEW w \in work, session' = w.session PROVE Opened(session)'
    BY <1>1, <1>2, <1>3, <2>2 DEF LinkInv, Opened
  <2> QED BY <2>1, <2>2, SessionsUsed
<1>7. \A w \in work' : Opened(w.session)'
  BY <1>1, <1>2, <1>3, <1>5, SessionsUsed DEF LinkInv
<1>8. \A s \in open' : s.n = 0 => s.link = link'
  <2>1. ASSUME NEW s \in open', s.n = 0 PROVE s.link = link'
    <3>1. CASE s \notin open
      BY <1>1, <3>1 DEF Spreads
    <3>2. CASE s \in open
      <4>1. s.link = link /\ s.link \in 1..connected /\ link # 0
        BY <1>1, <2>1, <3>2 DEF LinkInv, Opened, StudioTypes
      <4>2. link' \in {0, link}
        BY <1>1, <4>1 DEF Spreads
      <4>3. CASE Disconnected
        <5>1. s = [link |-> link, n |-> 0]
          BY <1>3, <2>1, <3>2, <4>1 DEF Sessions
        <5> QED BY <2>1, <4>3, <5>1 DEF Disconnected
      <4>4. CASE ~ Disconnected
        BY <4>1, <4>4, NotTheStudio DEF Next, Connect, Identify, Read, StartPolling, StopPolling,
          Watch, Disconnect, Finish, WorkEnds, StopReturns, linkVars
      <4> QED BY <4>1, <4>3, <4>4
    <3> QED BY <3>1, <3>2
  <2> QED BY <2>1
<1> QED BY <1>4, <1>5, <1>6, <1>7, <1>8 DEF LinkInv

\* A session that is closed for good stays closed.
LEMMA GoneStays ==
  ASSUME StudioInv, Spreads, NEW s \in Sessions, Gone(s)
  PROVE  Gone(s)'
<1>1. Opened(s)' /\ s.link \in 1..connected /\ s.n <= made /\ s.n \in Nat /\ s.link \in Nat
  BY OpenedStays DEF Gone, Opened, Sessions
<1>2. s.n = 0 => s.link # link'
  BY <1>1 DEF Spreads, Gone
<1>3. s \notin open'
  BY <1>1, <1>2 DEF Spreads, Gone
<1> QED BY <1>1, <1>2, <1>3 DEF Gone

\* Only an agent that no longer needs its poller does anything.
LEMMA AgentsStep ==
  ASSUME StudioInv, Next
  PROVE  \/ agent' = agent
         \/ \E a \in Agents :
              /\ \A b \in Agents \ {a} : agent'[b] = agent[b]
              /\ agent[a].poller # 0 => ~ Alive(agent[a].poller)
              /\ \/ agent'[a].poller = 0
                 \/ agent'[a].poller = agent[a].poller
                 \/ /\ agent'[a].at = "sampling" /\ agent'[a].poller \in Pollers
                    /\ pollers'[agent'[a].poller].at = "check"
<1>1. StudioTypes /\ SampleInv
  BY DEF StudioInv
<1>2. ASSUME NEW a \in Agents, agent[a].at # "sampling"
      PROVE  agent[a].poller # 0 => ~ Alive(agent[a].poller)
  BY <1>1, <1>2 DEF SampleInv
<1>3. ASSUME NEW a \in Agents, ToolConnects(a) \/ ToolDisconnects(a)
      PROVE  /\ \A b \in Agents \ {a} : agent'[b] = agent[b]
             /\ agent[a].poller # 0 => ~ Alive(agent[a].poller)
             /\ agent'[a].poller = agent[a].poller
  BY <1>1, <1>2, <1>3, AgentEffects DEF ToolConnects, ToolDisconnects, Begins, AgentGoes
<1>4. ASSUME NEW a \in Agents,
             ToolHolds(a) \/ ToolIdentifies(a) \/ ToolWithdraws(a) \/ ToolForgets(a)
      PROVE  /\ \A b \in Agents \ {a} : agent'[b] = agent[b]
             /\ agent[a].poller # 0 => ~ Alive(agent[a].poller)
             /\ agent'[a].poller = 0 \/ agent'[a].poller = agent[a].poller
  <2>1. agent[a].poller # 0 => ~ Alive(agent[a].poller)
    BY <1>2, <1>4 DEF ToolHolds, ToolIdentifies, ToolWithdraws, ToolForgets
  <2> QED BY <1>1, <1>4, <2>1, AgentEffects DEF AgentGoes
<1>5. ASSUME NEW a \in Agents, ToolSampled(a)
      PROVE  /\ \A b \in Agents \ {a} : agent'[b] = agent[b]
             /\ agent[a].poller # 0 => ~ Alive(agent[a].poller)
             /\ agent'[a].poller = agent[a].poller
  <2>1. ~ Alive(agent[a].poller)
    BY <1>5 DEF ToolSampled
  <2> QED BY <1>1, <1>5, <2>1, AgentEffects DEF AgentGoes
<1>6. ASSUME NEW a \in Agents, ToolSamples(a)
      PROVE  /\ \A b \in Agents \ {a} : agent'[b] = agent[b]
             /\ agent[a].poller # 0 => ~ Alive(agent[a].poller)
             /\ agent'[a].at = "sampling" /\ agent'[a].poller \in Pollers
             /\ pollers'[agent'[a].poller].at = "check"
  <2>1. PICK p \in Pollers, file \in {"none", "open"} :
          AgentGoes(a, "sampling", client, p) /\ Start(p, client, file)
    BY <1>1, <1>6, AgentEffects
  <2>2. client \in Sessions
    BY <1>1 DEF StudioTypes
  <2>3. pollers'[p].at = "check"
    BY <2>1, <2>2, StartStep
  <2>4. agent[a].poller # 0 => ~ Alive(agent[a].poller)
    BY <1>2, <1>6 DEF ToolSamples
  <2> QED BY <2>1, <2>3, <2>4 DEF AgentGoes
<1>7. CASE \/ Connect \/ Identify \/ Read \/ StartPolling \/ StopPolling \/ Watch
           \/ Disconnect \/ Disconnected
           \/ \E w \in work : Finish(w) \/ WorkEnds(w)
           \/ \E p \in Pollers : Polls(p) \/ StopReturns(p)
  BY <1>7 DEF Connect, Identify, Read, StartPolling, StopPolling, Watch, Disconnect,
    Disconnected, Finish, WorkEnds, Polls, StopReturns, toolVars
<1> QED BY <1>3, <1>4, <1>5, <1>6, <1>7 DEF Next, ToolStep

\* An agent that samples stays until its poller has ended.
LEMMA SampleStep ==
  ASSUME StudioInv, Next
  PROVE  SampleInv'
<1>1. SampleInv /\ StudioTypes
  BY DEF StudioInv
<1>2. \A q \in Pollers : pollers[q].at # "unused" =>
        pollers'[q].at # "unused" /\ (~ Alive(q) => ~ Alive(q)')
  BY PollersGo DEF Steady
<1>3. \A a \in Agents : agent[a].poller # 0 =>
        agent[a].poller \in Pollers /\ pollers[agent[a].poller].at # "unused"
  BY <1>1 DEF SampleInv, StudioTypes, AgentRecords
<1>4. ASSUME NEW a \in Agents, agent'[a] = agent[a], agent'[a].poller # 0
      PROVE  /\ agent'[a].at # "sampling" => ~ Alive(agent[a].poller)'
             /\ pollers'[agent'[a].poller].at # "unused"
  <2>1. agent[a].poller \in Pollers /\ pollers[agent[a].poller].at # "unused"
        /\ (agent[a].at # "sampling" => ~ Alive(agent[a].poller))
    BY <1>1, <1>3, <1>4 DEF SampleInv
  <2> QED BY <1>2, <1>4, <2>1 DEF Alive
<1>5. CASE agent' = agent
  BY <1>4, <1>5 DEF SampleInv
<1>6. ASSUME NEW a \in Agents, \A b \in Agents \ {a} : agent'[b] = agent[b],
             agent'[a].poller # 0 =>
               /\ agent'[a].at # "sampling" => ~ Alive(agent[a].poller)'
               /\ pollers'[agent'[a].poller].at # "unused"
      PROVE  SampleInv'
  BY <1>4, <1>6 DEF SampleInv
<1>7. ASSUME NEW a \in Agents, agent[a].poller # 0 => ~ Alive(agent[a].poller),
             agent'[a].poller = agent[a].poller, agent'[a].poller # 0
      PROVE  ~ Alive(agent[a].poller)' /\ pollers'[agent'[a].poller].at # "unused"
  <2>1. agent[a].poller \in Pollers /\ pollers[agent[a].poller].at # "unused"
    BY <1>3, <1>7
  <2> QED BY <1>2, <1>7, <2>1 DEF Alive
<1> QED BY <1>5, <1>6, <1>7, AgentsStep

\* What becomes of the pollers somebody holds.
LEMMA HeldOn ==
  ASSUME StudioInv, Next, NEW p \in Pollers, Alive(p)'
  PROVE  /\ ~ Alive(p) => Sampled(p)' \/ Mine(p)'
         /\ Sampled(p) /\ Alive(p) => Sampled(p)'
<1>1. StudioTypes /\ p # 0
  BY DEF StudioInv, Pollers
<1>2. ASSUME ~ Alive(p) PROVE Sampled(p)' \/ Mine(p)'
  <2>1. ~ Steady(p)
    BY <1>2 DEF Steady
  <2>2. CASE StartPolling
    <3>1. PICK q \in Pollers, file \in {"none", "open"} : Start(q, session, file) /\ poller' = q
      BY <2>2 DEF StartPolling
    <3>2. session \in Sessions
      BY <1>1 DEF StudioTypes
    <3>3. q = p
      BY <2>1, <3>1, <3>2, StartStep
    <3> QED BY <3>1, <3>3 DEF Mine
  <2>3. ASSUME NEW a \in Agents, ToolSamples(a) PROVE Sampled(p)'
    <3>1. PICK q \in Pollers, file \in {"none", "open"} :
            AgentGoes(a, "sampling", client, q) /\ Start(q, client, file)
      BY <1>1, <2>3, AgentEffects
    <3>2. client \in Sessions
      BY <1>1 DEF StudioTypes
    <3>3. q = p
      BY <2>1, <3>1, <3>2, StartStep
    <3> QED BY <3>1, <3>3 DEF Sampled, AgentGoes
  <2> QED BY <2>1, <2>2, <2>3, PollersStep DEF AllSteady
<1>3. ASSUME NEW a \in Agents, agent[a].poller = p, Alive(p) PROVE Sampled(p)'
  <2>1. agent'[a].poller = p
    BY <1>1, <1>3, AgentsStep
  <2> QED BY <2>1 DEF Sampled
<1> QED BY <1>2, <1>3 DEF Sampled

\* A poller the studio lets go of while it runs has lost its session.
LEMMA LetGo ==
  ASSUME StudioInv, Next, NEW p \in Pollers, Mine(p), ~ Mine(p)', Alive(p)',
         NEW s, s = pollers[p].session
  PROVE  Gone(s)'
<1>1. BusyInv /\ StudioTypes /\ LinkInv /\ p # 0
  BY DEF StudioInv, Pollers
<1>2. Alive(p) /\ (poller = p \/ joined = p)
  <2>1. pollers[p].at # "unused"
    BY <1>1 DEF Mine, BusyInv, StudioInv, StopInv, LostInv
  <2> QED BY <2>1, PollersGo DEF Steady, Mine
<1>3. CASE Disconnected
  <2>1. joined = p /\ s = session /\ session # NoSession
    BY <1>1, <1>2, <1>3 DEF Disconnected, BusyInv
  <2>2. Opened(s) /\ (s \in open /\ s.n = 0 => s.link = link) /\ s \in Sessions
    BY <1>1, <2>1 DEF LinkInv, StudioTypes
  <2>3. Opened(s)' /\ s.link # 0
    <3>1. Spreads
      BY SpreadsStep
    <3> QED BY <2>2, <3>1, OpenedStays DEF Opened
  <2>4. link' = 0 /\ open' = open \ ({[link |-> link, n |-> 0]} \cup Owned(s))
    BY <1>3, <2>1 DEF Disconnected
  <2>5. s.n = 0 /\ s.link = link => s = [link |-> link, n |-> 0]
    BY <2>2 DEF Sessions
  <2>6. s.n # 0 => s \in Owned(s)
    BY DEF Owned, IsNative
  <2>7. s \notin open'
    BY <2>2, <2>4, <2>5, <2>6
  <2> QED BY <2>3, <2>4, <2>7 DEF Gone
<1>4. CASE StartPolling \/ Disconnect
  BY <1>1, <1>2, <1>4 DEF StartPolling, Disconnect, BusyInv, Mine, tkVars
<1>5. CASE Watch
  BY <1>2, <1>5 DEF Watch, Mine, tkVars
<1>6. CASE \/ Connect \/ Identify \/ Read \/ StopPolling
           \/ \E w \in work : Finish(w) \/ WorkEnds(w)
           \/ \E q \in Pollers : Polls(q) \/ StopReturns(q)
           \/ \E a \in Agents : \/ ToolConnects(a) \/ ToolDisconnects(a) \/ ToolSamples(a)
                                \/ ToolStep(a)
  <2>1. UNCHANGED <<poller, joined>>
    BY <1>6, NotTheStudio DEF Connect, Identify, Read, StopPolling, Finish, WorkEnds, StopReturns,
      guiVars, pollerVars, tkVars
  <2> QED BY <2>1 DEF Mine
<1> QED BY <1>3, <1>4, <1>5, <1>6 DEF Next

\* A poller that nobody holds any more asks a session that is closed.
LEMMA LeftStep ==
  ASSUME StudioInv, Next
  PROVE  LeftInv'
<1>1. SUFFICES ASSUME NEW p \in Pollers, Left(p)'
               PROVE  Gone(pollers[p].session)'
  BY DEF LeftInv
<1>2. PICK s : s = pollers[p].session
  OBVIOUS
<1>3. Alive(p)' /\ ~ Sampled(p)' /\ ~ Mine(p)'
  BY <1>1 DEF Left
<1>4. Alive(p) /\ ~ Sampled(p)
  BY <1>3, HeldOn
<1>5. s \in Sessions
  BY <1>2 DEF StudioInv, StudioTypes, PollerTypes, PollerRecords
<1>6. pollers'[p].session = s
  BY <1>2, <1>4, PollersGo DEF Alive, Steady
<1>7. Gone(s)'
  <2>1. CASE Mine(p)
    BY <1>2, <1>3, <2>1, LetGo
  <2>2. CASE ~ Mine(p)
    <3>1. Gone(s)
      BY <1>2, <1>4, <2>2 DEF StudioInv, LeftInv, Left
    <3> QED BY <1>5, <3>1, GoneStays, SpreadsStep
  <2> QED BY <2>1, <2>2
<1> QED BY <1>6, <1>7 DEF Gone, Opened

\* A native session reaches the vehicle from its first moment, or never again.
LEMMA ReachedBefore ==
  ASSUME StudioInv, Spreads, NEW s \in Sessions, Opened(s), IsNative(s), Reaches(s)'
  PROVE  Reaches(s) /\ link' = link
<1>1. s \in open' /\ s.link = link'
  BY DEF Reaches
<1>2. s.link \in 1..connected /\ s.n <= made /\ s.n # 0 /\ s.n \in Nat /\ s.link \in Nat
  BY DEF Opened, IsNative, Sessions
<1>3. s \in open
  BY <1>1, <1>2 DEF Spreads
<1>4. link' = link
  BY <1>1, <1>2 DEF Spreads
<1> QED BY <1>1, <1>3, <1>4 DEF Reaches

\* What the studio asks on the current link is what the capture loop feeds.
LEMMA FedStep ==
  ASSUME StudioInv, Next
  PROVE  FedInv'
<1>1. FedInv /\ LinkInv /\ Spreads /\ BusyInv /\ StudioTypes
  BY SpreadsStep DEF StudioInv
<1>2. \A w \in work : w.session \in Sessions /\ Opened(w.session)
  BY <1>1 DEF LinkInv, StudioTypes, WorkRecords
<1>3. IsNative(session) => session \in Sessions /\ Opened(session)
  BY <1>1, Nobody DEF LinkInv, StudioTypes
<1>4. \A s \in Sessions : Opened(s) /\ IsNative(s) /\ (s \in open' /\ s.link = link') => Reaches(s)
  BY <1>1, ReachedBefore DEF Reaches
<1>5. \A w \in work : (w.session \in open' /\ w.session.link = link') /\ IsNative(w.session) =>
        source = w.session
  BY <1>1, <1>2, <1>4 DEF FedInv
<1>6. (session \in open' /\ session.link = link') /\ IsNative(session) => source = session
  BY <1>1, <1>3, <1>4 DEF FedInv
<1>7. ASSUME UNCHANGED <<work, session, source>> PROVE FedInv'
  BY <1>1, <1>5, <1>6, <1>7 DEF FedInv, Reaches, IsNative
<1>8. CASE Identify
  <2>1. work = {}
    BY <1>1, <1>8 DEF Identify, BusyInv
  <2>2. PICK s : source' = Fed(s) /\ Runs("identify", s)
    BY <1>8 DEF Identify
  <2>3. PICK w : w = [job |-> "identify", session |-> s, at |-> "asking"]
    OBVIOUS
  <2>4. work' = {w} /\ w.session = s
    BY <2>1, <2>2, <2>3 DEF Runs
  <2>5. session' = NoSession
    BY <1>8 DEF Identify
  <2> QED BY <2>2, <2>4, <2>5, Nobody DEF FedInv, Fed, IsNative
<1>9. CASE Read
  <2>1. work = {}
    BY <1>1, <1>9 DEF Read, BusyInv
  <2>2. PICK w : w = [job |-> "read", session |-> session, at |-> "asking"]
    OBVIOUS
  <2>3. work' = {w} /\ w.session = session /\ w.job = "read" /\ UNCHANGED <<session, source>>
    BY <1>9, <2>1, <2>2 DEF Read, Runs
  <2> QED BY <1>6, <2>3 DEF FedInv, Reaches, IsNative
<1>10. ASSUME NEW w \in work, Finish(w) PROVE FedInv'
  <2>1. work' = {}
    BY <1>1, <1>10 DEF Finish, BusyInv
  <2>2. CASE w.job = "identify" /\ w.at = "failed"
    <3>1. session' = NoSession
      BY <1>1, <1>10, <2>2 DEF Finish, FedInv
    <3> QED BY <2>1, <3>1, Nobody DEF FedInv, IsNative
  <2>3. CASE ~ (w.job = "identify" /\ w.at = "failed")
    <3>1. source' = source /\ session' \in {session, w.session}
      BY <1>10, <2>3 DEF Finish
    <3> QED BY <1>5, <1>6, <2>1, <3>1 DEF FedInv, Reaches, IsNative
  <2> QED BY <2>2, <2>3
<1>11. ASSUME NEW w \in work, WorkEnds(w) PROVE FedInv'
  <2>1. PICK at \in {"failed", "done"} : work' = (work \ {w}) \cup {[w EXCEPT !.at = at]}
    BY <1>11 DEF WorkEnds
  <2>2. w \in WorkRecords
    BY <1>1 DEF StudioTypes
  <2>3. PICK v : v = [w EXCEPT !.at = at]
    OBVIOUS
  <2>4. v.session = w.session /\ v.job = w.job
    BY <2>2, <2>3 DEF WorkRecords
  <2>5. \A u \in work' : u \in work \/ u = v
    BY <2>1, <2>3
  <2>6. UNCHANGED <<session, source>>
    BY <1>11 DEF WorkEnds
  <2> QED BY <1>1, <1>5, <1>6, <2>4, <2>5, <2>6 DEF FedInv, Reaches, IsNative
<1>12. CASE Disconnected
  <2>1. session' = NoSession /\ work' = work /\ link' = 0
    BY <1>12 DEF Disconnected
  <2>2. \A w \in work : w.session.link # 0
    BY <1>2 DEF Opened
  <2> QED BY <2>1, <2>2, Nobody DEF FedInv, Reaches, IsNative
<1>13. CASE \/ Connect \/ StartPolling \/ StopPolling \/ Watch \/ Disconnect
            \/ \E p \in Pollers : StopReturns(p)
  BY <1>7, <1>13 DEF Connect, StartPolling, StopPolling, Watch, Disconnect, StopReturns,
    guiVars, sessionVars
<1>14. CASE \/ \E p \in Pollers : Polls(p)
            \/ \E a \in Agents : \/ ToolConnects(a) \/ ToolDisconnects(a) \/ ToolSamples(a)
                                 \/ ToolStep(a)
  BY <1>7, <1>14, NotTheStudio DEF guiVars, sessionVars
<1> QED BY <1>8, <1>9, <1>10, <1>11, <1>12, <1>13, <1>14 DEF Next

\* As long as no two agents overlap, the globals of mcp_tools fit together.
LEMMA ToolsStep ==
  ASSUME StudioInv, Next
  PROVE  ToolInv'
<1>1. ToolInv /\ StudioTypes /\ (\A a \in Agents : agent[a] \in AgentRecords)
  BY DEF StudioInv, StudioTypes
<1>2. ASSUME UNCHANGED toolVars PROVE ToolInv'
  <2>1. UNCHANGED <<agent, tools, client, owned, registered, extra, overlapped>>
    BY <1>2 DEF toolVars
  <2> QED BY <1>1, <2>1 DEF ToolInv, AtWork, Held
<1>3. ASSUME NEW a \in Agents, AtWork(a), ~ overlapped PROVE \A b \in Agents \ {a} : ~ AtWork(b)
  BY <1>1, <1>3 DEF ToolInv
<1>4. ASSUME NEW a \in Agents, Begins(a), ~ overlapped'
      PROVE  /\ ~ overlapped /\ \A b \in Agents : ~ AtWork(b)
             /\ client = NoSession \/ client = tools
  <2>1. ~ overlapped /\ \A b \in Agents : agent[b].at \in {"idle", "sampling"}
    BY <1>4 DEF Begins
  <2> QED BY <1>1, <2>1 DEF ToolInv, AtWork
<1>5. ASSUME NEW a \in Agents, ToolConnects(a), ~ overlapped' PROVE ToolInv'
  <2>1. PICK s : /\ s = SessionOf(link) /\ extra' = extra \cup Owned(s)
                 /\ registered' = IF IsNative(s) THEN s ELSE registered
    BY <1>5 DEF ToolConnects
  <2>2. tools = NoSession /\ client = NoSession /\ (\A b \in Agents : ~ AtWork(b))
    BY <1>4, <1>5 DEF ToolConnects
  <2>3. tools' = NoSession /\ client' = NoSession
    BY <1>5, <2>2 DEF ToolConnects
  <2>4. /\ agent'[a].at = "holding" /\ agent'[a].session = s
        /\ \A b \in Agents \ {a} : agent'[b] = agent[b]
    BY <1>1, <1>5, <2>1, AgentEffects DEF AgentGoes
  <2>5. Held(s)'
    BY <2>1 DEF Held, Owned, IsNative
  <2>6. \A b \in Agents \ {a} : agent'[b].at \in {"idle", "sampling"}
    BY <2>2, <2>4 DEF AtWork
  <2> QED BY <2>3, <2>4, <2>5, <2>6 DEF ToolInv, AtWork, Held
<1>6. ASSUME NEW a \in Agents, ToolHolds(a), ~ overlapped' PROVE ToolInv'
  <2>1. ~ overlapped /\ AtWork(a) /\ UNCHANGED <<client, registered, extra>>
    BY <1>6 DEF ToolHolds, AtWork
  <2>2. client = NoSession /\ Held(agent[a].session)
    BY <1>1, <1>6, <2>1 DEF ToolInv, ToolHolds
  <2>3. tools' = agent[a].session /\ (owned' <=> IsNative(tools'))
    BY <1>6 DEF ToolHolds, Owns
  <2>4. /\ agent'[a].at = "identifying" /\ agent'[a].session = agent[a].session
        /\ \A b \in Agents \ {a} : agent'[b] = agent[b]
    BY <1>1, <1>6, AgentEffects DEF AgentGoes
  <2>5. \A b \in Agents \ {a} : agent'[b].at \in {"idle", "sampling"}
    BY <1>3, <2>1, <2>4 DEF AtWork
  <2>6. Held(tools)'
    BY <2>1, <2>2, <2>3 DEF Held, IsNative
  <2> QED BY <2>1, <2>2, <2>3, <2>4, <2>5, <2>6 DEF ToolInv, AtWork, IsNative
<1>7. ASSUME NEW a \in Agents, ToolIdentifies(a), ~ overlapped' PROVE ToolInv'
  <2>1. ~ overlapped /\ AtWork(a) /\ UNCHANGED <<tools, owned, registered, extra>>
    BY <1>7 DEF ToolIdentifies, AtWork
  <2>2. tools = agent[a].session /\ client = NoSession /\ Held(tools) /\ (owned <=> IsNative(tools))
    BY <1>1, <1>7, <2>1 DEF ToolInv, ToolIdentifies
  <2>3. Held(tools)' /\ (owned' <=> IsNative(tools'))
    BY <2>1, <2>2 DEF Held, IsNative
  <2>4. \A b \in Agents \ {a} : ~ AtWork(b)
    BY <1>3, <2>1
  <2>5. CASE client' = agent[a].session /\ agent' = [agent EXCEPT ![a] = Idle]
    <3>1. \A b \in Agents : agent'[b].at \in {"idle", "sampling"}
      BY <1>1, <2>4, <2>5, Nobody DEF AtWork, StudioTypes
    <3> QED BY <2>1, <2>2, <2>3, <2>5, <3>1 DEF ToolInv, AtWork
  <2>6. CASE client' = client /\ Moves(a, "leaving")
    <3>1. AgentGoes(a, "leaving", agent[a].session, agent[a].poller)
      BY <1>1, <2>6, AgentMoves DEF AgentPlaces
    <3>2. agent'[a].at = "leaving" /\ \A b \in Agents \ {a} : agent'[b].at \in {"idle", "sampling"}
      BY <2>4, <3>1 DEF AgentGoes, AtWork
    <3> QED BY <2>2, <2>6, <3>2 DEF ToolInv, AtWork
  <2> QED BY <1>7, <2>5, <2>6 DEF ToolIdentifies
<1>8. ASSUME NEW a \in Agents, ToolDisconnects(a), ~ overlapped' PROVE ToolInv'
  <2>1. (client = NoSession \/ client = tools) /\ (\A b \in Agents : ~ AtWork(b))
    BY <1>4, <1>8 DEF ToolDisconnects
  <2>2. /\ agent'[a].at = "leaving"
        /\ \A b \in Agents \ {a} : agent'[b] = agent[b]
    BY <1>1, <1>8, AgentEffects DEF AgentGoes
  <2>3. \A b \in Agents \ {a} : agent'[b].at \in {"idle", "sampling"}
    BY <2>1, <2>2 DEF AtWork
  <2> QED BY <2>2, <2>3 DEF ToolInv, AtWork
<1>9. ASSUME NEW a \in Agents, ToolWithdraws(a), ~ overlapped' PROVE ToolInv'
  <2>1. ~ overlapped /\ AtWork(a)
    BY <1>9 DEF ToolWithdraws, AtWork
  <2>2. /\ agent'[a].at = "forgetting"
        /\ \A b \in Agents \ {a} : agent'[b] = agent[b]
    BY <1>1, <1>9, AgentEffects DEF AgentGoes
  <2>3. \A b \in Agents \ {a} : agent'[b].at \in {"idle", "sampling"}
    BY <1>3, <2>1, <2>2 DEF AtWork
  <2> QED BY <2>2, <2>3 DEF ToolInv, AtWork
<1>10. ASSUME NEW a \in Agents, ToolForgets(a), ~ overlapped' PROVE ToolInv'
  <2>1. ~ overlapped /\ AtWork(a) /\ tools' = NoSession /\ client' = NoSession
    BY <1>10 DEF ToolForgets, AtWork
  <2>2. agent'[a].at = "idle" /\ \A b \in Agents \ {a} : agent'[b] = agent[b]
    BY <1>1, <1>10, AgentEffects DEF AgentGoes
  <2>3. \A b \in Agents : agent'[b].at \in {"idle", "sampling"}
    BY <1>3, <2>1, <2>2 DEF AtWork
  <2> QED BY <2>1, <2>3 DEF ToolInv, AtWork
<1>11. ASSUME NEW a \in Agents, ToolSamples(a) \/ ToolSampled(a), ~ overlapped' PROVE ToolInv'
  <2>1. UNCHANGED <<tools, client, owned, registered, extra, overlapped>> /\ ~ overlapped
    BY <1>11 DEF ToolSamples, ToolSampled
  <2>2. /\ agent[a].at \in {"idle", "sampling"} /\ agent'[a].at \in {"idle", "sampling"}
        /\ \A b \in Agents \ {a} : agent'[b] = agent[b]
    BY <1>1, <1>11, AgentEffects DEF AgentGoes, ToolSamples, ToolSampled
  <2>3. \A b \in Agents : \/ agent'[b] = agent[b]
                          \/ {agent[b].at, agent'[b].at} \subseteq {"idle", "sampling"}
    BY <2>2
  <2>4. \A b \in Agents : agent[b].at \in {"leaving", "forgetting"} =>
                            agent'[b].at \in {"leaving", "forgetting"}
    BY <2>3
  <2>5. \A b \in Agents : AtWork(b)' <=> AtWork(b)
    BY <2>3 DEF AtWork
  <2>6. \A b \in Agents : AtWork(b) => agent'[b] = agent[b]
    BY <2>3 DEF AtWork
  <2>7. \A s : Held(s)' <=> Held(s)
    BY <2>1 DEF Held, IsNative
  <2> QED BY <1>1, <2>1, <2>4, <2>5, <2>6, <2>7 DEF ToolInv, AtWork, Held, IsNative
<1>12. CASE \/ Connect \/ Identify \/ Read \/ StartPolling \/ StopPolling \/ Watch
            \/ Disconnect \/ Disconnected
            \/ \E w \in work : Finish(w) \/ WorkEnds(w)
            \/ \E p \in Pollers : Polls(p) \/ StopReturns(p)
  <2>1. UNCHANGED toolVars
    BY <1>12 DEF Connect, Identify, Read, StartPolling, StopPolling, Watch, Disconnect,
      Disconnected, Finish, WorkEnds, Polls, StopReturns
  <2> QED BY <1>2, <2>1
<1>13. overlapped' => ToolInv'
  BY DEF ToolInv
<1> QED BY <1>5, <1>6, <1>7, <1>8, <1>9, <1>10, <1>11, <1>12, <1>13 DEF Next, ToolStep

\* An ELM327's session is closed by nobody but the link.
LEMMA LinkKeepsStep ==
  ASSUME StudioInv, Next
  PROVE  LinkKeepsItsSession'
<1>1. LinkKeepsItsSession /\ ToolInv /\ kind' = kind
  BY NotTheStudio DEF StudioInv, Next, Connect, Identify, Read, StartPolling, StopPolling, Watch,
    Disconnect, Disconnected, Finish, WorkEnds, Polls, StopReturns, linkVars
<1>2. \A s : [link |-> link, n |-> 0] \notin Owned(s)
  BY DEF Owned, IsNative
<1>3. ASSUME link' = link, [link |-> link, n |-> 0] \in open => [link |-> link, n |-> 0] \in open',
             ~ overlapped' => ~ overlapped
      PROVE  LinkKeepsItsSession'
  BY <1>1, <1>3 DEF LinkKeepsItsSession
<1>4. CASE Connect
  BY <1>1, <1>4 DEF Connect, LinkKeepsItsSession
<1>5. CASE Disconnected
  BY <1>5 DEF Disconnected, LinkKeepsItsSession
<1>6. CASE Identify
  BY <1>2, <1>3, <1>6 DEF Identify, toolVars
<1>7. CASE \E w \in work : Finish(w) \/ WorkEnds(w)
  BY <1>2, <1>3, <1>7 DEF Finish, WorkEnds, linkVars, toolVars
<1>8. CASE Read \/ StartPolling \/ StopPolling \/ Watch \/ Disconnect
           \/ \E p \in Pollers : Polls(p) \/ StopReturns(p)
  BY <1>3, <1>8 DEF Read, StartPolling, StopPolling, Watch, Disconnect, Polls, StopReturns,
    linkVars, toolVars
<1>9. ASSUME NEW a \in Agents, ToolConnects(a) PROVE LinkKeepsItsSession'
  BY <1>3, <1>9 DEF ToolConnects, Begins
<1>10. ASSUME NEW a \in Agents, ToolDisconnects(a) PROVE LinkKeepsItsSession'
  <2>1. CASE overlapped'
    BY <2>1 DEF LinkKeepsItsSession
  <2>2. CASE ~ overlapped'
    <3>1. ~ overlapped /\ (\A b \in Agents : ~ AtWork(b)) /\ tools # NoSession
      BY <1>10, <2>2 DEF ToolDisconnects, Begins, AtWork
    <3>2. owned => IsNative(tools)
      BY <1>1, <3>1 DEF ToolInv
    <3>3. owned => tools # [link |-> link, n |-> 0]
      BY <3>2 DEF IsNative
    <3> QED BY <1>3, <1>10, <3>1, <3>3 DEF ToolDisconnects
  <2> QED BY <2>1, <2>2
<1>11. ASSUME NEW a \in Agents, ToolSamples(a) \/ ToolStep(a) PROVE LinkKeepsItsSession'
  BY <1>2, <1>3, <1>11 DEF ToolSamples, ToolStep, ToolHolds, ToolIdentifies, ToolWithdraws,
    ToolForgets, ToolSampled, linkVars
<1> QED BY <1>4, <1>5, <1>6, <1>7, <1>8, <1>9, <1>10, <1>11 DEF Next
-----------------------------------------------------------------------------
(* The invariant, and what it means. *)

\* A studio that is just started.
LEMMA StudioInit ==
  ASSUME Init
  PROVE  StudioInv
<1>1. \A p \in Pollers :
        /\ pollers[p] \in PollerRecords /\ pollers[p].at = "unused" /\ ~ pollers[p].stop
        /\ pollers[p].asked = 0 /\ pollers[p].got = 0 /\ pollers[p].lost = 0
        /\ pollers[p].file = "none"
  BY Nobody DEF Init, NewPoller, PollerRecords, PollerPlaces
<1>2. PollerTypes
  BY <1>1 DEF Init, PollerTypes
<1>3. \A p \in Pollers : LostInv(p) /\ ~ Alive(p)
  BY <1>1, PidsAssumption DEF LostInv, Alive
<1>4. /\ \A a \in Agents : agent[a] = Idle
      /\ agent \in [Agents -> AgentRecords]
  BY Nobody DEF Init
<1>5. StudioTypes
  BY <1>2, <1>4, Nobody DEF Init, StudioTypes
<1>6. StopInv /\ BusyInv
  BY DEF Init, StopInv, BusyInv
<1>7. LinkInv /\ FedInv
  BY Nobody DEF Init, LinkInv, FedInv, IsNative
<1>8. LeftInv
  BY <1>3 DEF LeftInv, Left
<1>9. SampleInv
  BY <1>4, Nobody DEF SampleInv
<1>10. ToolInv
  BY <1>4, Nobody DEF Init, ToolInv, AtWork, Held
<1>11. LinkKeepsItsSession
  BY DEF Init, LinkKeepsItsSession
<1> QED BY <1>3, <1>5, <1>6, <1>7, <1>8, <1>9, <1>10, <1>11 DEF StudioInv

\* Nothing happens.
LEMMA StudioStutters ==
  ASSUME StudioInv, UNCHANGED vars
  PROVE  StudioInv'
<1>1. UNCHANGED <<pollers, link, kind, connected, open, made, session, source, busy, work, poller,
                  watching, stopping, tk, joined, agent, tools, client, owned, registered, extra,
                  overlapped>>
  BY DEF vars, linkVars, guiVars, sessionVars, pollerVars, tkVars, toolVars
<1>2. \A p \in Pollers : (Alive(p)' <=> Alive(p)) /\ (LostInv(p)' <=> LostInv(p))
  BY <1>1 DEF Alive, LostInv
<1>3. \A p \in Pollers : Left(p)' <=> Left(p)
  BY <1>1 DEF Left, Alive, Sampled, Mine
<1>4. \A s : (Gone(s)' <=> Gone(s)) /\ (Opened(s)' <=> Opened(s)) /\ (Held(s)' <=> Held(s))
  BY <1>1 DEF Gone, Opened, Held, IsNative
<1>5. StudioTypes'
  BY <1>1 DEF StudioInv, StudioTypes, PollerTypes
<1>6. StopInv' /\ BusyInv' /\ FedInv' /\ LinkKeepsItsSession'
  BY <1>1 DEF StudioInv, StopInv, BusyInv, FedInv, LinkKeepsItsSession, Reaches, IsNative
<1>7. LinkInv'
  BY <1>1 DEF StudioInv, LinkInv, Opened
<1>8. LeftInv'
  BY <1>1, <1>3 DEF StudioInv, LeftInv, Gone, Opened
<1>9. SampleInv'
  BY <1>1 DEF StudioInv, SampleInv, Alive
<1>10. ToolInv'
  BY <1>1 DEF StudioInv, ToolInv, AtWork, Held, IsNative
<1> QED BY <1>2, <1>5, <1>6, <1>7, <1>8, <1>9, <1>10 DEF StudioInv

\* The invariant behind the three theorems below: what _obd_run's threads, the
\* pollers, the agents' tools and the sessions on the links have to do with each
\* other, whatever the studio and its agents do.
THEOREM StudioInvariant == Spec => []StudioInv
<1>1. Init => StudioInv
  BY StudioInit
<1>2. StudioInv /\ [Next]_vars => StudioInv'
  <2>1. ASSUME StudioInv, Next PROVE StudioInv'
    <3>1. StudioTypes' /\ \A p \in Pollers : LostInv(p)'
      BY <2>1, TypesStep, PollersKeep
    <3>2. StopInv' /\ BusyInv' /\ LinkInv' /\ LeftInv'
      BY <2>1, StopStep, BusyStep, LinkStep, LeftStep
    <3>3. SampleInv' /\ FedInv' /\ ToolInv' /\ LinkKeepsItsSession'
      BY <2>1, SampleStep, FedStep, ToolsStep, LinkKeepsStep
    <3> QED BY <3>1, <3>2, <3>3 DEF StudioInv
  <2> QED BY <2>1, StudioStutters
<1> QED BY <1>1, <1>2, PTL DEF Spec

\* "Lose one cycle at most" (CsvRecorder.write), whoever stops the poller and
\* whenever: no recording ever misses more samples than one cycle has.
THEOREM OneCycleAtMost == Spec => []AtMostOneCycleLost
<1>1. StudioInv => AtMostOneCycleLost
  BY DEF StudioInv, AtMostOneCycleLost, LostInv
<1> QED BY <1>1, StudioInvariant, PTL

\* A set whose elements are all the same has one at most.
LEMMA OneAtMost ==
  ASSUME NEW S, \A x, y \in S : x = y
  PROVE  IsFiniteSet(S) /\ Cardinality(S) \in {0, 1} /\ (S = {} => Cardinality(S) = 0)
<1>1. CASE S = {}
  BY <1>1, FS_EmptySet
<1>2. CASE S # {}
  <2>1. PICK x : S = {x}
    BY <1>2
  <2> QED BY <2>1, FS_Singleton
<1> QED BY <1>1, <1>2

\* "Every other request is held off through diag_busy until it has stopped"
\* (gui.py, live polling): never two requests of the studio's own on one session.
THEOREM RequestsHeldOff == Spec => []HeldOff
<1>1. ASSUME StudioInv PROVE HeldOff
  <2>1. BusyInv /\ LeftInv
    BY <1>1 DEF StudioInv
  <2>2. ASSUME NEW s \in open PROVE Cardinality(Asking(s)) + Cardinality(Polling(s)) <= 1
    <3>1. \A p \in Polling(s) : Mine(p) /\ p # 0
      BY <2>1, <2>2 DEF Polling, LeftInv, Left, Gone, Pollers
    <3>2. poller # 0 => joined = 0
      BY <2>1 DEF BusyInv
    <3>3. \A p, q \in Polling(s) : p = q
      BY <3>1, <3>2 DEF Mine
    <3>4. \A v, w \in Asking(s) : v = w
      BY <2>1 DEF Asking, BusyInv
    <3>5. Asking(s) = {} \/ Polling(s) = {}
      <4>1. work # {} => poller = 0 /\ joined = 0
        BY <2>1 DEF BusyInv
      <4>2. work # {} => Polling(s) = {}
        BY <3>1, <4>1 DEF Mine
      <4> QED BY <4>2 DEF Asking
    <3>6. Cardinality(Asking(s)) \in {0, 1} /\ (Asking(s) = {} => Cardinality(Asking(s)) = 0)
      BY <3>4, OneAtMost
    <3>7. Cardinality(Polling(s)) \in {0, 1} /\ (Polling(s) = {} => Cardinality(Polling(s)) = 0)
      BY <3>3, OneAtMost
    <3> QED BY <3>5, <3>6, <3>7
  <2>3. poller # 0 => busy
    BY <2>1 DEF BusyInv
  <2> QED BY <2>2, <2>3 DEF HeldOff
<1> QED BY <1>1, StudioInvariant, PTL

\* A native session in use on the current link is fed by the capture loop, and
\* an ELM327's is closed by the link only (_obd_close_session, obd_disconnect).
THEOREM SessionsServed == Spec => []SessionServesItsLink
<1>1. ASSUME StudioInv PROVE SessionServesItsLink
  <2>1. FedInv /\ ToolInv /\ LinkKeepsItsSession
    BY <1>1 DEF StudioInv
  <2>2. ASSUME ~ overlapped, Reaches(client), IsNative(client)
        PROVE  client \in extra \/ \E a \in Agents : agent[a].at \in {"leaving", "forgetting"}
    <3>1. client # NoSession
      BY <2>2, Nobody
    <3>2. CASE \E a \in Agents : agent[a].at \in {"leaving", "forgetting"}
      BY <3>2
    <3>3. CASE \A a \in Agents : agent[a].at \notin {"leaving", "forgetting"}
      <4>1. client = tools
        BY <2>1, <2>2, <3>1, <3>3 DEF ToolInv
      <4>2. \A a \in Agents : agent[a].at \in AgentPlaces
        BY <1>1 DEF StudioInv, StudioTypes, AgentRecords
      <4>3. \A a \in Agents : agent[a].at # "holding" /\ agent[a].at # "identifying"
        BY <2>1, <2>2, <3>1 DEF ToolInv
      <4>4. \A a \in Agents : ~ AtWork(a)
        BY <3>3, <4>2, <4>3 DEF AtWork, AgentPlaces
      <4>5. Held(client)
        BY <2>1, <2>2, <3>1, <4>1, <4>4 DEF ToolInv
      <4> QED BY <2>2, <4>5 DEF Held
    <3> QED BY <3>2, <3>3
  <2>3. FedWhileInUse
    BY <2>1, <2>2 DEF FedInv, FedWhileInUse
  <2> QED BY <2>1, <2>3 DEF SessionServesItsLink
<1> QED BY <1>1, StudioInvariant, PTL
=============================================================================
