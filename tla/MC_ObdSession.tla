--------------------------- MODULE MC_ObdSession ---------------------------
(* A vehicle with an engine and a transmission controller. *)
EXTENDS ObdSession, TLC
CONSTANTS engine, gearbox

Ecu == {engine, gearbox}

\* Blocks of four: the support PIDs are 0 and 4, this cycle's status is PID 5.
Blocks == {0, 4}

Controller == [pids : {{}, {1, 3}, {1, 4, 5, 6}}, diesel : BOOLEAN, bitOnlySinceClear : BOOLEAN]

Engine(c, coded) ==
  [pids |-> c.pids, diesel |-> c.diesel, bitOnlySinceClear |-> c.bitOnlySinceClear,
   monitors |-> {1, 2}, complete |-> {1}, frozen |-> coded.dtcs[3] # <<>>,
   dtcs |-> coded.dtcs, counts |-> coded.counts, padding |-> coded.padding,
   info |-> (2 :> <<"nul", "ok", "ok">> @@ 10 :> <<"ok", "other">>)]

NoCodes == (3 :> <<>> @@ 7 :> <<>> @@ 10 :> <<>>)
Codes(ws) == (3 :> ws @@ 7 :> <<>> @@ 10 :> <<>>)

Coded == [dtcs : {NoCodes, Codes(<<<<1, 67>>>>), Codes(<<<<0, 1>>, <<1, 67>>>>),
                  Codes(<<<<1, 1>>, <<1, 2>>>>)},
          counts : BOOLEAN, padding : {<<>>, <<0, 0>>}]

Plain == [dtcs |-> NoCodes, counts |-> TRUE, padding |-> <<>>]

Gearboxes == {[Engine([pids |-> P, diesel |-> FALSE, bitOnlySinceClear |-> FALSE], Plain)
                 EXCEPT !.monitors = M, !.complete = {}, !.info = (2 :> <<>> @@ 10 :> <<"ok">>)] :
              P \in {{1, 4, 6, 7}, {3}}, M \in {{}, {1}}}

Full == [pids |-> {1, 4, 5, 6}, diesel |-> FALSE, bitOnlySinceClear |-> FALSE]

Vehicles(engines, gearboxes) == {(engine :> e @@ gearbox :> g) : e \in engines, g \in gearboxes}

\* The vehicles differ in what they implement or in what codes they send.
Car == Vehicles({Engine(c, Plain) : c \in Controller}, Gearboxes) \cup
       Vehicles({Engine(Full, d) : d \in Coded},
              {g \in Gearboxes : 7 \in g.pids /\ g.monitors = {}})
=============================================================================
