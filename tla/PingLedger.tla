----------------------------- MODULE PingLedger -----------------------------
(***************************************************************************)
(* What a ping ledger promises, whatever threads keep it: a ping that was  *)
(* opened ends at most once, answered or dropped, no number is opened      *)
(* twice, and the count of answers grows by answers only.                  *)
(***************************************************************************)
EXTENDS Naturals

CONSTANTS Tools, Numbers

VARIABLES outcome,   \* of each tool's pings: "none", "open", "answered", "dropped"
          counted    \* answers counted since the counters were reset

vars == <<outcome, counted>>

Init == /\ outcome = [t \in Tools |-> [n \in Numbers |-> "none"]]
        /\ counted = [t \in Tools |-> 0]

\* Pings may be given up as another one is opened.
Open(t, n, N) ==
  /\ outcome[t][n] = "none" /\ \A m \in Numbers : m > n => outcome[t][m] = "none"
  /\ \A m \in N : outcome[t][m] = "open"
  /\ outcome' = [outcome EXCEPT ![t] = [m \in Numbers |->
                   IF m = n THEN "open" ELSE IF m \in N THEN "dropped" ELSE @[m]]]
  /\ UNCHANGED counted

Answer(t, n) == /\ outcome[t][n] = "open"
                /\ outcome' = [outcome EXCEPT ![t][n] = "answered"]
                /\ counted' = [counted EXCEPT ![t] = @ + 1]

\* Pings given up: their time is over, they could not be sent, or all is reset.
Drop(t, N) == /\ \A n \in N : outcome[t][n] = "open"
              /\ outcome' = [outcome EXCEPT ![t] =
                               [n \in Numbers |-> IF n \in N THEN "dropped" ELSE @[n]]]
              /\ counted' \in {counted, [counted EXCEPT ![t] = 0]}

\* An answer on its way to be counted when the counters are reset counts after.
Restart(t) == /\ counted' \in {[counted EXCEPT ![t] = k] : k \in {0, 1}}
              /\ counted'[t] <= counted[t]
              /\ UNCHANGED outcome

Next == \E t \in Tools :
          \/ \E n \in Numbers : Answer(t, n)
          \/ \E N \in SUBSET Numbers : Drop(t, N) \/ \E n \in Numbers : Open(t, n, N)
          \/ Restart(t)

Spec == Init /\ [][Next]_vars
=============================================================================
