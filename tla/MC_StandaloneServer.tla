------------------------ MODULE MC_StandaloneServer ------------------------
(* The agents' servers: two agents, two links, one native session. *)
EXTENDS StandaloneServer, TLC
CONSTANTS a1, a2
Agent == {a1, a2}
=============================================================================
