--------------------------- MODULE MCAgentSession ---------------------------
(***************************************************************************)
(* The booking chat for TLC: request threads, a flight and a parking       *)
(* search (the other run adds a hotel), and a few requests of the client.  *)
(* Threads are alike, and so are requirements: they are only compared.     *)
(***************************************************************************)
EXTENDS AgentSession, TLC

CONSTANTS q1, q2, n1, n2

\* everything is known at the start, or all but the parking window
MCOpenings == UNION {{[c \in Capabilities |-> IF c = "parking" THEN window ELSE need] :
                          window \in {need, Unknown}} : need \in Needs}

Symmetry == Permutations({q1, q2}) \cup Permutations({n1, n2})

=============================================================================
