-------------------------------- MODULE MCViews --------------------------------
(***************************************************************************)
(* Model-checking instance of Views, and of GoldenPath underneath it.      *)
(***************************************************************************)
EXTENDS Views, MCGoldenPath

\* A second request is only watched next to one whose offers all were ranked.
TwoRequestsOrRankings ==
    \/ Cardinality(Rows) <= 1
    \/ \A i \in Rows : \A o \in Offer : sessions[i].offers[o] # None => o \in ranked[i]
================================================================================
