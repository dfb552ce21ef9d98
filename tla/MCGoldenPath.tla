------------------------------ MODULE MCGoldenPath ------------------------------
(***************************************************************************)
(* Model-checking instance of GoldenPath.  Approval ids are numbers that   *)
(* are spent in order: a run with the ids renamed is the same run, so the  *)
(* constraint is a symmetry reduction that TLC pays nothing for.           *)
(***************************************************************************)
EXTENDS GoldenPath, TLC

CONSTANT MaxApproval
ASSUME Approval = 1..MaxApproval

ApprovalsInOrder == \A a \in 1..(MaxApproval - 1) : grants[a + 1] # None => grants[a] # None

\* Two requests that compete, or one that is offered alternatives: a request
\* reads no offer but its own, so the two questions are asked apart.
TwoRequestsOrOffers ==
    \/ Cardinality({i \in Intent : sessions[i] # None}) <= 1
    \/ Cardinality({o \in Offer : \E i \in Intent :
                      sessions[i] # None /\ sessions[i].offers[o] # None}) <= 1

\* Requests and offers are only compared.
Symmetry == Permutations(Intent) \cup Permutations(Offer)
=============================================================================
