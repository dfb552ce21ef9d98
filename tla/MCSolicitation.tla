---------------------------- MODULE MCSolicitation ----------------------------
(***************************************************************************)
(* Model-checking instance of Solicitation: offers after those of the      *)
(* contract fixtures, and variants of them that compete or are not         *)
(* attested.  A score of 1000 stands for the code's 1000000.  What the     *)
(* suppliers answer is held against the buyer's table by MCSupply.         *)
(***************************************************************************)
EXTENDS Solicitation, MCSupply

CONSTANTS i1, i2, improper

MCIntent == {i1, i2}
MCImproper == {improper}

Value == [total |-> 119, shuttle |-> 15, distance |-> 24, lot |-> "uncovered", addOns |-> {},
          cancellation |-> "free_until_24h", refund |-> "original_method",
          evidence |-> {"supplier_policy"}, available |-> TRUE, attested |-> TRUE]

Premium == [Value EXCEPT !.total = 148, !.shuttle = 8, !.distance = 29, !.lot = "covered",
                         !.addOns = {"ev_charging"}]

Flexible == [Value EXCEPT !.total = 169, !.shuttle = 5, !.distance = 9, !.lot = "garage",
                          !.addOns = {"indoor_walkway"}, !.cancellation = "free_until_48h"]

MCMenu == <<{Value, [Value EXCEPT !.attested = FALSE]},
            {Premium},
            {Flexible, [Premium EXCEPT !.total = 138]}>>

MCValidity == <<1, 2, 2>>
MCReliability == <<700, 950, 950>>
MCExpires == i1 :> 3 @@ i2 :> 4
MCPayload == [p \in AllowedLeaves |->
                IF p = "serviceWindow/end" THEN 9
                ELSE IF p \in {"createdAt", "expiresAt", "serviceWindow/start",
                               "solicitation/responseDeadline"} THEN 0
                ELSE p]
MCNeed == [covered |-> "preferred", addOns |-> {"ev_charging"}, shuttle |-> 20]
=============================================================================
