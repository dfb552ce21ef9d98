------------------------------- MODULE Views -------------------------------
(***************************************************************************)
(* What a buyer is shown of a request: the booking task, its parent intent *)
(* and the cost ledger that itaa_application.orchestration projects from a *)
(* golden-path session.  The projections keep no state of their own, but   *)
(* they speak of state machines (booking_task_states, intent_states) that  *)
(* no handler drives, so nothing but the properties below says that a      *)
(* session, as it moves, shows a legal run of them.                        *)
(*                                                                         *)
(* Amounts are named by the offer they come from.                          *)
(***************************************************************************)
EXTENDS GoldenPath

VARIABLES
    collection,   \* the requests whose session holds a supplier collection
    ranked,       \* decision.result.ranked: request -> offers that ranking took
    lapsed        \* the offers that had run out when their request last moved

viewVars == <<vars, collection, ranked, lapsed>>

----------------------------------------------------------------------------
(* Booking tasks.                                                          *)

LiveOnly == {"authorized_live", "booking_pending", "confirmed_booking", "booking_failed"}
Attention == {"missing_details", "a1_review", "a1_blocked", "a2_required",
              "a3_review", "a3_ineligible", "a4_required", "a4_failed"}
OfferReady == {"offers_ready", "offers_expiring"}
InProgress == {"public_research", "researching", "supplier_timeout", "no_offer", "superseded"}
SimulationTerminal == {"authorized_simulated", "cancelled", "failed"}

BookingTask == LiveOnly \cup Attention \cup OfferReady \cup InProgress \cup SimulationTerminal
               \cup {"proposed", "offers_expired", "paused", "offline_readonly"}

\* BOOKING_TASK_TRANSITIONS without the names of the actions.
TaskTable ==
    LET from(s, targets) == {s} \X targets IN
    UNION {
      from("proposed", {"missing_details", "a1_review"}),
      from("missing_details", {"a1_review"}),
      from("a1_review", {"a2_required", "a1_blocked", "public_research", "cancelled"}),
      from("a1_blocked", {"a1_review"}),
      from("a2_required", {"researching", "public_research", "cancelled", "paused"}),
      from("researching", {"offers_ready", "supplier_timeout", "no_offer", "failed"}),
      from("offers_ready", {"offers_expiring", "offers_expired", "a3_review", "cancelled",
                            "paused", "superseded", "offline_readonly"}),
      from("offers_expiring", {"offers_expired", "a3_review"}),
      from("offers_expired", {"a3_ineligible"}),
      from("superseded", {"a3_ineligible"}),
      from("a3_review", {"a4_required", "cancelled", "superseded"}),
      from("a4_required", {"a4_failed", "authorized_simulated", "authorized_live",
                           "cancelled", "failed", "superseded"}),
      from("a4_failed", {"a4_required"}),
      from("authorized_live", {"booking_pending"}),
      from("booking_pending", {"confirmed_booking", "booking_failed"})}

\* apply_booking_task_transition, which in a simulation refuses the live states.
SimulatedStep == {e \in TaskTable : e[2] \notin LiveOnly} \cup {<<s, s>> : s \in BookingTask}

Twice(P) == UNION {{<<p[1], q[2]>> : q \in {r \in P : r[1] = p[2]}} : p \in P}

\* The pairs of states that a sequence of up to 32 such steps connects.
SimulatedPath ==
    LET two == Twice(SimulatedStep)
        four == Twice(two)
        eight == Twice(four)
        sixteen == Twice(eight)
    IN  Twice(sixteen)

----------------------------------------------------------------------------
(* The parent of tasks in the given accepted states.                       *)

LiveAuth == {"authorized_live", "booking_pending"}
LiveCompletion == {"confirmed_booking", "cancelled", "failed", "booking_failed"}

ProjectIntentState(overlay, present) ==
    IF overlay # "none" THEN overlay
    ELSE IF present = {} THEN "draft"
    ELSE IF present \subseteq {"failed", "cancelled"} /\ "failed" \in present THEN "failed"
    ELSE IF present \subseteq LiveCompletion /\ "confirmed_booking" \in present THEN "completed"
    ELSE IF present \subseteq SimulationTerminal THEN "completed_simulated"
    ELSE IF "confirmed_booking" \in present THEN "partially_booked"
    ELSE IF present \cap LiveAuth # {} THEN "partially_authorized_live"
    ELSE IF "authorized_simulated" \in present THEN "partially_authorized_simulated"
    ELSE IF present \cap Attention # {} THEN "attention"
    ELSE IF present \cap OfferReady # {} THEN "offers_ready"
    ELSE IF present \cap (InProgress \cup {"offers_expired"}) # {} THEN "in_progress"
    ELSE "planning"

\* One task decides what none of the others can hide, as a reference for the
\* cascade: over any one, two or three tasks a parent is complete only if each
\* of them has ended, it says live or booked only if a task is, and it asks
\* for attention only if a task does.
ASSUME ProjectionFaithful ==
    \A s, t, u \in BookingTask :
       LET parent == ProjectIntentState("none", {s, t, u}) IN
       /\ parent \in {"completed", "completed_simulated", "failed"}
             => {s, t, u} \cap (Attention \cup OfferReady \cup InProgress \cup LiveAuth) = {}
       /\ parent \in {"completed", "partially_booked"} => "confirmed_booking" \in {s, t, u}
       /\ parent = "partially_authorized_live" => {s, t, u} \cap LiveAuth # {}
       /\ parent = "attention" => {s, t, u} \cap Attention # {}
       /\ {s, t, u} \cap LiveOnly = {}
             => parent \notin {"completed", "partially_booked", "partially_authorized_live"}

----------------------------------------------------------------------------
(* map_buyer_session and what is read through it.                          *)

Dispatched(i) == \/ i \in collection
                 \/ \E o \in Offer : sessions[i].offers[o] # None
                 \/ sessions[i].state = "SUPERSEDED"

TaskStateAhead(s) ==   \* mutant of TaskState: an acceptance is shown as the authorization it allows
    CASE s.state = "AWAITING_REQUIREMENT_CONFIRMATION" -> "a1_review"
      [] s.state = "AWAITING_DISPATCH_APPROVAL" -> "a2_required"
      [] s.state = "OFFERS_RANKED" -> "offers_ready"
      [] s.state \in {"ACCEPTANCE_RECORDED", "TRANSACTION_AUTHORIZED_SIMULATED"} -> "authorized_simulated"
      [] s.state = "CANCELLED" -> "cancelled"
      [] s.state = "SUPERSEDED" -> "superseded"

TaskState(s) ==
    CASE s.state = "AWAITING_REQUIREMENT_CONFIRMATION" -> "a1_review"
      [] s.state = "AWAITING_DISPATCH_APPROVAL" -> "a2_required"
      [] s.state = "OFFERS_RANKED" -> "offers_ready"
      [] s.state = "ACCEPTANCE_RECORDED" -> "a4_required"
      [] s.state = "TRANSACTION_AUTHORIZED_SIMULATED" -> "authorized_simulated"
      [] s.state = "CANCELLED" -> "cancelled"
      [] s.state = "SUPERSEDED" -> "superseded"

Overlay(i) == CASE sessions[i].state = "SUPERSEDED" -> "cancelled"
                [] sessions[i].state = "CANCELLED" ->
                      IF Dispatched(i) THEN "cancelled" ELSE "deleted"
                [] OTHER -> "none"

\* Every plan has one task, which is accepted.
Parent(i) == ProjectIntentState(Overlay(i), {TaskState(sessions[i])})

\* The decision keeps naming the winner of the ranking when it is accepted.
Recommended(i) ==
    LET marked == {o \in ranked[i] : sessions[i].offers[o].state = "RECOMMENDED"}
    IN  IF marked # {} \/ sessions[i].acceptance = None THEN marked
        ELSE {sessions[i].acceptance.offer} \cap ranked[i]

AcceptedOffer(i) ==
    IF sessions[i].acceptance = None THEN {} ELSE {sessions[i].acceptance.offer}

\* _ledger_task: the ledger knows the offers of the snapshot only, so an offer
\* that was accepted without having been ranked is selected in none of its rows.
Selected(i) == AcceptedOffer(i) \cap ranked[i]

Row(authorized, selected, estimated) ==
    [authorizedSimulated |-> authorized, selectedNotAuthorized |-> selected,
     estimated |-> estimated]

LedgerRowOfWinner(i) ==   \* mutant of LedgerRow: what was recommended stands for what was selected
    CASE TaskState(sessions[i]) = "authorized_simulated" -> Row(Recommended(i), {}, {})
      [] TaskState(sessions[i]) = "a4_required" -> Row({}, Recommended(i), {})
      [] TaskState(sessions[i]) \in {"offers_ready", "a1_review", "a2_required"} ->
            Row({}, {}, Recommended(i))
      [] OTHER -> Row({}, {}, {})

\* _row_for: the offer each bucket of the ledger takes its amount from.
LedgerRow(i) ==
    CASE TaskState(sessions[i]) = "authorized_simulated" ->
            Row(IF Selected(i) # {} THEN Selected(i) ELSE Recommended(i), {}, {})
      [] TaskState(sessions[i]) = "a4_required" -> Row({}, Selected(i), {})
      [] TaskState(sessions[i]) \in {"offers_ready", "a1_review", "a2_required"} ->
            Row({}, {}, Recommended(i))
      [] OTHER -> Row({}, {}, {})

----------------------------------------------------------------------------
(* The snapshot of a request, which every call of the facade answers with. *)

\* _buyer_validity, at the instant the purchase intent was last moved: an
\* offer that has run out since is still shown as valid.
Validity(i, o) == IF <<i, o>> \in lapsed THEN "expired" ELSE "valid"

\* _buyer_transaction_result.
TransactionResult(i, o) ==
    IF sessions[i].state = "TRANSACTION_AUTHORIZED_SIMULATED" /\ o \in AcceptedOffer(i)
    THEN "authorized_simulated" ELSE "simulated"

\* to_buyer_offer.  The offers shown are those that were ranked, not all that
\* may be accepted.
BuyerOffer(i, o) == [recommended |-> o \in Recommended(i),
                     validity    |-> Validity(i, o),
                     result      |-> TransactionResult(i, o)]

Snapshot(i) ==
    [offers      |-> [o \in ranked[i] |-> BuyerOffer(i, o)],
     recommended |-> Recommended(i),
     acceptance  |-> AcceptedOffer(i),
     transaction |-> sessions[i].receipt # None]

----------------------------------------------------------------------------

ViewInit == /\ Init
            /\ collection = {}
            /\ ranked = [i \in Intent |-> {}]
            /\ lapsed = {}

\* The requests that the step dispatches, and those whose intent it moves.
Asked == {i \in Rows : sessions[i].pi = "CONFIRMED" /\ sessions'[i].pi = "DISPATCHED"}
Moved == {i \in Rows : sessions'[i] # None /\ sessions'[i].pi # sessions[i].pi}

\* rank_offers drops what the buyer's need excludes; the winner is the first of
\* what is left.
Rankings(quotes) ==
    LET mapped == {o \in Offer : quotes[o] # None}
        winner == {o \in mapped : quotes[o].state = "RECOMMENDED"}
    IN  IF winner = {} THEN {{}} ELSE {R \in SUBSET mapped : winner \subseteq R}

\* The dispatch stores its collection in the session, with or without offers,
\* and the decision, which no later step touches.
ViewNext == /\ Next
            /\ collection' = {i \in Intent : /\ sessions'[i] # None
                                             /\ \/ i \in collection
                                                \/ sessions'[i].state = "OFFERS_RANKED"}
            /\ \E rankings \in [Asked -> SUBSET Offer] :
                  /\ \A i \in Asked : rankings[i] \in Rankings(sessions'[i].offers)
                  /\ ranked' = [i \in Intent |-> IF i \in Asked THEN rankings[i] ELSE ranked[i]]
            /\ lapsed' = lapsed \cup {m \in Moved \X Offer :
                                        LET quote == sessions'[m[1]].offers[m[2]]
                                        IN  quote # None /\ now >= quote.until}

ViewSpec == ViewInit /\ [][ViewNext]_viewVars

----------------------------------------------------------------------------

\* A buyer is told that a request is deleted only if nothing of it was ever
\* disclosed; once a dispatch was approved, a cancelled request stays cancelled.
DeletedUndisclosed ==
    \A i \in Rows :
       Parent(i) = "deleted" =>
          \A a \in sessions[i].used :
             grants[a] # None => grants[a].kind # "PURCHASE_INTENT_DISPATCH"

\* The ledger never shows money as authorized before a receipt was issued, nor
\* as selected of a request that was closed or has its receipt.  Of an accepted
\* offer that was ranked it shows that offer's money, as selected until the
\* receipt and as authorized after it; of one that was not, it shows none as
\* selected and can show only the recommended offer's as authorized, and the
\* snapshot then marks no offer as authorized.  The snapshot names the offer
\* accepted whether it was ranked or not, recommends one of the offers it
\* shows, and calls an offer expired only when nobody can take it up any more.
LedgerTruthful ==
    \A i \in Rows : LET s == sessions[i]
                        shown == Snapshot(i)
                        accepted == IF s.acceptance = None THEN {} ELSE {s.acceptance.offer}
                        row == LedgerRow(i) IN
       /\ s.receipt = None => row.authorizedSimulated = {}
       /\ s.receipt # None => row.authorizedSimulated =
             IF accepted \subseteq ranked[i] THEN accepted ELSE shown.recommended
       /\ row.selectedNotAuthorized =
             IF s.receipt = None /\ s.state \notin Closed THEN accepted \cap ranked[i] ELSE {}
       /\ row.estimated # {} => s.state = "OFFERS_RANKED"
       /\ {o \in ranked[i] : shown.offers[o].result = "authorized_simulated"} =
             IF s.receipt # None THEN accepted \cap ranked[i] ELSE {}
       /\ shown.transaction => shown.acceptance # {} /\ shown.acceptance = accepted
       /\ ranked[i] # {} => \E o \in ranked[i] : shown.recommended = {o}
       /\ \A o \in ranked[i] : shown.offers[o].validity = "expired" =>
             /\ s.state \in Closed
             /\ now >= s.offers[o].until

\* What a buyer is told of a request is what happened to it: that it is gone, and,
\* as far as the ledger knows the offer that was accepted, what it has cost.
ShownTruthfully == DeletedUndisclosed /\ LedgerTruthful

Changed == {i \in Intent : <<sessions[i], i \in collection>>' # <<sessions[i], i \in collection>>}

\* As a session moves, the task shown for it goes only where a sequence of the
\* transitions legal in a simulation leads (booking_task_states.py:115,
\* ADR-0006-intent-first-orchestration.md:50), from proposed when it is new.
TaskMoves ==
    [][\A i \in Changed :
          sessions'[i] # None =>
             <<IF sessions[i] = None THEN "proposed" ELSE TaskState(sessions[i]),
               TaskState(sessions'[i])>> \in SimulatedPath]_vars

\* A parent that was shown as over is never shown as anything else.
ParentSettled ==
    [][\A i \in Rows \cap Changed :
          Parent(i) \in {"deleted", "cancelled", "completed_simulated"} =>
             sessions'[i] # None /\ Parent(i)' = Parent(i)]_viewVars
=============================================================================
