------------------------------- MODULE Events -------------------------------
(***************************************************************************)
(* The event that every transition of an aggregate emits, and its way into *)
(* the audit log.  Four tables have to agree: the transitions of the       *)
(* aggregates, the events of itaa_domain.events, what a step emits of the  *)
(* new aggregate, and the vocabulary of itaa_observability.audit.  The     *)
(* state an event names comes from the table of events, not from the       *)
(* aggregate: nothing in the code compares the two.                        *)
(***************************************************************************)
EXTENDS Aggregates, TLC

----------------------------------------------------------------------------
(* What the reasons of a transition may be.                                *)

CancellationReason == {"buyer_revoked", "buyer_abandoned", "operator_cancelled"}
ClosureReason == {"completed", "superseded"}
RejectionReason == {"ineligible", "invalid_terms", "policy_rejected", "unavailable"}
DeclineReason == {"buyer_declined", "superseded_by_other"}
TransactionDeclineReason == {"buyer_declined", "approval_withheld"}
TransactionFailureReason == {"supplier_unavailable", "authorization_failed",
                             "simulation_rejected"}

\* require_action_reason: an action has a reason of its own kind or is its own.
IntentReasons(action) == IF action = "cancel" THEN CancellationReason
                         ELSE IF action = "close" THEN ClosureReason
                         ELSE {action}

OfferReasons(action) == IF action = "reject" THEN RejectionReason
                        ELSE IF action = "decline" THEN DeclineReason
                        ELSE {action}

TransactionReasons(action) == IF action = "decline" THEN TransactionDeclineReason
                              ELSE IF action = "fail" THEN TransactionFailureReason
                              ELSE {action}

----------------------------------------------------------------------------
(* The events: their state, their reasons, and the identifiers that must,  *)
(* may or must not be on them.                                             *)

Kind(target, reasons, hash) == [target |-> target, reasons |-> reasons, hash |-> hash]

IntentEvents ==
    [confirm            |-> Kind("CONFIRMED", {"confirm"}, "forbidden"),
     cancel             |-> Kind("CANCELLED", CancellationReason, "optional"),
     preview_disclosure |-> Kind("DISCLOSURE_PREVIEWED", {"preview_disclosure"}, "required"),
     approve_dispatch   |-> Kind("APPROVED", {"approve_dispatch"}, "required"),
     dispatch           |-> Kind("DISPATCHED", {"dispatch"}, "required"),
     expire             |-> Kind("EXPIRED", {"expire"}, "required"),
     close              |-> Kind("CLOSED", ClosureReason, "required")]

OfferEvents ==
    [begin_draft   |-> Kind("DRAFT", {"begin_draft"}, "forbidden"),
     submit        |-> Kind("SUBMITTED", {"submit"}, "forbidden"),
     validate      |-> Kind("VALIDATED", {"validate"}, "forbidden"),
     reject        |-> Kind("REJECTED", RejectionReason, "forbidden"),
     counter       |-> Kind("COUNTERED", {"counter"}, "forbidden"),
     resubmit      |-> Kind("SUBMITTED", {"resubmit"}, "forbidden"),
     mark_eligible |-> Kind("ELIGIBLE", {"mark_eligible"}, "forbidden"),
     recommend     |-> Kind("RECOMMENDED", {"recommend"}, "forbidden"),
     accept        |-> Kind("ACCEPTED", {"accept"}, "forbidden"),
     decline       |-> Kind("DECLINED", DeclineReason, "forbidden"),
     expire        |-> Kind("EXPIRED", {"expire"}, "forbidden")]

TransactionEvents ==
    [request_from_acceptance |-> Kind("ACCEPTANCE_PENDING", {"request_from_acceptance"}, "forbidden"),
     require_approval        |-> Kind("APPROVAL_REQUIRED", {"require_approval"}, "forbidden"),
     authorize_simulated     |-> Kind("AUTHORIZED_SIMULATED", {"authorize_simulated"}, "forbidden"),
     decline                 |-> Kind("DECLINED", TransactionDeclineReason, "forbidden"),
     expire                  |-> Kind("EXPIRED", {"expire"}, "forbidden"),
     fail                    |-> Kind("FAILED", TransactionFailureReason, "forbidden")]

Events == [purchase_intent |-> IntentEvents, offer |-> OfferEvents,
           transaction |-> TransactionEvents]

\* Only the offers that are accepted and the transactions name an acceptance.
OfferIdOf(resource) == IF resource = "purchase_intent" THEN "forbidden" ELSE "required"

AcceptanceIdOf(resource, action) ==
    IF resource = "transaction" \/ (resource = "offer" /\ action = "accept")
    THEN "required" ELSE "forbidden"

\* _check_presence.
Presence(there, policy) == /\ policy = "required" => there
                           /\ policy = "forbidden" => ~there

\* DomainEvent.__post_init__.
Constructible(e) ==
    /\ e.action \in DOMAIN Events[e.resource]
    /\ LET spec == Events[e.resource][e.action]
       IN  /\ e.reason \in spec.reasons
           /\ e.target = spec.target
           /\ Presence(e.offer, OfferIdOf(e.resource))
           /\ Presence(e.acceptance, AcceptanceIdOf(e.resource, e.action))
           /\ Presence(e.hash, spec.hash)
    /\ e.version >= 1

----------------------------------------------------------------------------
(* What _transition emits: x is the aggregate after the step.              *)

IntentEvent(x, action, reason) ==
    [resource |-> "purchase_intent", action |-> action, reason |-> reason,
     target |-> IntentEvents[action].target, version |-> x.revision, at |-> x.updated,
     offer |-> FALSE, acceptance |-> FALSE, hash |-> x.hash, approval |-> x.approval,
     simulation |-> FALSE]

OfferEventUnaccepted(x, action, reason) ==   \* mutant of OfferEvent: the acceptance is left out
    [resource |-> "offer", action |-> action, reason |-> reason,
     target |-> OfferEvents[action].target, version |-> x.revision, at |-> x.updated,
     offer |-> TRUE, acceptance |-> FALSE, hash |-> FALSE, approval |-> FALSE,
     simulation |-> TRUE]

OfferEvent(x, action, reason) ==
    [resource |-> "offer", action |-> action, reason |-> reason,
     target |-> OfferEvents[action].target, version |-> x.revision, at |-> x.updated,
     offer |-> TRUE, acceptance |-> x.accepted, hash |-> FALSE, approval |-> FALSE,
     simulation |-> TRUE]

TransactionEvent(x, action, reason) ==
    [resource |-> "transaction", action |-> action, reason |-> reason,
     target |-> TransactionEvents[action].target, version |-> x.revision, at |-> x.updated,
     offer |-> x.acceptance # None, acceptance |-> x.acceptance # None, hash |-> FALSE,
     approval |-> action = "authorize_simulated", simulation |-> TRUE]

----------------------------------------------------------------------------
(* The audit log.                                                          *)

ApprovalDenyReason ==
    {"missing", "inactive", "expired", "not_yet_valid", "actor_mismatch", "owner_mismatch",
     "kind_mismatch", "purpose_mismatch", "resource_mismatch", "version_mismatch",
     "hash_mismatch", "recipient_count_mismatch", "deadline_passed", "approval_reused",
     "mode_forbidden", "action_mismatch", "amount_mismatch", "currency_mismatch",
     "supplier_mismatch", "unknown_kind"}

IsolationReason ==
    {"principal_mismatch", "invitation_mismatch", "scope_mismatch", "capability_denied",
     "expired", "not_yet_valid", "unknown_capability", "unrepresentable"}

WithheldReason ==
    {"withheld_identity", "withheld_raw_content", "withheld_itinerary", "withheld_payment",
     "withheld_preferences", "withheld_budget", "withheld_competitor",
     "withheld_credentials", "denied_unknown_field"}

\* AuditReason: the closed vocabulary.
AuditReasons ==
    {"confirm", "cancel", "preview_disclosure", "approve_dispatch", "dispatch", "expire",
     "close", "begin_draft", "submit", "validate", "reject", "counter", "resubmit",
     "mark_eligible", "recommend", "accept", "decline", "request_from_acceptance",
     "require_approval", "authorize_simulated", "fail", "buyer_revoked", "buyer_abandoned",
     "operator_cancelled", "completed", "superseded", "ineligible", "invalid_terms",
     "policy_rejected", "unavailable", "buyer_declined", "superseded_by_other",
     "approval_withheld", "supplier_unavailable", "authorization_failed",
     "simulation_rejected", "allowed", "reserved", "in_progress", "replayed",
     "request_mismatch", "failed", "expired_replaced", "completion_mismatch"}
    \cup ApprovalDenyReason \cup IsolationReason \cup WithheldReason

Governance(decision, reasons) == [decision |-> decision, reasons |-> reasons]

\* _GOVERNANCE_COMPAT: the decision and the reasons of the other entries.
GovernanceCompat ==
    ("disclosure.allow"     :> Governance("allow", {"allowed"})) @@
    ("disclosure.deny"      :> Governance("deny", WithheldReason)) @@
    ("approval.issue"       :> Governance("record", {"allowed"})) @@
    ("approval.allow"       :> Governance("allow", {"allowed"})) @@
    ("approval.deny"        :> Governance("deny", ApprovalDenyReason)) @@
    ("approval.revoke"      :> Governance("record", {"allowed"})) @@
    ("isolation.allow"      :> Governance("allow", {"allowed"})) @@
    ("isolation.deny"       :> Governance("deny", IsolationReason)) @@
    ("idempotency.reserve"  :> Governance("allow", {"reserved", "expired_replaced"})) @@
    ("idempotency.replay"   :> Governance("replay", {"replayed"})) @@
    ("idempotency.conflict" :> Governance("conflict", {"request_mismatch", "completion_mismatch"})) @@
    ("idempotency.complete" :> Governance("allow", {"completed"})) @@
    ("idempotency.fail"     :> Governance("record", {"failed"}))

\* _EVENT_TYPE_TO_ACTION and EventType: the names of the events in the log.
AuditName(resource, action) == <<resource, action>>
EventNames == UNION {{<<r, a>> : a \in DOMAIN Events[r]} : r \in DOMAIN Events}

\* project_domain_event.
Projected(e) == [action |-> AuditName(e.resource, e.action), decision |-> "record",
                 reasons |-> {e.reason}, version |-> e.version, at |-> e.at,
                 approval |-> e.approval, simulation |-> e.simulation]

\* _assert_compatible, as AuditRecord.__post_init__ calls it.
Recordable(r) ==
    /\ r.reasons # {} /\ r.reasons \subseteq AuditReasons
    /\ IF r.action \in EventNames
       THEN /\ r.decision = "record"
            /\ r.reasons \subseteq Events[r.action[1]][r.action[2]].reasons
       ELSE /\ r.action \in DOMAIN GovernanceCompat
            /\ r.decision = GovernanceCompat[r.action].decision
            /\ r.reasons \subseteq GovernanceCompat[r.action].reasons

\* Whatever the policies give as a reason can be written to the log.
ASSUME VocabularyAssumption ==
    \A action \in DOMAIN GovernanceCompat :
        GovernanceCompat[action].reasons \subseteq AuditReasons

----------------------------------------------------------------------------

\* The event e of a step that led to x in state state is one its constructor
\* takes and the log takes, and it says what happened to x and when.
Told(x, e) == /\ Constructible(e)
              /\ Recordable(Projected(e))
              /\ e.target = x.state
              /\ e.version = x.revision /\ e.at = x.updated

\* Every step of an aggregate is told truthfully and can be audited, whatever
\* reason the caller gives, and so no transition that was admitted is undone
\* by its own event.  The tables of transitions, of events and of audit
\* actions live in three packages; the event takes its target state from the
\* second, and the constructor compares it only with that table itself.
\* (purchase_intent.py:331, offer.py:580, transaction.py:570, events.py:510, audit.py:329)
StepsTold ==
    [][ /\ \A e \in IntentTable :
             intent'.revision # intent.revision /\ e[1] = intent.state /\ e[3] = intent'.state =>
               \A reason \in IntentReasons(e[2]) : Told(intent', IntentEvent(intent', e[2], reason))
        /\ offer # None => \A e \in OfferTable :
             offer'.revision # offer.revision /\ e[1] = offer.state /\ e[3] = offer'.state =>
               \A reason \in OfferReasons(e[2]) : Told(offer', OfferEvent(offer', e[2], reason))
        /\ \A e \in TransactionTable :
             transaction'.revision # transaction.revision /\
             e[1] = transaction.state /\ e[3] = transaction'.state =>
               \A reason \in TransactionReasons(e[2]) :
                   Told(transaction', TransactionEvent(transaction', e[2], reason)) ]_vars
=============================================================================
