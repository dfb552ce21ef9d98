----------------------------- MODULE Approvals -----------------------------
(***************************************************************************)
(* What an approval allows (itaa_policy.approvals): the grants and the     *)
(* requests their constructors let through, and the decision on a request  *)
(* under a grant.  The fields a kind demands are the domain of "extra", so *)
(* that a field which must be absent is one that is not there.  A hash is  *)
(* what was hashed: the digests are taken to have no collisions.           *)
(***************************************************************************)
EXTENDS Naturals, FiniteSets, Sequences

CONSTANT None

MaxRecipients == 3

ApprovalKinds == {"REQUIREMENT_CONFIRMATION", "PURCHASE_INTENT_DISPATCH",
                  "OFFER_ACCEPTANCE", "TRANSACTION_AUTHORIZATION"}

KindPurpose == [REQUIREMENT_CONFIRMATION |-> "requirement_confirmation",
                PURCHASE_INTENT_DISPATCH |-> "purchase_intent_dispatch",
                OFFER_ACCEPTANCE |-> "offer_acceptance",
                TRANSACTION_AUTHORIZATION |-> "transaction_authorization"]

KindResource == [REQUIREMENT_CONFIRMATION |-> "requirement",
                 PURCHASE_INTENT_DISPATCH |-> "purchase_intent",
                 OFFER_ACCEPTANCE |-> "offer",
                 TRANSACTION_AUTHORIZATION |-> "transaction"]

\* The fields of a kind, and the one that says until when it may be used.
KindFields ==
    [REQUIREMENT_CONFIRMATION |-> {},
     PURCHASE_INTENT_DISPATCH |-> {"content_hash", "manifest_hash", "recipient_count",
                                   "solicitation_expires_at"},
     OFFER_ACCEPTANCE |-> {"intent_id", "offer_id", "offer_version", "terms_hash",
                           "offer_valid_until"},
     TRANSACTION_AUTHORIZATION |-> {"acceptance_id", "action", "amount_minor", "currency",
                                    "supplier_token", "mode", "request_hash",
                                    "decision_expires_at"}]

KindDeadline == [PURCHASE_INTENT_DISPATCH |-> "solicitation_expires_at",
                 OFFER_ACCEPTANCE |-> "offer_valid_until",
                 TRANSACTION_AUTHORIZATION |-> "decision_expires_at"]

\* x is a grant or a request: what it names as its resource and as what is
\* approved of it is what its kind's own fields say.
KindFieldsAgree(x) ==
    /\ DOMAIN x.extra = KindFields[x.kind]
    /\ x.kind = "PURCHASE_INTENT_DISPATCH" =>
          /\ x.payload = x.extra["manifest_hash"]
          /\ x.extra["recipient_count"] \in 1..MaxRecipients
    /\ x.kind = "OFFER_ACCEPTANCE" =>
          /\ x.resource = x.extra["offer_id"]
          /\ x.payload = x.extra["terms_hash"]
    /\ x.kind = "TRANSACTION_AUTHORIZATION" =>
          /\ x.resource = x.extra["acceptance_id"]
          /\ x.payload = x.extra["request_hash"]
          /\ x.extra["mode"] = "simulated"
          /\ x.extra["action"] = "reserve_parking"

\* ApprovalGrant.__post_init__: the buyer approves for itself, and what is
\* approved ends with the approval at the latest.
ValidGrant(g) ==
    /\ g.kind \in ApprovalKinds
    /\ g.actor = g.owner
    /\ g.purpose = KindPurpose[g.kind]
    /\ g.type = KindResource[g.kind]
    /\ g.issued < g.expires
    /\ KindFieldsAgree(g)
    /\ g.kind \in DOMAIN KindDeadline =>
          LET deadline == g.extra[KindDeadline[g.kind]]
          IN  g.issued < deadline /\ deadline <= g.expires

\* ApprovalRequest.__post_init__: only an authorization has prior approvals.
ValidRequest(r) ==
    /\ r.kind \in ApprovalKinds
    /\ KindFieldsAgree(r)
    /\ r.kind # "TRANSACTION_AUTHORIZATION" => r.prior = {}

----------------------------------------------------------------------------
(* validate_approval.  Which check gives the reason of a denial is left    *)
(* out: a request is allowed when none of them fails.                      *)

BasicAgree(g, r) ==
    /\ g.issued <= r.occurred /\ r.occurred < g.expires
    /\ g.kind = r.kind
    /\ g.purpose = r.purpose
    /\ g.actor = r.actor
    /\ g.owner = r.owner
    /\ g.type = r.type /\ g.resource = r.resource
    /\ g.version = r.version
    /\ g.payload = r.payload

DispatchAgrees(g, r) ==
    /\ g.extra["content_hash"] = r.extra["content_hash"]
    /\ g.extra["manifest_hash"] = r.extra["manifest_hash"]
    /\ g.extra["recipient_count"] = r.extra["recipient_count"]
    /\ g.extra["solicitation_expires_at"] = r.extra["solicitation_expires_at"]
    /\ r.occurred < g.extra["solicitation_expires_at"]

AcceptanceAgrees(g, r) ==
    /\ g.extra["intent_id"] = r.extra["intent_id"]
    /\ g.extra["offer_id"] = r.extra["offer_id"]
    /\ g.extra["offer_version"] = r.extra["offer_version"]
    /\ g.extra["terms_hash"] = r.extra["terms_hash"]
    /\ g.extra["offer_valid_until"] = r.extra["offer_valid_until"]
    /\ r.occurred < g.extra["offer_valid_until"]

AuthorizationAgrees(g, r) ==
    /\ g.approval \notin r.prior
    /\ r.extra["mode"] = "simulated" /\ g.extra["mode"] = "simulated"
    /\ g.extra["action"] = r.extra["action"] /\ r.extra["action"] = "reserve_parking"
    /\ g.extra["amount_minor"] = r.extra["amount_minor"]
    /\ g.extra["currency"] = r.extra["currency"]
    /\ g.extra["supplier_token"] = r.extra["supplier_token"]
    /\ g.extra["acceptance_id"] = r.extra["acceptance_id"]
    /\ g.extra["request_hash"] = r.extra["request_hash"]
    /\ g.extra["decision_expires_at"] = r.extra["decision_expires_at"]
    /\ r.occurred < g.extra["decision_expires_at"]

Allowed(g, r) ==
    /\ g # None
    /\ BasicAgree(g, r)
    /\ g.kind = "PURCHASE_INTENT_DISPATCH" => DispatchAgrees(g, r)
    /\ g.kind = "OFFER_ACCEPTANCE" => AcceptanceAgrees(g, r)
    /\ g.kind = "TRANSACTION_AUTHORIZATION" => AuthorizationAgrees(g, r)

\* ApprovalService.validate and DispatchService.authorize first resolve the
\* approval: a revoked one allows nothing, whatever it says.
AllowedNow(resolution, r) == ~resolution.revoked /\ Allowed(resolution.grant, r)

----------------------------------------------------------------------------

\* r asks for what g grants: nothing a request says is left to the caller but
\* when it occurs, and a request for something else is not let through.
SameConsent(g, r) ==
    /\ g.kind = r.kind /\ g.purpose = r.purpose
    /\ g.actor = r.actor /\ g.owner = r.owner
    /\ g.type = r.type /\ g.resource = r.resource
    /\ g.version = r.version /\ g.payload = r.payload
    /\ \A f \in KindFields[g.kind] : g.extra[f] = r.extra[f]

\* The instants at which g may be used.
InForceAt(g, t) ==
    /\ g.issued <= t /\ t < g.expires
    /\ g.kind \in DOMAIN KindDeadline => t < g.extra[KindDeadline[g.kind]]
=============================================================================
