----------------------------- MODULE Envelopes -----------------------------
(***************************************************************************)
(* What a supplier is shown of a request, and when (itaa_policy.disclosure,*)
(* envelopes and isolation).  A payload is a function from the paths of    *)
(* its leaves to their values.  It is reduced to what the parking profile  *)
(* allows, hashed, copied once for each recipient under names scoped to    *)
(* that recipient, and a manifest lists the copies.  Only the manifest is  *)
(* approved; a dispatch is authorized for one supplier at one instant.     *)
(***************************************************************************)
EXTENDS Approvals

CONSTANT Improper   \* the values no leaf may have

----------------------------------------------------------------------------
(* Disclosure: inspect_parking_v1.                                         *)

ScopedLeaves == {"intentId", "buyerToken"}

SelfHash == "disclosure/approvedPayloadHash"

AllowedLeaves == ScopedLeaves \cup {SelfHash} \cup
    {"schemaVersion", "category", "location/airportCode",
     "serviceWindow/start", "serviceWindow/end", "requirements/vehicleClass",
     "requirements/covered", "requirements/shuttleMaxMinutes", "constraints/currency",
     "constraints/accessibility", "disclosure/profile", "solicitation/responseDeadline",
     "solicitation/counteroffersAllowed", "createdAt", "expiresAt"}

Sections == {"location", "serviceWindow", "requirements", "constraints",
             "disclosure", "solicitation"}

\* _walk: fields with a forbidden name and fields the profile does not know
\* are withheld, with everything below them.
Withheld(source) == DOMAIN source \ (AllowedLeaves \cup Sections)

\* _walk and _validate_minimized: a section is an object, every allowed leaf
\* but the hash is there with a proper value, and the windows are not empty.
Proper(source) ==
    /\ DOMAIN source \cap Sections = {}
    /\ \A p \in AllowedLeaves \ {SelfHash} : p \in DOMAIN source /\ source[p] \notin Improper
    /\ source["serviceWindow/start"] < source["serviceWindow/end"]
    /\ source["createdAt"] < source["expiresAt"]

\* inspect_parking_v1 takes the expiry it is given only from the payload.
Inspectable(source, expires) == Proper(source) /\ source["expiresAt"] = expires

\* content_hash_material: what all suppliers are shown alike.
ContentLeaves == AllowedLeaves \ (ScopedLeaves \cup {SelfHash})

Content(payload) == [p \in ContentLeaves |-> payload[p]]

Hash(separator, value) == [separator |-> separator, of |-> value]

ContentHash(payload) == Hash("itaa.disclosure.content.v1", Content(payload))

----------------------------------------------------------------------------
(* The envelope of one recipient.                                          *)

SupplierCapabilities == {"invitation_read", "offer_write", "counteroffer_write"}

\* SupplierResourceScope.__post_init__.
ProperScope(a) == /\ a.from < a.until
                  /\ a.capabilities # {}
                  /\ a.capabilities \subseteq SupplierCapabilities

ScopeOf(a) == [supplier |-> a.supplier, invitation |-> a.invitation, intent |-> a.intent,
               capabilities |-> a.capabilities, from |-> a.from, until |-> a.until]

EnvelopePayload(source, a) ==
    [p \in AllowedLeaves |->
        IF p = "intentId" THEN a.intent
        ELSE IF p = "buyerToken" THEN a.buyer
        ELSE IF p = SelfHash THEN ContentHash(source)
        ELSE source[p]]

EnvelopeHash(payload) == Hash("itaa.supplier.envelope.v1", payload)

\* _build_envelope.
Envelope(source, a) ==
    LET payload == EnvelopePayload(source, a)
    IN  [assignment |-> a, payload |-> payload, content |-> ContentHash(source),
         hash |-> EnvelopeHash(payload), scope |-> ScopeOf(a)]

\* _assert_envelope_consistency: the assignment, the scope and the payload of
\* an envelope name the same supplier, invitation, window and scoped names.
Consistent(e) == /\ e.scope = ScopeOf(e.assignment)
                 /\ e.payload["intentId"] = e.assignment.intent
                 /\ e.payload["buyerToken"] = e.assignment.buyer

----------------------------------------------------------------------------
(* The binding of all recipients of a request: bind_solicitation.          *)

\* No two entries of the list agree in what field gives.
Distinct(list, field(_)) ==
    \A i, j \in DOMAIN list : i # j => field(list[i]) # field(list[j])

NamesDistinct(assignments) ==
    /\ Distinct(assignments, LAMBDA a : a.supplier)
    /\ Distinct(assignments, LAMBDA a : a.invitation)
    /\ Distinct(assignments, LAMBDA a : a.intent)
    /\ Distinct(assignments, LAMBDA a : a.buyer)

Bindable(source, expires, recipients) ==
    /\ Len(recipients) \in 1..MaxRecipients
    /\ NamesDistinct(recipients)
    /\ Inspectable(source, expires)
    /\ \A k \in DOMAIN recipients : /\ Inspectable(source, recipients[k].until)
                                    /\ ProperScope(recipients[k])

Row(e) == [supplier |-> e.assignment.supplier, invitation |-> e.assignment.invitation,
           intent |-> e.assignment.intent, buyer |-> e.assignment.buyer, hash |-> e.hash]

Membership(m) == [content |-> m.content, intent |-> m.intent, version |-> m.version,
                  expires |-> m.expires, recipients |-> m.recipients]

ManifestHash(m) == Hash("itaa.disclosure.manifest.v1", Membership(m))

\* The recipients come in the order of their tokens.
Bind(source, intent, version, expires, recipients) ==
    LET envelopes == [k \in DOMAIN recipients |-> Envelope(source, recipients[k])]
        listed == [content |-> ContentHash(source), intent |-> intent, version |-> version,
                   expires |-> expires,
                   recipients |-> [k \in DOMAIN envelopes |-> Row(envelopes[k])]]
    IN  [envelopes |-> envelopes,
         manifest |-> [content |-> listed.content, intent |-> intent, version |-> version,
                       expires |-> expires, recipients |-> listed.recipients,
                       hash |-> ManifestHash(listed)],
         preview |-> [count |-> Len(recipients), manifest |-> ManifestHash(listed)]]

----------------------------------------------------------------------------
(* Verification for one supplier at one instant: verify_dispatch.          *)

\* _require_manifest_set_binding: rows and envelopes are the same set, under
\* names and hashes that do not repeat.
SetBound(b) ==
    LET rows == b.manifest.recipients
    IN  /\ Len(rows) = Len(b.envelopes)
        /\ Len(rows) = b.preview.count
        /\ NamesDistinct(rows)
        /\ Distinct(rows, LAMBDA r : r.hash)
        /\ NamesDistinct([k \in DOMAIN b.envelopes |-> b.envelopes[k].assignment])
        /\ Distinct(b.envelopes, LAMBDA e : e.hash)
        /\ \A k \in DOMAIN b.envelopes :
              LET e == b.envelopes[k]
              IN  /\ Consistent(e)
                  /\ EnvelopeHash(e.payload) = e.hash
                  /\ e.content = b.manifest.content
                  /\ \E j \in DOMAIN rows : rows[j] = Row(e)

\* The envelope of supplier s in the binding.
Holders(b, s) == {k \in DOMAIN b.envelopes : b.envelopes[k].assignment.supplier = s}

EnvelopeFor(b, s) == b.envelopes[CHOOSE k \in Holders(b, s) : \A j \in Holders(b, s) : k <= j]

Verified(b, s, version, t) ==
    /\ version = b.manifest.version
    /\ b.preview.count = Len(b.envelopes)
    /\ b.preview.manifest = b.manifest.hash
    /\ Holders(b, s) # {}
    /\ LET e == EnvelopeFor(b, s)
       IN  /\ e.payload[SelfHash] = e.content
           /\ e.payload["disclosure/profile"] \notin Improper
           /\ e.assignment.from <= t /\ t < e.assignment.until
           /\ t < e.payload["expiresAt"]
    /\ ManifestHash(b.manifest) = b.manifest.hash
    /\ SetBound(b)

\* authorize_supplier, when nothing it is given is of the wrong type.
SupplierAllowed(scope, supplier, invitation, intent, capability, t) ==
    /\ supplier = scope.supplier
    /\ invitation = scope.invitation
    /\ intent = scope.intent
    /\ scope.from <= t /\ t < scope.until
    /\ capability \in scope.capabilities

----------------------------------------------------------------------------
(* authorize_dispatch: the approval, the envelope and the scope.           *)

DispatchRequest(b, t, buyer) ==
    [kind |-> "PURCHASE_INTENT_DISPATCH", purpose |-> "purchase_intent_dispatch",
     actor |-> buyer, owner |-> buyer, type |-> "purchase_intent",
     resource |-> b.manifest.intent, version |-> b.manifest.version,
     payload |-> b.manifest.hash, occurred |-> t, prior |-> {},
     extra |-> [content_hash |-> b.manifest.content, manifest_hash |-> b.manifest.hash,
                recipient_count |-> Len(b.envelopes),
                solicitation_expires_at |-> b.manifest.expires]]

Approved(resolution, b, t, buyer) ==
    AllowedNow(resolution, DispatchRequest(b, t, buyer))

\* An approval that does not allow is a denial; an envelope that may not be
\* opened raises.
DispatchAuthorized(resolution, b, s, t, buyer) ==
    /\ Approved(resolution, b, t, buyer)
    /\ Verified(b, s, b.manifest.version, t)
    /\ LET e == EnvelopeFor(b, s)
       IN  SupplierAllowed(e.scope, s, e.assignment.invitation, e.assignment.intent,
                           "invitation_read", t)
=============================================================================
