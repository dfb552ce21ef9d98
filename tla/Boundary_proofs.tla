-------------------------- MODULE Boundary_proofs --------------------------
(***************************************************************************)
(* What crosses the line between the buyer and the suppliers.  Outwards:   *)
(* what the approvals and the envelopes promise, for every grant, request, *)
(* payload and list of recipients.  The bindings are any records of the    *)
(* right shape, not only those that Bind makes: what is verified is what   *)
(* the code verifies before it calls a supplier.  Inwards: that an offer   *)
(* of a supplier that keeps its policy is believed, for every policy.      *)
(* And the dispatch between them, for every number of requests, menu of    *)
(* terms, validity, capacity and scale: its terminals, its accounts, what  *)
(* a moving clock can cost, and the offer it recommends.                   *)
(***************************************************************************)
EXTENDS Solicitation, Supply, SequenceTheorems, FiniteSetTheorems, TLAPS

(* An approval lets a request through only if it was given for exactly     *)
(* that: every field of its kind is compared, and the instant is one at    *)
(* which both the approval and what it approves are in force               *)
(* (approvals.py:601-718).                                                 *)
THEOREM AllowedIsExact ==
  ASSUME NEW g, NEW r, ValidGrant(g), Allowed(g, r)
  PROVE  SameConsent(g, r) /\ InForceAt(g, r.occurred)
  <1>1. BasicAgree(g, r)
    BY DEF Allowed
  <1>2. g.kind \in ApprovalKinds
    BY DEF ValidGrant
  <1>3. CASE g.kind = "REQUIREMENT_CONFIRMATION"
    <2>1. KindFields[g.kind] = {}
      BY <1>3 DEF KindFields
    <2>2. g.kind \notin DOMAIN KindDeadline
      BY <1>3 DEF KindDeadline
    <2>. QED  BY <1>1, <2>1, <2>2 DEF BasicAgree, SameConsent, InForceAt
  <1>4. CASE g.kind = "PURCHASE_INTENT_DISPATCH"
    <2>1. DispatchAgrees(g, r)
      BY <1>4 DEF Allowed
    <2>2. \A f \in KindFields[g.kind] : g.extra[f] = r.extra[f]
      BY <1>4, <2>1 DEF KindFields, DispatchAgrees
    <2>3. KindDeadline[g.kind] = "solicitation_expires_at"
      BY <1>4 DEF KindDeadline
    <2>4. r.occurred < g.extra[KindDeadline[g.kind]]
      BY <2>1, <2>3 DEF DispatchAgrees
    <2>. QED  BY <1>1, <2>2, <2>4 DEF BasicAgree, SameConsent, InForceAt
  <1>5. CASE g.kind = "OFFER_ACCEPTANCE"
    <2>1. AcceptanceAgrees(g, r)
      BY <1>5 DEF Allowed
    <2>2. \A f \in KindFields[g.kind] : g.extra[f] = r.extra[f]
      BY <1>5, <2>1 DEF KindFields, AcceptanceAgrees
    <2>3. KindDeadline[g.kind] = "offer_valid_until"
      BY <1>5 DEF KindDeadline
    <2>4. r.occurred < g.extra[KindDeadline[g.kind]]
      BY <2>1, <2>3 DEF AcceptanceAgrees
    <2>. QED  BY <1>1, <2>2, <2>4 DEF BasicAgree, SameConsent, InForceAt
  <1>6. CASE g.kind = "TRANSACTION_AUTHORIZATION"
    <2>1. AuthorizationAgrees(g, r)
      BY <1>6 DEF Allowed
    <2>2. \A f \in KindFields[g.kind] : g.extra[f] = r.extra[f]
      BY <1>6, <2>1 DEF KindFields, AuthorizationAgrees
    <2>3. KindDeadline[g.kind] = "decision_expires_at"
      BY <1>6 DEF KindDeadline
    <2>4. r.occurred < g.extra[KindDeadline[g.kind]]
      BY <2>1, <2>3 DEF AuthorizationAgrees
    <2>. QED  BY <1>1, <2>2, <2>4 DEF BasicAgree, SameConsent, InForceAt
  <1>. QED  BY <1>2, <1>3, <1>4, <1>5, <1>6 DEF ApprovalKinds

(* Two requests that one approval lets through differ at most in when they *)
(* occur and in the approvals that came before.                            *)
THEOREM OneConsentOneRequest ==
  ASSUME NEW g, NEW r, NEW q, ValidGrant(g), Allowed(g, r), Allowed(g, q),
         ValidRequest(r), ValidRequest(q)
  PROVE  /\ r.kind = q.kind /\ r.purpose = q.purpose
         /\ r.actor = q.actor /\ r.owner = q.owner
         /\ r.type = q.type /\ r.resource = q.resource
         /\ r.version = q.version /\ r.payload = q.payload
         /\ DOMAIN r.extra = DOMAIN q.extra
         /\ \A f \in DOMAIN r.extra : r.extra[f] = q.extra[f]
  <1>1. SameConsent(g, r) /\ SameConsent(g, q)
    BY AllowedIsExact
  <1>2. DOMAIN r.extra = KindFields[g.kind] /\ DOMAIN q.extra = KindFields[g.kind]
    BY <1>1 DEF ValidRequest, KindFieldsAgree, SameConsent
  <1>. QED  BY <1>1, <1>2 DEF SameConsent

----------------------------------------------------------------------------

LEMMA HolderUnique ==
  ASSUME NEW b, NEW s, SetBound(b), NEW i \in Holders(b, s), NEW j \in Holders(b, s)
  PROVE  i = j
  <1>. DEFINE assignments == [k \in DOMAIN b.envelopes |-> b.envelopes[k].assignment]
  <1>1. NamesDistinct(assignments)
    BY DEF SetBound
  <1>2. \A k, l \in DOMAIN assignments :
           k # l => assignments[k].supplier # assignments[l].supplier
    BY <1>1 DEF NamesDistinct, Distinct
  <1>. QED  BY <1>2 DEF Holders

LEMMA HolderFound ==
  ASSUME NEW b, NEW s, DOMAIN b.envelopes \subseteq Nat, SetBound(b), Holders(b, s) # {}
  PROVE  \E k \in Holders(b, s) : EnvelopeFor(b, s) = b.envelopes[k]
  <1>1. PICK k \in Holders(b, s) : TRUE
    OBVIOUS
  <1>2. k \in Nat
    BY DEF Holders
  <1>3. \A j \in Holders(b, s) : k <= j
    BY <1>1, <1>2, HolderUnique
  <1>. QED  BY <1>1, <1>3 DEF EnvelopeFor

(* A supplier that is called is handed the envelope made for it: under its *)
(* own scoped names, which no other recipient has, with the content that   *)
(* was approved, while the approval and the envelope are both in force     *)
(* (envelopes.py:202-320).                                                 *)
THEOREM SupplierHandedItsOwn ==
  ASSUME NEW resolution, NEW b, NEW s, NEW t, NEW buyer,
         DOMAIN b.envelopes \subseteq Nat, ValidGrant(resolution.grant),
         DispatchAuthorized(resolution, b, s, t, buyer)
  PROVE  LET e == EnvelopeFor(b, s) IN
         /\ e.assignment.supplier = s
         /\ e.payload["intentId"] = e.assignment.intent
         /\ e.payload["buyerToken"] = e.assignment.buyer
         /\ e.payload[SelfHash] = resolution.grant.extra["content_hash"]
         /\ e.assignment.from <= t /\ t < e.assignment.until
         /\ InForceAt(resolution.grant, t)
         /\ \A k \in DOMAIN b.envelopes \ Holders(b, s) :
               /\ b.envelopes[k].assignment.intent # e.assignment.intent
               /\ b.envelopes[k].assignment.buyer # e.assignment.buyer
               /\ b.envelopes[k].assignment.invitation # e.assignment.invitation
  <1>. DEFINE e == EnvelopeFor(b, s)
              r == DispatchRequest(b, t, buyer)
              g == resolution.grant
  <1>1. Allowed(g, r)
    BY DEF DispatchAuthorized, Approved, AllowedNow
  <1>2. SameConsent(g, r) /\ InForceAt(g, t)
    <2>1. r.occurred = t
      BY DEF DispatchRequest
    <2>. QED  BY <1>1, <2>1, AllowedIsExact
  <1>3. g.extra["content_hash"] = b.manifest.content
    <2>1. g.kind = "PURCHASE_INTENT_DISPATCH"
      BY <1>2 DEF SameConsent, DispatchRequest
    <2>2. "content_hash" \in KindFields[g.kind]
      BY <2>1 DEF KindFields
    <2>3. r.extra["content_hash"] = b.manifest.content
      BY DEF DispatchRequest
    <2>. QED  BY <1>2, <2>2, <2>3 DEF SameConsent
  <1>4. Verified(b, s, b.manifest.version, t)
    BY DEF DispatchAuthorized
  <1>5. SetBound(b) /\ Holders(b, s) # {}
    BY <1>4 DEF Verified
  <1>6. PICK h \in Holders(b, s) : e = b.envelopes[h]
    BY <1>5, HolderFound
  <1>7. e.assignment.supplier = s /\ h \in DOMAIN b.envelopes
    BY <1>6 DEF Holders
  <1>8. Consistent(e) /\ e.content = b.manifest.content
    BY <1>5, <1>6, <1>7 DEF SetBound
  <1>9. e.payload[SelfHash] = e.content /\ e.assignment.from <= t /\ t < e.assignment.until
    BY <1>4 DEF Verified
  <1>10. ASSUME NEW k \in DOMAIN b.envelopes \ Holders(b, s)
         PROVE  /\ b.envelopes[k].assignment.intent # e.assignment.intent
                /\ b.envelopes[k].assignment.buyer # e.assignment.buyer
                /\ b.envelopes[k].assignment.invitation # e.assignment.invitation
    <2>. DEFINE assignments == [j \in DOMAIN b.envelopes |-> b.envelopes[j].assignment]
    <2>1. NamesDistinct(assignments)
      BY <1>5 DEF SetBound
    <2>2. k # h /\ k \in DOMAIN assignments /\ h \in DOMAIN assignments
      BY <1>6, <1>7
    <2>3. /\ assignments[k].intent # assignments[h].intent
          /\ assignments[k].buyer # assignments[h].buyer
          /\ assignments[k].invitation # assignments[h].invitation
      BY <2>1, <2>2 DEF NamesDistinct, Distinct
    <2>. QED  BY <1>6, <1>7, <2>3
  <1>. QED  BY <1>2, <1>3, <1>7, <1>8, <1>9, <1>10 DEF Consistent

LEMMA RowOfHolder ==
  ASSUME NEW b, SetBound(b), NEW h \in DOMAIN b.envelopes
  PROVE  /\ \E j \in DOMAIN b.manifest.recipients :
               b.manifest.recipients[j] = Row(b.envelopes[h])
         /\ EnvelopeHash(b.envelopes[h].payload) = b.envelopes[h].hash
  BY DEF SetBound

(* What is approved is the manifest alone, and that fixes what is shown:   *)
(* two bindings under which one approval lets a supplier be called show it *)
(* the same payload, whatever else differs between them                    *)
(* (envelopes.py:160, 427-480).                                            *)
THEOREM ApprovalFixesPayload ==
  ASSUME NEW resolution, NEW b, NEW c, NEW s, NEW t, NEW u, NEW buyer, NEW other,
         DOMAIN b.envelopes \subseteq Nat, DOMAIN c.envelopes \subseteq Nat, ValidGrant(resolution.grant),
         DispatchAuthorized(resolution, b, s, t, buyer),
         DispatchAuthorized(resolution, c, s, u, other)
  PROVE  EnvelopeFor(b, s).payload = EnvelopeFor(c, s).payload
  <1>. DEFINE g == resolution.grant
  <1>1. /\ Allowed(g, DispatchRequest(b, t, buyer)) /\ Verified(b, s, b.manifest.version, t)
        /\ Allowed(g, DispatchRequest(c, u, other)) /\ Verified(c, s, c.manifest.version, u)
    BY DEF DispatchAuthorized, Approved, AllowedNow
  <1>2. b.manifest.hash = g.payload /\ c.manifest.hash = g.payload
    BY <1>1 DEF Allowed, BasicAgree, DispatchRequest
  <1>3. ManifestHash(b.manifest) = ManifestHash(c.manifest)
    BY <1>1, <1>2 DEF Verified
  <1>4. b.manifest.recipients = c.manifest.recipients
    BY <1>3 DEF ManifestHash, Hash, Membership
  <1>5. SetBound(b) /\ SetBound(c) /\ Holders(b, s) # {} /\ Holders(c, s) # {}
    BY <1>1 DEF Verified
  <1>6. PICK h \in Holders(b, s) : EnvelopeFor(b, s) = b.envelopes[h]
    BY <1>5, HolderFound
  <1>7. PICK k \in Holders(c, s) : EnvelopeFor(c, s) = c.envelopes[k]
    BY <1>5, HolderFound
  <1>8. PICK i \in DOMAIN b.manifest.recipients : b.manifest.recipients[i] = Row(b.envelopes[h])
    BY <1>5, RowOfHolder DEF Holders
  <1>9. PICK j \in DOMAIN c.manifest.recipients : c.manifest.recipients[j] = Row(c.envelopes[k])
    BY <1>5, RowOfHolder DEF Holders
  <1>10. b.manifest.recipients[i].supplier = s /\ c.manifest.recipients[j].supplier = s
    BY <1>8, <1>9 DEF Row, Holders
  <1>11. i = j
    <2>1. NamesDistinct(b.manifest.recipients)
      BY <1>5 DEF SetBound
    <2>. QED  BY <1>4, <1>8, <1>9, <1>10, <2>1 DEF NamesDistinct, Distinct
  <1>12. b.envelopes[h].hash = c.envelopes[k].hash
    <2>1. b.manifest.recipients[i].hash = b.envelopes[h].hash
      BY <1>8 DEF Row
    <2>2. c.manifest.recipients[j].hash = c.envelopes[k].hash
      BY <1>9 DEF Row
    <2>. QED  BY <1>4, <1>11, <2>1, <2>2
  <1>13. EnvelopeHash(b.envelopes[h].payload) = EnvelopeHash(c.envelopes[k].payload)
    BY <1>5, <1>12, RowOfHolder DEF Holders
  <1>14. b.envelopes[h].payload = c.envelopes[k].payload
    BY <1>13 DEF EnvelopeHash, Hash
  <1>. QED  BY <1>6, <1>7, <1>14

(* Whatever else two sources hold, if their content has one hash then a    *)
(* recipient is shown the same of both: nothing that is withheld gets into *)
(* an envelope, and nothing that is shown escapes the hash, the scoped     *)
(* names apart (disclosure.py:235-263, canonical.py:78).                   *)
THEOREM ContentFixesEnvelope ==
  ASSUME NEW source, NEW other, NEW a, ContentHash(source) = ContentHash(other)
  PROVE  Envelope(source, a) = Envelope(other, a)
  <1>1. Content(source) = Content(other)
    BY DEF ContentHash, Hash
  <1>2. \A p \in ContentLeaves : source[p] = other[p]
    <2>. TAKE p \in ContentLeaves
    <2>1. Content(source)[p] = source[p] /\ Content(other)[p] = other[p]
      BY DEF Content
    <2>. QED  BY <1>1, <2>1
  <1>3. \A p \in AllowedLeaves :
           p \notin ContentLeaves => p \in {"intentId", "buyerToken", SelfHash}
    BY DEF ContentLeaves, ScopedLeaves
  <1>4. \A p \in AllowedLeaves : EnvelopePayload(source, a)[p] = EnvelopePayload(other, a)[p]
    BY <1>2, <1>3 DEF EnvelopePayload
  <1>5. EnvelopePayload(source, a) = EnvelopePayload(other, a)
    BY <1>4 DEF EnvelopePayload
  <1>. QED  BY <1>5 DEF Envelope

LEMMA EnvelopeParts ==
  ASSUME NEW source, NEW a
  PROVE  LET e == Envelope(source, a) IN
         /\ e.assignment = a
         /\ e.content = ContentHash(source)
         /\ e.hash = EnvelopeHash(e.payload)
         /\ e.payload["intentId"] = a.intent
         /\ e.payload["buyerToken"] = a.buyer
         /\ e.payload[SelfHash] = ContentHash(source)
         /\ e.payload["expiresAt"] = source["expiresAt"]
         /\ e.payload["disclosure/profile"] = source["disclosure/profile"]
         /\ Consistent(e)
  <1>. DEFINE payload == EnvelopePayload(source, a)
              e == Envelope(source, a)
  <1>1. /\ payload["intentId"] = a.intent
        /\ payload["buyerToken"] = a.buyer
        /\ payload[SelfHash] = ContentHash(source)
        /\ payload["expiresAt"] = source["expiresAt"]
        /\ payload["disclosure/profile"] = source["disclosure/profile"]
    BY DEF EnvelopePayload, AllowedLeaves, ScopedLeaves, SelfHash
  <1>. HIDE DEF payload
  <1>2. /\ e.assignment = a /\ e.content = ContentHash(source)
        /\ e.payload = payload /\ e.hash = EnvelopeHash(payload) /\ e.scope = ScopeOf(a)
    BY DEF Envelope, payload
  <1>. QED  BY <1>1, <1>2 DEF Consistent

LEMMA RowParts ==
  ASSUME NEW e
  PROVE  /\ Row(e).supplier = e.assignment.supplier
         /\ Row(e).invitation = e.assignment.invitation
         /\ Row(e).intent = e.assignment.intent
         /\ Row(e).buyer = e.assignment.buyer
         /\ Row(e).hash = e.hash
  BY DEF Row

LEMMA BoundEnvelope ==
  ASSUME NEW source, NEW intent, NEW version, NEW expires, NEW recipients,
         NEW k \in DOMAIN recipients
  PROVE  LET b == Bind(source, intent, version, expires, recipients) IN
         /\ b.envelopes[k] = Envelope(source, recipients[k])
         /\ b.envelopes[k].assignment = recipients[k]
         /\ b.manifest.recipients[k] = Row(b.envelopes[k])
  BY DEF Bind, Envelope

LEMMA BoundDomains ==
  ASSUME NEW source, NEW intent, NEW version, NEW expires, NEW R, NEW recipients \in Seq(R)
  PROVE  LET b == Bind(source, intent, version, expires, recipients) IN
         /\ DOMAIN b.envelopes = DOMAIN recipients
         /\ DOMAIN b.manifest.recipients = DOMAIN recipients
         /\ Len(b.envelopes) = Len(recipients)
         /\ Len(b.manifest.recipients) = Len(recipients)
  <1>. DEFINE b == Bind(source, intent, version, expires, recipients)
              envelopes == [k \in DOMAIN recipients |-> Envelope(source, recipients[k])]
              rows == [k \in DOMAIN envelopes |-> Row(envelopes[k])]
  <1>1. b.envelopes = envelopes /\ b.manifest.recipients = rows
    BY DEF Bind
  <1>2. DOMAIN recipients = 1..Len(recipients) /\ Len(recipients) \in Nat
    OBVIOUS
  <1>3. DOMAIN envelopes = 1..Len(recipients) /\ DOMAIN rows = 1..Len(recipients)
    BY <1>2
  <1>4. Len(envelopes) = Len(recipients) /\ Len(rows) = Len(recipients)
    BY <1>2, <1>3, LenProperties
  <1>. QED  BY <1>1, <1>2, <1>3, <1>4

(* A binding that the policy makes is one that it accepts, for each of its *)
(* recipients at every instant of the recipient's window: the checks of    *)
(* the two functions cannot disagree (envelopes.py:118-182, 202-262).      *)
THEOREM BoundIsVerified ==
  ASSUME NEW source, NEW intent, NEW version, NEW expires, NEW R, NEW recipients \in Seq(R),
         Bindable(source, expires, recipients), NEW k \in DOMAIN recipients, NEW t,
         recipients[k].from <= t, t < recipients[k].until
  PROVE  Verified(Bind(source, intent, version, expires, recipients),
                  recipients[k].supplier, version, t)
  <1>. DEFINE b == Bind(source, intent, version, expires, recipients)
              s == recipients[k].supplier
  <1>1. /\ DOMAIN b.envelopes = DOMAIN recipients
        /\ DOMAIN b.manifest.recipients = DOMAIN recipients
        /\ Len(b.envelopes) = Len(recipients)
        /\ Len(b.manifest.recipients) = Len(recipients)
    BY BoundDomains
  <1>2. \A j \in DOMAIN recipients :
           /\ b.envelopes[j] = Envelope(source, recipients[j])
           /\ b.envelopes[j].assignment = recipients[j]
           /\ b.manifest.recipients[j] = Row(b.envelopes[j])
    BY BoundEnvelope
  <1>3. /\ b.manifest.version = version /\ b.manifest.content = ContentHash(source)
        /\ b.preview.count = Len(recipients) /\ b.preview.manifest = b.manifest.hash
        /\ ManifestHash(b.manifest) = b.manifest.hash
    BY DEF Bind, ManifestHash, Membership
  <1>. HIDE DEF b
  <1>4. NamesDistinct(recipients)
    BY DEF Bindable
  <1>5. ASSUME NEW j \in DOMAIN recipients
        PROVE  LET e == b.envelopes[j] IN
               /\ e.hash = EnvelopeHash(e.payload)
               /\ e.content = ContentHash(source)
               /\ e.payload["intentId"] = recipients[j].intent
               /\ e.payload[SelfHash] = ContentHash(source)
               /\ e.payload["expiresAt"] = source["expiresAt"]
               /\ e.payload["disclosure/profile"] = source["disclosure/profile"]
               /\ Consistent(e)
    BY <1>2, EnvelopeParts
  <1>7. ASSUME NEW j \in DOMAIN recipients
        PROVE  LET row == b.manifest.recipients[j] IN
               /\ row.supplier = recipients[j].supplier
               /\ row.invitation = recipients[j].invitation
               /\ row.intent = recipients[j].intent
               /\ row.buyer = recipients[j].buyer
               /\ row.hash = b.envelopes[j].hash
    <2>. DEFINE e == b.envelopes[j]
    <2>1. b.manifest.recipients[j] = Row(e) /\ e.assignment = recipients[j]
      BY <1>2
    <2>. HIDE DEF e
    <2>2. /\ Row(e).supplier = e.assignment.supplier
          /\ Row(e).invitation = e.assignment.invitation
          /\ Row(e).intent = e.assignment.intent
          /\ Row(e).buyer = e.assignment.buyer
          /\ Row(e).hash = e.hash
      BY RowParts
    <2>3. e.hash = b.envelopes[j].hash
      BY DEF e
    <2>. QED  BY <2>1, <2>2, <2>3
  <1>8. NamesDistinct(b.manifest.recipients)
    BY <1>1, <1>4, <1>7 DEF NamesDistinct, Distinct
  <1>9. \A i, j \in DOMAIN recipients : i # j => b.envelopes[i].hash # b.envelopes[j].hash
    <2>1. SUFFICES ASSUME NEW i \in DOMAIN recipients, NEW j \in DOMAIN recipients, i # j,
                          b.envelopes[i].hash = b.envelopes[j].hash
                   PROVE  FALSE
      OBVIOUS
    <2>2. b.envelopes[i].payload = b.envelopes[j].payload
      <3>1. EnvelopeHash(b.envelopes[i].payload) = EnvelopeHash(b.envelopes[j].payload)
        BY <1>5, <2>1
      <3>. QED  BY <3>1 DEF EnvelopeHash, Hash
    <2>3. recipients[i].intent = recipients[j].intent
      BY <1>5, <2>2
    <2>. QED  BY <1>4, <2>1, <2>3 DEF NamesDistinct, Distinct
  <1>10. /\ Distinct(b.manifest.recipients, LAMBDA x : x.hash)
         /\ Distinct(b.envelopes, LAMBDA x : x.hash)
    BY <1>1, <1>7, <1>9 DEF Distinct
  <1>11. NamesDistinct([j \in DOMAIN b.envelopes |-> b.envelopes[j].assignment])
    BY <1>1, <1>2, <1>4 DEF NamesDistinct, Distinct
  <1>12. \A j \in DOMAIN recipients : Consistent(b.envelopes[j])
    BY <1>5
  <1>13. \A j \in DOMAIN b.envelopes :
            /\ Consistent(b.envelopes[j])
            /\ EnvelopeHash(b.envelopes[j].payload) = b.envelopes[j].hash
            /\ b.envelopes[j].content = b.manifest.content
            /\ \E i \in DOMAIN b.manifest.recipients :
                  b.manifest.recipients[i] = Row(b.envelopes[j])
    BY <1>1, <1>2, <1>3, <1>5, <1>12
  <1>14. SetBound(b)
    BY <1>1, <1>3, <1>8, <1>10, <1>11, <1>13 DEF SetBound
  <1>15. k \in Holders(b, s)
    BY <1>1, <1>2 DEF Holders
  <1>16. DOMAIN b.envelopes \subseteq Nat
    BY <1>1
  <1>17. EnvelopeFor(b, s) = b.envelopes[k]
    <2>. HIDE DEF s
    <2>1. PICK h \in Holders(b, s) : EnvelopeFor(b, s) = b.envelopes[h]
      BY <1>14, <1>15, <1>16, HolderFound
    <2>. QED  BY <1>14, <1>15, <2>1, HolderUnique
  <1>18. /\ t < source["expiresAt"] /\ source["disclosure/profile"] \notin Improper
    <2>1. Inspectable(source, recipients[k].until)
      BY DEF Bindable
    <2>. QED  BY <2>1 DEF Inspectable, Proper, AllowedLeaves, ScopedLeaves, SelfHash
  <1>19. /\ b.envelopes[k].payload[SelfHash] = b.envelopes[k].content
         /\ b.envelopes[k].payload["disclosure/profile"] \notin Improper
         /\ b.envelopes[k].assignment.from <= t /\ t < b.envelopes[k].assignment.until
         /\ t < b.envelopes[k].payload["expiresAt"]
    BY <1>2, <1>5, <1>18
  <1>20. Verified(b, s, version, t)
    <2>. HIDE DEF s
    <2>. QED  BY <1>1, <1>3, <1>14, <1>15, <1>17, <1>19 DEF Verified
  <1>. QED  BY <1>20 DEF b

----------------------------------------------------------------------------
(* What a supplier offers and what the buyer believes of it.               *)

(* Of six checks, if one fails there is a reason: the first that failed    *)
(* gives it, and no reason is the empty one (engine.py:76-117).            *)
LEMMA SixChecks ==
  ASSUME NEW checks, DOMAIN checks = 1..6,
         \A k \in 1..6 : checks[k][2] # Agrees,
         ~Passed(checks)
  PROVE  Reason(checks) # Agrees
  <1>. DEFINE First(k) == checks[k][1] /\ \A j \in 1..(k - 1) : ~checks[j][1]
  <1>1. \E k \in 1..6 : checks[k][1]
    BY DEF Passed
  <1>2. \E k \in 1..6 : First(k)
    <2>1. CASE checks[1][1]
      BY <2>1
    <2>2. CASE ~checks[1][1] /\ checks[2][1]
      BY <2>2
    <2>3. CASE ~checks[1][1] /\ ~checks[2][1] /\ checks[3][1]
      BY <2>3
    <2>4. CASE ~checks[1][1] /\ ~checks[2][1] /\ ~checks[3][1] /\ checks[4][1]
      BY <2>4
    <2>5. CASE /\ ~checks[1][1] /\ ~checks[2][1] /\ ~checks[3][1] /\ ~checks[4][1]
               /\ checks[5][1]
      BY <2>5
    <2>6. CASE /\ ~checks[1][1] /\ ~checks[2][1] /\ ~checks[3][1] /\ ~checks[4][1]
               /\ ~checks[5][1] /\ checks[6][1]
      BY <2>6
    <2>. QED  BY <1>1, <2>1, <2>2, <2>3, <2>4, <2>5, <2>6
  <1>3. PICK k \in 1..6 : k = (CHOOSE i \in 1..6 : First(i))
    BY <1>2
  <1>4. Reason(checks) = checks[k][2]
    BY <1>3 DEF Reason
  <1>. QED  BY <1>4

(* A supplier that gives no reason to decline has passed every check of    *)
(* the service, those of airport and vehicle with them (engine.py:76-89).  *)
LEMMA ServicePassed ==
  ASSUME NEW p, NEW ask, NEW left
  PROVE  /\ Reason(Service(p, ask, left)) = Agrees => Passed(Service(p, ask, left))
         /\ Passed(Service(p, ask, left)) =>
              ask.airport \in p.airports /\ ask.vehicle \in p.vehicles
  <1>. DEFINE c == Service(p, ask, left)
  <1>1. DOMAIN c = 1..6
    BY DEF Service
  <1>2. \A k \in 1..6 : c[k][2] # Agrees
    <2>1. /\ c[1][2] = "UNSUPPORTED_CATEGORY"
          /\ c[2][2] = "UNSUPPORTED_AIRPORT"
          /\ c[3][2] = "UNSUPPORTED_VEHICLE"
          /\ c[4][2] = "INSUFFICIENT_CAPACITY"
          /\ c[5][2] = "RESPONSE_DEADLINE"
          /\ c[6][2] = "UNSUPPORTED_SERVICE"
      BY DEF Service
    <2>2. /\ c[1][2] # Agrees
          /\ c[2][2] # Agrees
          /\ c[3][2] # Agrees
          /\ c[4][2] # Agrees
          /\ c[5][2] # Agrees
          /\ c[6][2] # Agrees
      BY <2>1 DEF Agrees
    <2>. HIDE DEF c
    <2>. QED  BY <2>2
  <1>3. c[2][1] = (ask.airport \notin p.airports) /\ c[3][1] = (ask.vehicle \notin p.vehicles)
    BY DEF Service
  <1>. HIDE DEF c
  <1>4. Reason(c) = Agrees => Passed(c)
    BY <1>1, <1>2, SixChecks
  <1>5. Passed(c) => ~c[2][1] /\ ~c[3][1]
    BY <1>1 DEF Passed
  <1>. QED  BY <1>3, <1>4, <1>5 DEF c

(* A supplier that gives no reason to decline has computed exact prices,   *)
(* and pairs its refund with its cancellation term (engine.py:90-117).     *)
LEMMA EarningsPassed ==
  ASSUME NEW p, NEW days
  PROVE  /\ Reason(Earnings(p, days)) = Agrees => Passed(Earnings(p, days))
         /\ Passed(Earnings(p, days)) =>
              Exact(p, days) /\ RefundFits(p.cancellation, p.refund)
  <1>. DEFINE c == Earnings(p, days)
  <1>1. DOMAIN c = 1..6
    BY DEF Earnings
  <1>2. \A k \in 1..6 : c[k][2] # Agrees
    <2>1. /\ c[1][2] = "DISCOUNT_CAP"
          /\ c[2][2] = Raises
          /\ c[3][2] = "ACQUISITION_CAP"
          /\ c[4][2] = "PRICE_FLOOR"
          /\ c[5][2] = "ADD_ON_MARGIN"
          /\ c[6][2] = "CANCELLATION_PAIR"
      BY DEF Earnings
    <2>2. /\ c[1][2] # Agrees
          /\ c[2][2] # Agrees
          /\ c[3][2] # Agrees
          /\ c[4][2] # Agrees
          /\ c[5][2] # Agrees
          /\ c[6][2] # Agrees
      BY <2>1 DEF Agrees, Raises
    <2>. HIDE DEF c
    <2>. QED  BY <2>2
  <1>3. c[2][1] = ~Exact(p, days) /\ c[6][1] = ~RefundFits(p.cancellation, p.refund)
    BY DEF Earnings
  <1>. HIDE DEF c
  <1>4. Reason(c) = Agrees => Passed(c)
    BY <1>1, <1>2, SixChecks
  <1>5. Passed(c) => ~c[2][1] /\ ~c[6][1]
    BY <1>1 DEF Passed
  <1>. QED  BY <1>3, <1>4, <1>5 DEF c

(* What a supplier is asked is made of whole numbers: instants, the bounds *)
(* of the service window if there is one, and the longest transfer.        *)
Readable(ask) ==
  /\ ask.at \in Int /\ ask.deadline \in Int /\ ask.until \in Int
  /\ ask.window # << >> => ask.window[1] \in Int /\ ask.window[2] \in Int
  /\ ask.shuttle \in Int

(* Scaling an amount by a factor gives an amount (economics.py:22-28).     *)
LEMMA ScaledIsAmount ==
  ASSUME NEW amount \in Nat, NEW factor \in Nat
  PROVE  Scaled(amount, factor) \in Nat
  <1>. DEFINE x == amount * factor + Whole \div 2
  <1>1. amount * factor \in Nat /\ Whole \div 2 \in Nat
    BY AmountAssumption
  <1>2. x \in Nat
    BY <1>1
  <1>. HIDE DEF x
  <1>3. x \div Whole \in Nat
    BY <1>2, AmountAssumption
  <1>. QED  BY <1>3 DEF Scaled, x

(* The buyer's test that floor times days does not overflow, a division,   *)
(* passes wherever the supplier's product was in range                     *)
(* (offer_boundary.py:455, economics.py:22).                               *)
LEMMA FloorFits ==
  ASSUME NEW listed \in Nat, NEW floor \in Nat, NEW days \in Nat \ {0},
         floor <= listed, listed * days <= SafeMax
  PROVE  floor <= SafeMax \div days
  <1>1. floor * days <= SafeMax
    BY AmountAssumption
  <1>. DEFINE q == SafeMax \div days
  <1>2. q \in Nat /\ SafeMax < (q + 1) * days
    BY AmountAssumption
  <1>. HIDE DEF q
  <1>3. floor * days < (q + 1) * days
    BY <1>1, <1>2, AmountAssumption
  <1>4. floor < q + 1
    BY <1>2, <1>3
  <1>. QED  BY <1>2, <1>4 DEF q

(* The prices of a valid policy are amounts, and the subtotal is at least  *)
(* the floor for the stay and the add-on (engine.py:119-139).              *)
LEMMA PricesAreAmounts ==
  ASSUME NEW p, ValidPolicy(p), NEW days \in Nat
  PROVE  /\ Listed(p, days) \in Nat
         /\ Demanded(p, days) \in Nat
         /\ Discounted(p, days) \in Nat
         /\ Subtotal(p, days) \in Nat
         /\ Subtotal(p, days) >= p.floor * days + p.addOnPrice
         /\ Total(p, days) \in Nat
  <1>1. /\ p.list \in Nat /\ p.floor \in Nat /\ p.demand \in Nat /\ p.addOnPrice \in Nat
        /\ p.fees \in Nat /\ p.tax \in Nat
    <2>1. p.list \in Nat /\ p.floor \in Nat /\ p.addOnPrice \in Nat /\ p.fees \in Nat /\ p.tax \in Nat
      BY AmountAssumption DEF ValidPolicy, ValidPrices, Money
    <2>2. p.demand \in Nat
      BY AmountAssumption DEF ValidPolicy, ValidFactors
    <2>. QED  BY <2>1, <2>2
  <1>2. p.discount \in Nat /\ Whole - p.discount \in Nat
    BY AmountAssumption DEF ValidPolicy, ValidFactors
  <1>3. Listed(p, days) \in Nat
    BY <1>1 DEF Listed
  <1>4. Demanded(p, days) \in Nat
    BY <1>1, <1>3, ScaledIsAmount DEF Demanded
  <1>5. Discounted(p, days) \in Nat
    BY <1>2, <1>4, ScaledIsAmount DEF Discounted
  <1>6. p.floor * days \in Nat
    BY <1>1
  <1>7. Subtotal(p, days) \in Nat /\ Subtotal(p, days) >= p.floor * days + p.addOnPrice
    BY <1>1, <1>5, <1>6 DEF Subtotal
  <1>8. Total(p, days) \in Nat
    BY <1>1, <1>7 DEF Total
  <1>. QED  BY <1>3, <1>4, <1>5, <1>7, <1>8

(* For every policy that can be made and everything a supplier can be      *)
(* asked: an offer it makes is believed by the buyer's table for that stay *)
(* exactly if the transfer is short enough and something is available, and *)
(* its total is within the range of amounts.  The supplier's arithmetic    *)
(* and the buyer's are written twice and have to agree, for an offer that  *)
(* is not believed is dropped without a word (engine.py:38-179,            *)
(* offer_boundary.py:411-480).                                             *)
THEOREM OfferBelieved ==
  ASSUME NEW p, ValidPolicy(p), NEW ask, Readable(ask), NEW left,
         Attempt(p, ask, left) = Agrees
  PROVE  /\ Believes(Evaluation(p, Days(ask)), OfferOf(p, ask), ask) <=> Suits(OfferOf(p, ask), ask)
         /\ OfferOf(p, ask).total \in Money
  <1>. DEFINE days == Days(ask)
              v == Evaluation(p, days)
              o == OfferOf(p, ask)
  <1>1. /\ Passed(Service(p, ask, left)) /\ ~(Stay(ask) <= 0)
        /\ Passed(Earnings(p, days))
        /\ InBounds(ask.at, EffectiveUntil(p, ask), p.minValidity, p.maxValidity)
        /\ ~(Total(p, days) > SafeMax)
    <2>1. Raises # Agrees /\ "VALIDITY_WINDOW" # Agrees
      BY DEF Raises, Agrees
    <2>. QED  BY <2>1, ServicePassed, EarningsPassed DEF Attempt
  <1>2. days \in Nat \ {0}
    <2>1. Stay(ask) \in Nat \ {0}
      BY <1>1 DEF Stay, Readable
    <2>. QED  BY <2>1 DEF Days, BillableDays, Day
  <1>3. p.floor <= SafeMax \div days
    <2>1. p.list \in Nat /\ p.floor \in Nat /\ p.floor <= p.list
      BY AmountAssumption DEF ValidPolicy, ValidPrices, Money
    <2>2. p.list * days <= SafeMax
      BY <1>1, EarningsPassed DEF Exact, Listed
    <2>. HIDE DEF days
    <2>. QED  BY <1>2, <2>1, <2>2, FloorFits
  <1>4. /\ Subtotal(p, days) >= p.floor * days + p.addOnPrice
        /\ Total(p, days) \in Nat
    BY <1>2, PricesAreAmounts
  <1>5. Subtotal(p, days) >= p.floor * days + (IF p.addOns # {} THEN p.addOnPrice ELSE 0)
    <2>1. p.addOns = {} => p.addOnPrice = 0
      BY DEF ValidPolicy, ValidPrices
    <2>. HIDE DEF days
    <2>. QED  BY <1>4, <2>1
  <1>6. ask.airport \in p.airports /\ ask.vehicle \in p.vehicles
    BY <1>1, ServicePassed
  <1>7. RefundFits(p.cancellation, p.refund)
    BY DEF ValidPolicy, ValidTerms
  <1>8. Total(p, days) \in Money
    BY <1>1, <1>4, AmountAssumption DEF Money
  <1>. HIDE DEF days
  <1>9. /\ v.airports = p.airports /\ v.vehicles = p.vehicles /\ v.lots = {p.lot}
        /\ v.addOns = p.addOns /\ v.availability = {p.availability}
        /\ v.evidence = SimulatedEvidence(p) /\ v.floor = p.floor /\ v.days = days
        /\ v.cancellations = {p.cancellation} /\ v.refunds = {p.refund}
        /\ v.minValidity = p.minValidity /\ v.maxValidity = p.maxValidity
        /\ v.fees = p.fees /\ v.tax = p.tax /\ v.addOnPrice = p.addOnPrice
    BY DEF Evaluation
  <1>10. /\ o.subtotal = Subtotal(p, days) /\ o.total = Total(p, days)
         /\ o.fees = p.fees /\ o.tax = p.tax /\ o.lot = p.lot /\ o.shuttle = p.shuttle
         /\ o.availability = p.availability /\ o.addOns = p.addOns
         /\ o.cancellation = p.cancellation /\ o.refund = p.refund
         /\ o.from = ask.at /\ o.until = EffectiveUntil(p, ask)
         /\ o.evidence = SimulatedEvidence(p)
    BY DEF OfferOf, days
  <1>. HIDE DEF v, o
  <1>11. Believes(v, o, ask) <=> Suits(o, ask)
    BY <1>1, <1>3, <1>5, <1>6, <1>7, <1>9, <1>10 DEF Believes, Suits
  <1>. QED  BY <1>8, <1>10, <1>11 DEF v, o, days

----------------------------------------------------------------------------
(* What a dispatch is allowed, and when.                                   *)

(* The recipients of a request are a list of three.                        *)
LEMMA RecipientParts ==
  ASSUME NEW i \in Intent
  PROVE  /\ DOMAIN Recipients(i) = 1..3
         /\ \A s \in 1..3 : /\ Recipients(i)[s].supplier = s
                            /\ Recipients(i)[s].from = Expires[i] - EnvelopeLife
                            /\ Recipients(i)[s].until = Expires[i]
                            /\ "invitation_read" \in Recipients(i)[s].capabilities
         /\ \E R : Recipients(i) \in Seq(R)
  <1>1. /\ DOMAIN Recipients(i) = 1..3
        /\ \A s \in 1..3 : /\ Recipients(i)[s].supplier = s
                           /\ Recipients(i)[s].from = Expires[i] - EnvelopeLife
                           /\ Recipients(i)[s].until = Expires[i]
                           /\ "invitation_read" \in Recipients(i)[s].capabilities
    BY DEF Recipients, Supplier, SupplierCapabilities
  <1>. DEFINE r == Recipients(i)
              R == {r[s] : s \in 1..3}
  <1>2. r = [s \in 1..3 |-> r[s]]
    BY DEF Recipients, Supplier
  <1>3. r \in [1..3 -> R]
    <2>. HIDE DEF r
    <2>. QED  BY <1>2
  <1>4. r \in Seq(R)
    <2>. HIDE DEF r, R
    <2>. QED  BY <1>3, SeqDef
  <1>. QED  BY <1>1, <1>4

(* An approval of a dispatch lets it through from when it was issued until *)
(* the request ends: nothing else can differ (approvals.py:601-718).       *)
LEMMA ApprovedExactly ==
  ASSUME NEW i \in Intent, NEW issued \in Time, NEW t \in Time
  PROVE  Approved(Resolution(i, issued), Binding[i], t, Buyer)
           <=> issued <= t /\ t < Expires[i]
  <1>. DEFINE b == Binding[i]
              g == Grant(i, issued)
              r == DispatchRequest(b, t, Buyer)
              q == DispatchRequest(b, issued, Buyer)
  <1>1. b.manifest.expires = Expires[i]
    BY DEF Binding, Bind
  <1>. HIDE DEF b
  <1>2. /\ g.kind = q.kind /\ g.purpose = q.purpose /\ g.actor = q.actor /\ g.owner = q.owner
        /\ g.type = q.type /\ g.resource = q.resource /\ g.version = q.version
        /\ g.payload = q.payload /\ g.extra = q.extra
        /\ g.issued = issued /\ g.expires = Expires[i]
    BY DEF Grant, b
  <1>3. /\ r.kind = q.kind /\ r.purpose = q.purpose /\ r.actor = q.actor /\ r.owner = q.owner
        /\ r.type = q.type /\ r.resource = q.resource /\ r.version = q.version
        /\ r.payload = q.payload /\ r.extra = q.extra
        /\ r.occurred = t /\ r.kind = "PURCHASE_INTENT_DISPATCH"
        /\ r.extra["solicitation_expires_at"] = b.manifest.expires
    BY DEF DispatchRequest
  <1>4. g # None
    BY NoneAssumption
  <1>5. Resolution(i, issued).grant = g /\ ~Resolution(i, issued).revoked
    BY DEF Resolution
  <1>6. Approved(Resolution(i, issued), b, t, Buyer) <=> Allowed(g, r)
    BY <1>5 DEF Approved, AllowedNow
  <1>. HIDE DEF g, r, q
  <1>7. Allowed(g, r) <=> issued <= t /\ t < Expires[i]
    BY <1>1, <1>2, <1>3, <1>4 DEF Allowed, BasicAgree, DispatchAgrees
  <1>. QED  BY <1>6, <1>7 DEF b

(* A supplier is asked only while the approval and its envelope are both   *)
(* in force, and whenever they are (envelopes.py:202-320).                 *)
LEMMA AuthorizedExactly ==
  ASSUME NEW i \in Intent, NEW issued \in Time, NEW s \in Supplier, NEW t \in Time
  PROVE  DispatchAuthorized(Resolution(i, issued), Binding[i], s, t, Buyer)
           <=> issued <= t /\ t < Expires[i] /\ Expires[i] - EnvelopeLife <= t
  <1>. DEFINE b == Binding[i]
              recipients == Recipients(i)
              e == EnvelopeFor(b, s)
  <1>1. b = Bind(Source(i), i, Version, Expires[i], recipients)
    BY DEF Binding
  <1>2. b.manifest.version = Version
    BY <1>1 DEF Bind
  <1>3. PICK R : recipients \in Seq(R)
    BY RecipientParts
  <1>4. /\ DOMAIN recipients = 1..3 /\ s \in 1..3
        /\ \A k \in 1..3 : /\ recipients[k].supplier = k
                           /\ recipients[k].from = Expires[i] - EnvelopeLife
                           /\ recipients[k].until = Expires[i]
                           /\ "invitation_read" \in recipients[k].capabilities
    BY RecipientParts DEF Supplier
  <1>. HIDE DEF b, recipients
  <1>5. DOMAIN b.envelopes = 1..3
    BY <1>1, <1>3, <1>4, BoundDomains
  <1>6. \A k \in 1..3 : /\ b.envelopes[k] = Envelope(Source(i), recipients[k])
                        /\ b.envelopes[k].assignment = recipients[k]
    BY <1>1, <1>4, BoundEnvelope
  <1>7. Holders(b, s) = {s}
    BY <1>4, <1>5, <1>6 DEF Holders
  <1>8. e = b.envelopes[s]
    BY <1>4, <1>7 DEF EnvelopeFor
  <1>9. /\ e.assignment = recipients[s]
        /\ e.scope = ScopeOf(recipients[s])
    BY <1>4, <1>6, <1>8, EnvelopeParts DEF Consistent
  <1>. HIDE DEF e
  <1>10. Verified(b, s, b.manifest.version, t) => Expires[i] - EnvelopeLife <= t
    BY <1>4, <1>9 DEF Verified, e
  <1>11. ASSUME Expires[i] - EnvelopeLife <= t, t < Expires[i]
         PROVE  Verified(b, s, b.manifest.version, t)
    <2>1. Bindable(Source(i), Expires[i], recipients)
      BY DisclosureAssumption DEF recipients
    <2>2. Verified(Bind(Source(i), i, Version, Expires[i], recipients),
                   recipients[s].supplier, Version, t)
      BY <1>3, <1>4, <1>11, <2>1, BoundIsVerified
    <2>. QED  BY <1>1, <1>2, <1>4, <2>2
  <1>12. ASSUME Expires[i] - EnvelopeLife <= t, t < Expires[i]
         PROVE  SupplierAllowed(e.scope, s, e.assignment.invitation, e.assignment.intent,
                                "invitation_read", t)
    BY <1>4, <1>9, <1>12 DEF SupplierAllowed, ScopeOf
  <1>13. Approved(Resolution(i, issued), b, t, Buyer) <=> issued <= t /\ t < Expires[i]
    BY ApprovedExactly DEF b
  <1>. QED  BY <1>10, <1>11, <1>12, <1>13 DEF DispatchAuthorized, b, e

(* The tables of what is approved and authorized hold just that.           *)
LEMMA WhenAllowed ==
  ASSUME NEW i \in Intent, NEW issued \in Time, NEW t \in Time
  PROVE  /\ ApprovedAt[i][issued][t] <=> issued <= t /\ t < Expires[i]
         /\ \A s \in Supplier :
              AuthorizedAt[i][issued][s][t] <=>
                issued <= t /\ t < Expires[i] /\ Expires[i] - EnvelopeLife <= t
  <1>1. ApprovedAt[i][issued][t] = Approved(Resolution(i, issued), Binding[i], t, Buyer)
    BY DEF ApprovedAt
  <1>2. \A s \in Supplier : AuthorizedAt[i][issued][s][t] =
           DispatchAuthorized(Resolution(i, issued), Binding[i], s, t, Buyer)
    BY DEF AuthorizedAt
  <1>. QED  BY <1>1, <1>2, ApprovedExactly, AuthorizedExactly

----------------------------------------------------------------------------
(* The ranking of at most three offers.                                    *)

(* Five whole numbers and more are ordered from the left.                  *)
LEMMA LexicographicFive ==
  ASSUME NEW a, NEW b, DOMAIN a = 1..5, \A k \in 1..5 : a[k] \in Int /\ b[k] \in Int
  PROVE  Lexicographic(a, b) <=>
           \/ a[1] < b[1]
           \/ a[1] = b[1] /\ a[2] < b[2]
           \/ a[1] = b[1] /\ a[2] = b[2] /\ a[3] < b[3]
           \/ a[1] = b[1] /\ a[2] = b[2] /\ a[3] = b[3] /\ a[4] < b[4]
           \/ a[1] = b[1] /\ a[2] = b[2] /\ a[3] = b[3] /\ a[4] = b[4] /\ a[5] < b[5]
  <1>. DEFINE Before(k) == a[k] < b[k] /\ \A j \in 1..(k - 1) : a[j] = b[j]
  <1>1. Lexicographic(a, b) <=> Before(1) \/ Before(2) \/ Before(3) \/ Before(4) \/ Before(5)
    <2>1. Lexicographic(a, b) <=> \E k \in 1..5 : Before(k)
      BY DEF Lexicographic
    <2>2. 1..5 = {1, 2, 3, 4, 5}
      OBVIOUS
    <2>. HIDE DEF Before
    <2>. QED  BY <2>1, <2>2
  <1>2. Before(1) <=> a[1] < b[1]
    OBVIOUS
  <1>3. Before(2) <=> a[1] = b[1] /\ a[2] < b[2]
    OBVIOUS
  <1>4. Before(3) <=> a[1] = b[1] /\ a[2] = b[2] /\ a[3] < b[3]
    OBVIOUS
  <1>5. Before(4) <=> a[1] = b[1] /\ a[2] = b[2] /\ a[3] = b[3] /\ a[4] < b[4]
    OBVIOUS
  <1>6. Before(5) <=> a[1] = b[1] /\ a[2] = b[2] /\ a[3] = b[3] /\ a[4] = b[4] /\ a[5] < b[5]
    OBVIOUS
  <1>. HIDE DEF Before
  <1>. QED  BY <1>1, <1>2, <1>3, <1>4, <1>5, <1>6

(* A tie key whose last place is a supplier.                               *)
IsKey(a) == DOMAIN a = 1..5 /\ \A k \in 1..5 : a[k] \in Int

(* Of two keys of different suppliers one comes first, and the order of    *)
(* keys is transitive.                                                     *)
LEMMA KeysOrdered ==
  ASSUME NEW a, NEW b, NEW c, IsKey(a), IsKey(b), IsKey(c)
  PROVE  /\ ~Lexicographic(a, a)
         /\ a[5] # b[5] => Lexicographic(a, b) \/ Lexicographic(b, a)
         /\ Lexicographic(a, b) /\ Lexicographic(b, c) => Lexicographic(a, c)
  <1>. DEFINE Lex(x, y) ==
           \/ x[1] < y[1]
           \/ x[1] = y[1] /\ x[2] < y[2]
           \/ x[1] = y[1] /\ x[2] = y[2] /\ x[3] < y[3]
           \/ x[1] = y[1] /\ x[2] = y[2] /\ x[3] = y[3] /\ x[4] < y[4]
           \/ x[1] = y[1] /\ x[2] = y[2] /\ x[3] = y[3] /\ x[4] = y[4] /\ x[5] < y[5]
  <1>1. /\ Lexicographic(a, a) <=> Lex(a, a)
        /\ Lexicographic(a, b) <=> Lex(a, b)
        /\ Lexicographic(b, a) <=> Lex(b, a)
        /\ Lexicographic(b, c) <=> Lex(b, c)
        /\ Lexicographic(a, c) <=> Lex(a, c)
    BY LexicographicFive DEF IsKey
  <1>2. /\ a[1] \in Int /\ a[2] \in Int /\ a[3] \in Int /\ a[4] \in Int /\ a[5] \in Int
        /\ b[1] \in Int /\ b[2] \in Int /\ b[3] \in Int /\ b[4] \in Int /\ b[5] \in Int
        /\ c[1] \in Int /\ c[2] \in Int /\ c[3] \in Int /\ c[4] \in Int /\ c[5] \in Int
    BY DEF IsKey
  <1>3. ~Lex(a, a) /\ (a[5] # b[5] => Lex(a, b) \/ Lex(b, a))
    BY <1>2
  <1>4. Lex(a, b) /\ Lex(b, c) => Lex(a, c)
    BY <1>2
  <1>. HIDE DEF Lex
  <1>. QED  BY <1>1, <1>3, <1>4

(* Up to three things can be put into any strict order of them.            *)
LEMMA ThreeSorted ==
  ASSUME NEW a, NEW b, NEW c, a # b, b # c, a # c,
         NEW C \in SUBSET {a, b, c}, NEW L,
         \A x, y \in C : x # y => <<x, y>> \in L \/ <<y, x>> \in L,
         \A x, y, z \in C : <<x, y>> \in L /\ <<y, z>> \in L => <<x, z>> \in L
  PROVE  /\ Cardinality(C) \in 0..3
         /\ \E r \in [1..Cardinality(C) -> C] :
              \A j, k \in 1..Cardinality(C) : j < k => <<r[j], r[k]>> \in L
  <1>1. \/ C = {}
        \/ \E x : C = {x}
        \/ \E x, y : x # y /\ C = {x, y} /\ <<x, y>> \in L
        \/ \E x, y, z : /\ x # y /\ y # z /\ x # z /\ C = {x, y, z}
                        /\ <<x, y>> \in L /\ <<y, z>> \in L /\ <<x, z>> \in L
    <2>1. CASE a \in C /\ b \in C /\ c \in C
      <3>1. /\ C = {a, b, c} /\ C = {a, c, b} /\ C = {b, a, c}
            /\ C = {b, c, a} /\ C = {c, a, b} /\ C = {c, b, a}
        BY <2>1
      <3>2. /\ <<a, b>> \in L \/ <<b, a>> \in L
            /\ <<b, c>> \in L \/ <<c, b>> \in L
            /\ <<a, c>> \in L \/ <<c, a>> \in L
        BY <2>1
      <3>3. CASE <<a, b>> \in L /\ <<b, c>> \in L
        BY <2>1, <3>1, <3>3
      <3>4. CASE <<a, c>> \in L /\ <<c, b>> \in L
        BY <2>1, <3>1, <3>4
      <3>5. CASE <<b, a>> \in L /\ <<a, c>> \in L
        BY <2>1, <3>1, <3>5
      <3>6. CASE <<b, c>> \in L /\ <<c, a>> \in L
        BY <2>1, <3>1, <3>6
      <3>7. CASE <<c, a>> \in L /\ <<a, b>> \in L
        BY <2>1, <3>1, <3>7
      <3>8. CASE <<c, b>> \in L /\ <<b, a>> \in L
        BY <2>1, <3>1, <3>8
      <3>. QED  BY <3>2, <3>3, <3>4, <3>5, <3>6, <3>7, <3>8
    <2>2. CASE a \in C /\ b \in C /\ c \notin C
      <3>1. C = {a, b} /\ C = {b, a}
        BY <2>2
      <3>. QED  BY <2>2, <3>1
    <2>3. CASE a \in C /\ b \notin C /\ c \in C
      <3>1. C = {a, c} /\ C = {c, a}
        BY <2>3
      <3>. QED  BY <2>3, <3>1
    <2>4. CASE a \notin C /\ b \in C /\ c \in C
      <3>1. C = {b, c} /\ C = {c, b}
        BY <2>4
      <3>. QED  BY <2>4, <3>1
    <2>5. CASE C = {} \/ C = {a} \/ C = {b} \/ C = {c}
      BY <2>5
    <2>6. C = {} \/ C = {a} \/ C = {b} \/ C = {c} \/ (a \in C /\ b \in C) \/ (a \in C /\ c \in C)
            \/ (b \in C /\ c \in C)
      OBVIOUS
    <2>. QED  BY <2>1, <2>2, <2>3, <2>4, <2>5, <2>6
  <1>2. CASE C = {}
    <2>1. Cardinality(C) = 0
      BY <1>2, FS_EmptySet
    <2>. DEFINE r == [k \in 1..0 |-> 0]
    <2>2. r \in [1..0 -> C] /\ 1..0 = {}
      OBVIOUS
    <2>. HIDE DEF r
    <2>3. \A j, k \in 1..0 : j < k => <<r[j], r[k]>> \in L
      BY <2>2
    <2>4. 0 \in 0..3
      OBVIOUS
    <2>. QED  BY <2>1, <2>2, <2>3, <2>4
  <1>3. CASE \E x : C = {x}
    <2>1. PICK x : C = {x}
      BY <1>3
    <2>2. Cardinality(C) = 1
      BY <2>1, FS_Singleton
    <2>. DEFINE r == [k \in 1..1 |-> x]
    <2>3. r \in [1..1 -> C]
      BY <2>1
    <2>. HIDE DEF r
    <2>4. \A j, k \in 1..1 : j < k => <<r[j], r[k]>> \in L
      OBVIOUS
    <2>. QED  BY <2>2, <2>3, <2>4
  <1>4. CASE \E x, y : x # y /\ C = {x, y} /\ <<x, y>> \in L
    <2>1. PICK x, y : x # y /\ C = {x, y} /\ <<x, y>> \in L
      BY <1>4
    <2>2. Cardinality({x}) = 1 /\ IsFiniteSet({x})
      BY FS_Singleton
    <2>2a. C = {x} \cup {y} /\ y \notin {x}
      BY <2>1
    <2>3. Cardinality(C) = 2
      BY <2>2, <2>2a, FS_AddElement
    <2>. DEFINE r == [k \in 1..2 |-> IF k = 1 THEN x ELSE y]
    <2>4. r \in [1..2 -> C] /\ r[1] = x /\ r[2] = y
      BY <2>1
    <2>. HIDE DEF r
    <2>5. \A j, k \in 1..2 : j < k => <<r[j], r[k]>> \in L
      BY <2>1, <2>4
    <2>. QED  BY <2>3, <2>4, <2>5
  <1>5. CASE \E x, y, z : /\ x # y /\ y # z /\ x # z /\ C = {x, y, z}
                          /\ <<x, y>> \in L /\ <<y, z>> \in L /\ <<x, z>> \in L
    <2>1. PICK x, y, z : /\ x # y /\ y # z /\ x # z /\ C = {x, y, z}
                         /\ <<x, y>> \in L /\ <<y, z>> \in L /\ <<x, z>> \in L
      BY <1>5
    <2>2. Cardinality({x}) = 1 /\ IsFiniteSet({x})
      BY FS_Singleton
    <2>2a. {x, y} = {x} \cup {y} /\ y \notin {x} /\ C = {x, y} \cup {z} /\ z \notin {x, y}
      BY <2>1
    <2>3. Cardinality({x, y}) = 2 /\ IsFiniteSet({x, y})
      BY <2>2, <2>2a, FS_AddElement
    <2>4. Cardinality(C) = 3
      BY <2>2a, <2>3, FS_AddElement
    <2>. DEFINE r == [k \in 1..3 |-> IF k = 1 THEN x ELSE IF k = 2 THEN y ELSE z]
    <2>5. r \in [1..3 -> C] /\ r[1] = x /\ r[2] = y /\ r[3] = z
      BY <2>1
    <2>. HIDE DEF r
    <2>6. \A j, k \in 1..3 : j < k => <<r[j], r[k]>> \in L
      <3>1. \A j, k \in 1..3 : j < k => \/ j = 1 /\ k = 2
                                        \/ j = 1 /\ k = 3
                                        \/ j = 2 /\ k = 3
        OBVIOUS
      <3>2. /\ <<r[1], r[2]>> \in L
            /\ <<r[1], r[3]>> \in L
            /\ <<r[2], r[3]>> \in L
        BY <2>1, <2>5
      <3>. QED  BY <3>1, <3>2
    <2>7. Cardinality(C) \in 0..3
      BY <2>4
    <2>8. r \in [1..Cardinality(C) -> C]
      BY <2>4, <2>5
    <2>9. \A j, k \in 1..Cardinality(C) : j < k => <<r[j], r[k]>> \in L
      BY <2>4, <2>6
    <2>. QED  BY <2>7, <2>8, <2>9
  <1>. QED  BY <1>1, <1>2, <1>3, <1>4, <1>5

----------------------------------------------------------------------------
(* The scores are whole numbers that do not fall when an offer gets better.*)

(* Division rounds down, and so keeps the order.                           *)
LEMMA DivOrder ==
  ASSUME NEW m \in Int, NEW n \in Int, NEW d \in Nat \ {0}, m <= n
  PROVE  /\ m \div d \in Int /\ n \div d \in Int
         /\ m \div d <= n \div d
         /\ m >= 0 => m \div d >= 0
  <1>. DEFINE p == m \div d
              q == n \div d
  <1>1. /\ p \in Int /\ d * p <= m /\ m < d * (p + 1)
        /\ q \in Int /\ d * q <= n /\ n < d * (q + 1)
    OBVIOUS
  <1>. HIDE DEF p, q
  <1>2. p <= q
    <2>1. d * p < d * (q + 1)
      BY <1>1
    <2>2. p < q + 1
      BY <1>1, <2>1
    <2>. QED  BY <1>1, <2>2
  <1>3. m >= 0 => p >= 0
    <2>1. m >= 0 => 0 < d * (p + 1)
      BY <1>1
    <2>2. m >= 0 => 0 < p + 1
      BY <1>1, <2>1
    <2>. QED  BY <1>1, <2>2
  <1>. QED  BY <1>1, <1>2, <1>3 DEF p, q

(* Rounding to the nearest keeps the order.                                *)
LEMMA HalfUpOrder ==
  ASSUME NEW m \in Int, NEW n \in Int, NEW d \in Nat \ {0}, m <= n
  PROVE  /\ HalfUp(m, d) \in Int /\ HalfUp(n, d) \in Int
         /\ HalfUp(m, d) <= HalfUp(n, d)
         /\ m >= 0 => HalfUp(m, d) >= 0
  <1>1. d \div 2 \in Nat
    OBVIOUS
  <1>. DEFINE h == d \div 2
  <1>2. h \in Nat
    BY <1>1
  <1>. HIDE DEF h
  <1>3. m + h \in Int /\ n + h \in Int /\ m + h <= n + h /\ (m >= 0 => m + h >= 0)
    BY <1>2
  <1>. QED  BY <1>3, DivOrder DEF HalfUp, h

(* The smallest and the largest of at most three numbers.                  *)
LEMMA BoundsOfThree ==
  ASSUME NEW a, NEW b, NEW c, NEW C \in SUBSET {a, b, c}, C # {}, NEW f \in [C -> Int],
         NEW S, \A x \in C : f[x] \in S, \A y \in S : \E x \in C : y = f[x]
  PROVE  /\ Min(S) \in Int /\ Max(S) \in Int
         /\ \A x \in C : Min(S) <= f[x] /\ f[x] <= Max(S)
  <1>1. \E x \in C : \A y \in C : f[x] <= f[y]
    OBVIOUS
  <1>2. \E x \in C : \A y \in C : f[x] >= f[y]
    OBVIOUS
  <1>3. (\E x \in S : \A y \in S : x <= y) /\ (\E x \in S : \A y \in S : x >= y)
    BY <1>1, <1>2
  <1>4. S \subseteq Int /\ \A x \in C : f[x] \in S
    OBVIOUS
  <1>5. Min(S) \in S /\ \A y \in S : Min(S) <= y
    BY <1>3 DEF Min
  <1>6. Max(S) \in S /\ \A y \in S : Max(S) >= y
    BY <1>3 DEF Max
  <1>7. Min(S) \in Int /\ Max(S) \in Int
    BY <1>4, <1>5, <1>6
  <1>8. \A x \in C : Min(S) <= f[x] /\ f[x] <= Max(S)
    BY <1>4, <1>5, <1>6
  <1>. QED  BY <1>7, <1>8

(* What is smaller scores no less (rank.py:255-287).                       *)
LEMMA InvertOrder ==
  ASSUME NEW lo \in Int, NEW hi \in Int, lo <= hi, NEW v \in Int, NEW w \in Int, v <= w
  PROVE  /\ InvertMinMax(v, lo, hi) \in Int /\ InvertMinMax(w, lo, hi) \in Int
         /\ InvertMinMax(w, lo, hi) <= InvertMinMax(v, lo, hi)
  <1>1. CASE lo = hi
    BY <1>1, ScaleAssumption DEF InvertMinMax
  <1>2. CASE lo # hi
    <2>. DEFINE m == (hi - w) * Scale
                n == (hi - v) * Scale
                d == hi - lo
    <2>1. m \in Int /\ n \in Int /\ d \in Nat \ {0} /\ m <= n
      <3>1. Scale \in Nat /\ hi - w \in Int /\ hi - v \in Int /\ hi - w <= hi - v
        BY ScaleAssumption
      <3>. QED  BY <1>2, <3>1
    <2>2. InvertMinMax(v, lo, hi) = HalfUp(n, d) /\ InvertMinMax(w, lo, hi) = HalfUp(m, d)
      BY <1>2 DEF InvertMinMax
    <2>. HIDE DEF m, n, d
    <2>. QED  BY <2>1, <2>2, HalfUpOrder
  <1>. QED  BY <1>1, <1>2

(* A weight keeps the order.                                               *)
LEMMA WeightedOrder ==
  ASSUME NEW m \in Int, NEW n \in Int, m <= n, NEW c \in DOMAIN Weights
  PROVE  /\ Weighted(m, c) \in Int /\ Weighted(n, c) \in Int
         /\ Weighted(m, c) <= Weighted(n, c)
  <1>. DEFINE k == Weights[c] * (Scale \div 100)
              h == Scale \div 2
  <1>1. Weights[c] \in Nat
    BY DEF Weights
  <1>2. Scale \div 100 \in Nat /\ h \in Nat
    BY ScaleAssumption
  <1>3. k \in Nat
    BY <1>1, <1>2
  <1>4. Weighted(m, c) = (m * k + h) \div Scale /\ Weighted(n, c) = (n * k + h) \div Scale
    BY DEF Weighted
  <1>. HIDE DEF k, h
  <1>5. m * k \in Int /\ n * k \in Int /\ m * k <= n * k
    BY <1>3
  <1>6. m * k + h \in Int /\ n * k + h \in Int /\ m * k + h <= n * k + h
    BY <1>2, <1>5
  <1>. QED  BY <1>4, <1>6, ScaleAssumption, DivOrder

(* A score is kept between 0 and Scale.                                    *)
LEMMA ClampOrder ==
  ASSUME NEW m \in Int, NEW n \in Int, m <= n
  PROVE  /\ Max({0, Min({Scale, m})}) \in Int /\ Max({0, Min({Scale, n})}) \in Int
         /\ Max({0, Min({Scale, m})}) <= Max({0, Min({Scale, n})})
  <1>1. \A x, y \in Int : Min({x, y}) = IF x <= y THEN x ELSE y
    BY DEF Min
  <1>2. \A x, y \in Int : Max({x, y}) = IF x <= y THEN y ELSE x
    BY DEF Max
  <1>3. Scale \in Int
    BY ScaleAssumption
  <1>. QED  BY <1>1, <1>2, <1>3

----------------------------------------------------------------------------
(* The offers of a cohort.                                                 *)

Rankable(o) ==
  /\ o.total \in Nat /\ o.shuttle \in Nat /\ o.distance \in Nat
  /\ o.lot \in CoveredLots \cup UncoveredLots
  /\ o.cancellation \in DOMAIN Cancellation
  /\ IsFiniteSet(o.addOns) /\ IsFiniteSet(o.evidence)
  /\ o.supplier \in Supplier /\ o.from \in Int /\ o.until \in Int

(* There are three suppliers, and so at most three offers in a cohort.     *)
Cohort(C) == (\E a, b, c : C \subseteq {a, b, c}) /\ \A x \in C : Rankable(x)

(* What an attribute scores within a cohort.                               *)
LEMMA WithinOrder ==
  ASSUME NEW C, Cohort(C), NEW f \in [C -> Int],
         NEW S, S = {f[x] : x \in C}, NEW o \in C, NEW w \in C, f[o] <= f[w]
  PROVE  /\ InvertMinMax(f[o], Min(S), Max(S)) \in Int
         /\ InvertMinMax(f[w], Min(S), Max(S)) \in Int
         /\ InvertMinMax(f[w], Min(S), Max(S)) <= InvertMinMax(f[o], Min(S), Max(S))
  <1>1. /\ Min(S) \in Int /\ Max(S) \in Int
        /\ \A x \in C : Min(S) <= f[x] /\ f[x] <= Max(S)
    <2>1. C # {}
      OBVIOUS
    <2>2. PICK a, b, c : C \in SUBSET {a, b, c}
      BY DEF Cohort
    <2>. QED  BY <2>1, <2>2, BoundsOfThree
  <1>. DEFINE lo == Min(S)
              hi == Max(S)
              v == f[o]
              u == f[w]
  <1>2. lo \in Int /\ hi \in Int /\ lo <= hi /\ v \in Int /\ u \in Int /\ v <= u
    BY <1>1
  <1>. HIDE DEF lo, hi, v, u
  <1>3. /\ InvertMinMax(v, lo, hi) \in Int /\ InvertMinMax(u, lo, hi) \in Int
        /\ InvertMinMax(u, lo, hi) <= InvertMinMax(v, lo, hi)
    BY <1>2, InvertOrder
  <1>. QED  BY <1>3 DEF lo, hi, v, u

(* The add-ons a request asks for, and how many of them an offer has.      *)
LEMMA Coverings ==
  ASSUME NEW N, IsFiniteSet(N), NEW A, NEW B, A \cap N \subseteq B \cap N
  PROVE  /\ Cardinality(N \cap A) \in Nat /\ Cardinality(N \cap B) \in Nat
         /\ Cardinality(N \cap A) <= Cardinality(N \cap B)
         /\ Cardinality(N) \in Nat
         /\ N # {} => Cardinality(N) # 0
  <1>1. IsFiniteSet(N \cap A) /\ IsFiniteSet(N \cap B)
    BY FS_Intersection
  <1>2. N \cap A \subseteq N \cap B
    OBVIOUS
  <1>. QED  BY <1>1, <1>2, FS_CardinalityType, FS_Subset, FS_EmptySet

(* Counting keeps the order.                                               *)
LEMMA CountOrder ==
  ASSUME NEW m \in Nat, NEW n \in Nat, NEW d \in Nat \ {0}, m <= n
  PROVE  /\ HalfUp(m * Scale, d) \in Int /\ HalfUp(n * Scale, d) \in Int
         /\ HalfUp(m * Scale, d) <= HalfUp(n * Scale, d)
  <1>1. m * Scale \in Int /\ n * Scale \in Int /\ m * Scale <= n * Scale
    BY ScaleAssumption
  <1>. QED  BY <1>1, HalfUpOrder

(* Terms that can be cancelled are worth something.                        *)
LEMMA CancellationValues ==
  \A c \in DOMAIN Cancellation : Cancellation[c] \in Nat
  <1>1. Scale \in Nat /\ (7 * Scale) \div 10 \in Nat
    BY ScaleAssumption
  <1>. QED  BY <1>1 DEF Cancellation

(* An offer that is as good as another scores no less in anything.         *)
LEMMA RawOrder ==
  ASSUME NEW C, Cohort(C), NEW need, IsFiniteSet(need.addOns), NEW o \in C, NEW w \in C, AsGood(o, w)
  PROVE  LET p == Raw(o, C, need)
             q == Raw(w, C, need)
         IN  \A k \in {"price", "shuttle", "distance", "reliability", "cancellation",
                       "coverage", "add_on"} :
               p[k] \in Int /\ q[k] \in Int /\ q[k] <= p[k]
  <1>. DEFINE p == Raw(o, C, need)
              q == Raw(w, C, need)
              T == {x.total : x \in C}
              S == {x.shuttle : x \in C}
              D == {x.distance : x \in C}
              Trust(x) == IF x.supplier \in DOMAIN Reliability THEN Reliability[x.supplier] ELSE 0
              Cancel(x) == IF x.refund = "none" THEN 0 ELSE Cancellation[x.cancellation]
              Cover(x) == IF need.covered = "none" \/ x.lot \in CoveredLots THEN Scale ELSE 0
              Add(x) == IF need.addOns = {} THEN Scale
                        ELSE HalfUp(Cardinality(need.addOns \cap x.addOns) * Scale,
                                    Cardinality(need.addOns))
  <1>1. /\ p.price = InvertMinMax(o.total, Min(T), Max(T))
        /\ q.price = InvertMinMax(w.total, Min(T), Max(T))
        /\ p.shuttle = InvertMinMax(o.shuttle, Min(S), Max(S))
        /\ q.shuttle = InvertMinMax(w.shuttle, Min(S), Max(S))
        /\ p.distance = InvertMinMax(o.distance, Min(D), Max(D))
        /\ q.distance = InvertMinMax(w.distance, Min(D), Max(D))
    BY DEF Raw
  <1>2. /\ p.reliability = Trust(o) /\ q.reliability = Trust(w)
        /\ p.cancellation = Cancel(o) /\ q.cancellation = Cancel(w)
        /\ p.coverage = Cover(o) /\ q.coverage = Cover(w)
        /\ p.add_on = Add(o) /\ q.add_on = Add(w)
    BY DEF Raw
  <1>. HIDE DEF p, q
  <1>3. p.price \in Int /\ q.price \in Int /\ q.price <= p.price
    <2>. DEFINE f == [x \in C |-> x.total]
    <2>1. f \in [C -> Int] /\ T = {f[x] : x \in C} /\ f[o] = o.total /\ f[w] = w.total
      BY DEF Cohort, Rankable
    <2>2. f[o] <= f[w]
      BY DEF AsGood
    <2>. HIDE DEF f, T
    <2>3. /\ InvertMinMax(f[o], Min(T), Max(T)) \in Int
          /\ InvertMinMax(f[w], Min(T), Max(T)) \in Int
          /\ InvertMinMax(f[w], Min(T), Max(T)) <= InvertMinMax(f[o], Min(T), Max(T))
      BY <2>1, <2>2, WithinOrder
    <2>. QED  BY <1>1, <2>1, <2>3
  <1>4. p.shuttle \in Int /\ q.shuttle \in Int /\ q.shuttle <= p.shuttle
    <2>. DEFINE f == [x \in C |-> x.shuttle]
    <2>1. f \in [C -> Int] /\ S = {f[x] : x \in C} /\ f[o] = o.shuttle /\ f[w] = w.shuttle
      BY DEF Cohort, Rankable
    <2>2. f[o] <= f[w]
      BY DEF AsGood
    <2>. HIDE DEF f, S
    <2>3. /\ InvertMinMax(f[o], Min(S), Max(S)) \in Int
          /\ InvertMinMax(f[w], Min(S), Max(S)) \in Int
          /\ InvertMinMax(f[w], Min(S), Max(S)) <= InvertMinMax(f[o], Min(S), Max(S))
      BY <2>1, <2>2, WithinOrder
    <2>. QED  BY <1>1, <2>1, <2>3
  <1>5. p.distance \in Int /\ q.distance \in Int /\ q.distance <= p.distance
    <2>. DEFINE f == [x \in C |-> x.distance]
    <2>1. f \in [C -> Int] /\ D = {f[x] : x \in C} /\ f[o] = o.distance /\ f[w] = w.distance
      BY DEF Cohort, Rankable
    <2>2. f[o] <= f[w]
      BY DEF AsGood
    <2>. HIDE DEF f, D
    <2>3. /\ InvertMinMax(f[o], Min(D), Max(D)) \in Int
          /\ InvertMinMax(f[w], Min(D), Max(D)) \in Int
          /\ InvertMinMax(f[w], Min(D), Max(D)) <= InvertMinMax(f[o], Min(D), Max(D))
      BY <2>1, <2>2, WithinOrder
    <2>. QED  BY <1>1, <2>1, <2>3
  <1>. HIDE DEF T, S, D
  <1>6. Trust(o) \in Int /\ Trust(w) \in Int /\ Trust(w) <= Trust(o)
    BY TermsAssumption DEF AsGood
  <1>7. Cancel(o) \in Int /\ Cancel(w) \in Int /\ Cancel(w) <= Cancel(o)
    <2>1. /\ Cancellation[o.cancellation] \in Nat /\ Cancellation[w.cancellation] \in Nat
          /\ Cancellation[w.cancellation] <= Cancellation[o.cancellation]
          /\ o.refund # "none" \/ w.refund = "none"
      BY CancellationValues DEF AsGood, Cohort, Rankable
    <2>. QED  BY <2>1
  <1>8. Cover(o) \in Int /\ Cover(w) \in Int /\ Cover(w) <= Cover(o)
    BY ScaleAssumption DEF AsGood
  <1>9. Add(o) \in Int /\ Add(w) \in Int /\ Add(w) <= Add(o)
    <2>1. w.addOns \subseteq o.addOns
      BY DEF AsGood
    <2>2. /\ Cardinality(need.addOns \cap w.addOns) \in Nat
          /\ Cardinality(need.addOns \cap o.addOns) \in Nat
          /\ Cardinality(need.addOns \cap w.addOns) <= Cardinality(need.addOns \cap o.addOns)
          /\ Cardinality(need.addOns) \in Nat
          /\ need.addOns # {} => Cardinality(need.addOns) # 0
      BY <2>1, Coverings
    <2>3. CASE need.addOns = {}
      BY <2>3, ScaleAssumption
    <2>4. CASE need.addOns # {}
      BY <2>2, <2>4, CountOrder
    <2>. QED  BY <2>3, <2>4
  <1>. HIDE DEF Trust, Cancel, Cover, Add
  <1>10. /\ p.reliability \in Int /\ q.reliability \in Int /\ q.reliability <= p.reliability
         /\ p.cancellation \in Int /\ q.cancellation \in Int /\ q.cancellation <= p.cancellation
         /\ p.coverage \in Int /\ q.coverage \in Int /\ q.coverage <= p.coverage
         /\ p.add_on \in Int /\ q.add_on \in Int /\ q.add_on <= p.add_on
    BY <1>2, <1>6, <1>7, <1>8, <1>9
  <1>. QED  BY <1>3, <1>4, <1>5, <1>10 DEF p, q

(* An offer that is as good as another has no lower score.                 *)
LEMMA ScoreOrder ==
  ASSUME NEW C, Cohort(C), NEW need, IsFiniteSet(need.addOns), NEW o \in C, NEW w \in C, AsGood(o, w)
  PROVE  /\ Score(o, C, need) \in Int /\ Score(w, C, need) \in Int
         /\ Score(w, C, need) <= Score(o, C, need)
  <1>. DEFINE p == Raw(o, C, need)
              q == Raw(w, C, need)
              names == {"price", "shuttle", "distance", "reliability", "cancellation",
                        "coverage", "add_on"}
              Sum(r) == Weighted(r.price, "price") + Weighted(r.reliability, "reliability")
                   + Weighted(r.cancellation, "cancellation") + Weighted(r.shuttle, "shuttle")
                   + Weighted(r.distance, "distance") + Weighted(r.coverage, "coverage")
                   + Weighted(r.add_on, "add_on")
              Penalty(x) == IF x.supplier \in DOMAIN Reliability THEN 0 ELSE MissingPenalty
  <1>1. \A k \in names : p[k] \in Int /\ q[k] \in Int /\ q[k] <= p[k]
    BY RawOrder
  <1>2. names \subseteq DOMAIN Weights
    BY DEF Weights
  <1>3. /\ Score(o, C, need) = Max({0, Min({Scale, Sum(p) - Penalty(o)})})
        /\ Score(w, C, need) = Max({0, Min({Scale, Sum(q) - Penalty(w)})})
    BY DEF Score
  <1>. HIDE DEF p, q
  <1>4. \A k \in names : /\ Weighted(p[k], k) \in Int /\ Weighted(q[k], k) \in Int
                         /\ Weighted(q[k], k) <= Weighted(p[k], k)
    <2>. HIDE DEF names
    <2>. QED  BY <1>1, <1>2, WeightedOrder
  <1>5. Sum(p) \in Int /\ Sum(q) \in Int /\ Sum(q) <= Sum(p)
    BY <1>4
  <1>6. MissingPenalty \in Nat
    BY ScaleAssumption DEF MissingPenalty
  <1>7. Penalty(o) \in Int /\ Penalty(w) \in Int /\ Penalty(o) <= Penalty(w)
    BY <1>6 DEF AsGood
  <1>. DEFINE m == Sum(q) - Penalty(w)
              n == Sum(p) - Penalty(o)
  <1>8. m \in Int /\ n \in Int /\ m <= n
    <2>. HIDE DEF Sum, Penalty
    <2>. QED  BY <1>5, <1>7
  <1>9. Score(o, C, need) = Max({0, Min({Scale, n})}) /\ Score(w, C, need) = Max({0, Min({Scale, m})})
    BY <1>3
  <1>. HIDE DEF m, n
  <1>. QED  BY <1>8, <1>9, ClampOrder

(* What is read of an offer to break a tie.                                *)
LEMMA EvidenceOrder ==
  ASSUME NEW o, NEW w, IsFiniteSet(o.evidence), IsFiniteSet(w.evidence)
  PROVE  EvidenceCoverage(o) \in Int /\ EvidenceCoverage(w) \in Int
  <1>. DEFINE E == EvidenceClasses
              n == Cardinality(o.evidence \cap E)
              m == Cardinality(w.evidence \cap E)
  <1>1. n \in Nat /\ m \in Nat
    BY FS_Intersection, FS_CardinalityType
  <1>2. IsFiniteSet(E) /\ E # {}
    <2>1. IsFiniteSet({"supplier_policy"})
      BY FS_Singleton
    <2>2. IsFiniteSet({"supplier_policy"} \cup {"rate_card"})
      BY <2>1, FS_AddElement
    <2>3. IsFiniteSet(({"supplier_policy"} \cup {"rate_card"}) \cup {"lot_rules"})
      BY <2>2, FS_AddElement
    <2>4. IsFiniteSet((({"supplier_policy"} \cup {"rate_card"}) \cup {"lot_rules"})
                        \cup {"availability_snapshot"})
      BY <2>3, FS_AddElement
    <2>5. E = (({"supplier_policy"} \cup {"rate_card"}) \cup {"lot_rules"})
                        \cup {"availability_snapshot"}
      BY DEF EvidenceClasses
    <2>. QED  BY <2>4, <2>5
  <1>3. Cardinality(E) \in Nat \ {0}
    BY <1>2, FS_CardinalityType, FS_EmptySet
  <1>. DEFINE d == Cardinality(E)
  <1>4. EvidenceCoverage(o) = HalfUp(n * Scale, d) /\ EvidenceCoverage(w) = HalfUp(m * Scale, d)
    BY DEF EvidenceCoverage
  <1>. HIDE DEF n, m, d
  <1>5. d \in Nat \ {0}
    BY <1>3 DEF d
  <1>. QED  BY <1>1, <1>4, <1>5, CountOrder

(* An offer is as good as itself.                                          *)
LEMMA AsGoodAsItself ==
  ASSUME NEW o, Rankable(o)
  PROVE  AsGood(o, o)
  <1>1. Cancellation[o.cancellation] \in Int /\ EvidenceCoverage(o) \in Int
    BY CancellationValues, EvidenceOrder DEF Rankable
  <1>2. o.supplier \in DOMAIN Reliability => Reliability[o.supplier] \in Int
    BY TermsAssumption
  <1>. QED  BY <1>1, <1>2 DEF AsGood, Rankable

(* The key of an offer in its cohort.                                      *)
LEMMA KeyParts ==
  ASSUME NEW C, Cohort(C), NEW need, IsFiniteSet(need.addOns), NEW o \in C, NEW t \in Int,
         NEW k, k = TieKey(o, C, need, t)
  PROVE  /\ IsKey(k)
         /\ k[1] = -Score(o, C, need) /\ k[2] = -EvidenceCoverage(o)
         /\ k[3] = -(o.until - t) /\ k[4] = o.total /\ k[5] = o.supplier
  <1>1. Score(o, C, need) \in Int
    BY AsGoodAsItself, ScoreOrder DEF Cohort
  <1>2. EvidenceCoverage(o) \in Int
    BY EvidenceOrder DEF Cohort, Rankable
  <1>3. o.until \in Int /\ o.total \in Int /\ o.supplier \in Int
    BY DEF Cohort, Rankable, Supplier
  <1>4. /\ DOMAIN k = 1..5
        /\ k[1] = -Score(o, C, need) /\ k[2] = -EvidenceCoverage(o)
        /\ k[3] = -(o.until - t) /\ k[4] = o.total /\ k[5] = o.supplier
    BY DEF TieKey
  <1>5. /\ k[1] \in Int /\ k[2] \in Int /\ k[3] \in Int /\ k[4] \in Int /\ k[5] \in Int
    BY <1>1, <1>2, <1>3, <1>4
  <1>6. IsKey(k)
    BY <1>4, <1>5 DEF IsKey
  <1>. QED  BY <1>4, <1>6

(* The offers of one dispatch: one for each supplier at most.              *)
Answers(offers) ==
  /\ \E a, b, c : a # b /\ b # c /\ a # c /\ offers \in SUBSET {a, b, c}
  /\ \A x \in offers : Rankable(x)
  /\ \A x, y \in offers : x # y => x.supplier # y.supplier

Eligibles(offers, need, t) == {o \in offers : Eligible(o, need, t)}

(* The eligible offers of three suppliers are put into the order of their  *)
(* keys (rank.py:289-388).                                                 *)
LEMMA RankedParts ==
  ASSUME NEW offers, Answers(offers), NEW need, IsFiniteSet(need.addOns), NEW t \in Int,
         NEW C, C = Eligibles(offers, need, t), NEW r, r = Ranked(offers, need, t)
  PROVE  /\ Cardinality(C) \in 0..3
         /\ r \in [1..Cardinality(C) -> C]
         /\ \A j, k \in 1..Cardinality(C) : j < k =>
               Lexicographic(TieKey(r[j], C, need, t), TieKey(r[k], C, need, t))
  <1>. DEFINE key == [o \in C |-> TieKey(o, C, need, t)]
              L == {p \in C \X C : Lexicographic(key[p[1]], key[p[2]])}
              n == Cardinality(C)
              InOrder(x) == \A j, k \in DOMAIN x : j < k => Lexicographic(key[x[j]], key[x[k]])
  <1>. PICK a, b, c : a # b /\ b # c /\ a # c /\ offers \in SUBSET {a, b, c}
    BY DEF Answers
  <1>1. C \in SUBSET {a, b, c} /\ Cohort(C)
    BY DEF Cohort, Answers, Eligibles
  <1>2. \A x \in C : key[x] = TieKey(x, C, need, t)
    OBVIOUS
  <1>3. r = CHOOSE x \in [1..n -> C] : InOrder(x)
    BY DEF Ranked, Eligibles
  <1>4. \A x, y \in C : <<x, y>> \in L <=> Lexicographic(key[x], key[y])
    OBVIOUS
  <1>5. \A x, y \in C : x # y => x.supplier # y.supplier
    BY DEF Answers, Eligibles
  <1>6. \A x \in C : IsKey(key[x]) /\ key[x][5] = x.supplier
    BY <1>1, <1>2, KeyParts
  <1>. HIDE DEF key, L
  <1>7. \A x, y \in C : x # y => <<x, y>> \in L \/ <<y, x>> \in L
    BY <1>4, <1>5, <1>6, KeysOrdered
  <1>8. \A x, y, z \in C : <<x, y>> \in L /\ <<y, z>> \in L => <<x, z>> \in L
    BY <1>4, <1>6, KeysOrdered
  <1>9. /\ n \in 0..3
        /\ \E x \in [1..n -> C] : \A j, k \in 1..n : j < k => <<x[j], x[k]>> \in L
    BY <1>1, <1>7, <1>8, ThreeSorted
  <1>10. \E x \in [1..n -> C] : InOrder(x)
    <2>1. PICK x \in [1..n -> C] : \A j, k \in 1..n : j < k => <<x[j], x[k]>> \in L
      BY <1>9
    <2>2. DOMAIN x = 1..n /\ \A j \in 1..n : x[j] \in C
      OBVIOUS
    <2>. HIDE DEF n
    <2>3. InOrder(x)
      BY <1>4, <2>1, <2>2
    <2>. QED  BY <2>1, <2>3
  <1>. HIDE DEF InOrder, n
  <1>11. r \in [1..n -> C] /\ InOrder(r)
    BY <1>3, <1>10
  <1>12. \A j, k \in 1..n : j < k =>
            Lexicographic(TieKey(r[j], C, need, t), TieKey(r[k], C, need, t))
    <2>1. DOMAIN r = 1..n /\ \A j \in 1..n : r[j] \in C
      BY <1>11
    <2>. QED  BY <1>2, <1>11, <2>1 DEF InOrder
  <1>. QED  BY <1>9, <1>11, <1>12 DEF n

(* The first of two keys in order is not of an offer that the other one is *)
(* as good as and cheaper.                                                 *)
LEMMA NotDominated ==
  ASSUME NEW C, Cohort(C), NEW need, IsFiniteSet(need.addOns), NEW o \in C, NEW w \in C, NEW t \in Int,
         Lexicographic(TieKey(w, C, need, t), TieKey(o, C, need, t))
  PROVE  ~(AsGood(o, w) /\ o.total < w.total)
  <1>. SUFFICES ASSUME AsGood(o, w), o.total < w.total
                PROVE  FALSE
    OBVIOUS
  <1>. DEFINE k == TieKey(w, C, need, t)
              l == TieKey(o, C, need, t)
  <1>5. Lexicographic(k, l) /\ k = TieKey(w, C, need, t) /\ l = TieKey(o, C, need, t)
    OBVIOUS
  <1>. HIDE DEF k, l
  <1>1. /\ Score(o, C, need) \in Int /\ Score(w, C, need) \in Int
        /\ Score(w, C, need) <= Score(o, C, need)
    BY ScoreOrder
  <1>2. /\ EvidenceCoverage(o) \in Int /\ EvidenceCoverage(w) \in Int
        /\ EvidenceCoverage(w) <= EvidenceCoverage(o)
    BY EvidenceOrder DEF AsGood, Cohort, Rankable
  <1>3. /\ IsKey(k)
        /\ k[1] = -Score(w, C, need) /\ k[2] = -EvidenceCoverage(w)
        /\ k[3] = -(w.until - t) /\ k[4] = w.total
    BY <1>5, KeyParts
  <1>4. /\ IsKey(l)
        /\ l[1] = -Score(o, C, need) /\ l[2] = -EvidenceCoverage(o)
        /\ l[3] = -(o.until - t) /\ l[4] = o.total
    BY <1>5, KeyParts
  <1>6. l[1] <= k[1] /\ l[2] <= k[2]
    BY <1>1, <1>2, <1>3, <1>4
  <1>7. l[3] <= k[3] /\ l[4] < k[4]
    BY <1>3, <1>4 DEF AsGood, Cohort, Rankable
  <1>8. Lexicographic(l, k)
    <2>1. DOMAIN l = 1..5 /\ \A j \in 1..5 : l[j] \in Int /\ k[j] \in Int
      BY <1>3, <1>4 DEF IsKey
    <2>2. l[1] \in Int /\ k[1] \in Int /\ l[2] \in Int /\ k[2] \in Int /\ l[3] \in Int /\ k[3] \in Int
      BY <2>1
    <2>. QED  BY <1>6, <1>7, <2>1, <2>2, LexicographicFive
  <1>. QED  BY <1>3, <1>4, <1>5, <1>8, KeysOrdered

----------------------------------------------------------------------------
(* The dispatch: its inductive invariant.  Beside the accounts of the      *)
(* units it says where the collection stands, what each supplier's box     *)
(* can hold then, and that what a dispatch would give back when it is      *)
(* abandoned is what it has taken.                                         *)

Boxes == Closings \cup Offered

DispatchTypes ==
  /\ now \in Time
  /\ capacity \in [Supplier -> Int]
  /\ session \in [Intent -> Sessions \cup {None}]
  /\ told \in [Intent -> {"complete", "unavailable", None}]
  /\ call \in Calls \cup {None}

(* Suppliers are asked in turn, and an answer closes the box.              *)
Collecting(c) ==
  /\ c.open => c.turn # Done
  /\ \A s \in Supplier :
       /\ s < c.turn => c.box[s] # None
       /\ s = c.turn => c.box[s] = None /\ (c.asked[s] # None <=> c.open)
       /\ s > c.turn => c.box[s] = None /\ c.asked[s] = None
       /\ c.box[s] # None /\ c.turn # Done => c.box[s].kind \notin {"TIMED_OUT", "LATE"}

(* Who was asked, was asked in time.                                       *)
AskedInTime(c) ==
  \A s \in Supplier : c.asked[s] # None =>
     /\ c.issued <= c.asked[s] /\ c.asked[s] < Deadline
     /\ Expires[c.intent] - EnvelopeLife <= c.asked[s]

(* What a closed box says is what happened to its supplier.                *)
BoxExplained(c, s) ==
  LET b == c.box[s] IN
  /\ b.kind \in {"TIMED_OUT", "DENIED"} <=> c.asked[s] = None
  /\ b.kind \in {"TIMED_OUT", "LATE"} =>
       /\ b.received >= Deadline
       /\ \A r \in Supplier : r > s => c.box[r] # None /\ c.box[r].kind = "TIMED_OUT"
  /\ b.kind = "DENIED" => b.received < c.issued
  /\ b.kind = "OFFER" => /\ c.asked[s] <= b.received /\ b.received < Deadline
                         /\ b.from = c.asked[s] /\ b.from < b.until
                         /\ s \in c.spent

Explained(c) == \A s \in Supplier : c.box[s] # None => BoxExplained(c, s)

(* A unit is taken for a closed box, and can be given back.                *)
Spending(c, units) ==
  /\ \A s \in c.spent : c.box[s] # None
  /\ \A s \in Supplier : c.before[s] = units[s] + (IF s \in c.spent THEN 1 ELSE 0)

(* The ranking comes last, and the stream is told at once.                 *)
Concluded(c, stream) ==
  c.ranked # None => /\ c.turn = Done
                     /\ stream[c.intent] = "complete"
                     /\ c.mapped \subseteq c.spent

CallHolds(c, units, sessions, stream) ==
  /\ sessions[c.intent] = None
  /\ Collecting(c) /\ AskedInTime(c) /\ Explained(c)
  /\ Spending(c, units) /\ Concluded(c, stream)

DispatchInv ==
  /\ DispatchTypes
  /\ Accounted
  /\ call # None => CallHolds(call, capacity, session, told)

(* A ranking stays what the boxes say.                                     *)
RankedNow == call # None /\ call.ranked # None => call.ranked = RankedSuppliers

----------------------------------------------------------------------------
(* The candidates and their ranking.                                       *)

(* An offer in a box can be ranked.                                        *)
LEMMA CandidateParts ==
  ASSUME call \in Calls, NEW s \in Supplier, call.box[s] # None, call.box[s].kind = "OFFER"
  PROVE  Rankable(Candidate(s))
  <1>. DEFINE b == call.box[s]
              x == b.terms
  <1>1. b \in Offered
    BY DEF Calls, Closings
  <1>2. b.from \in Int /\ b.until \in Int /\ \E r \in Supplier : x \in Menu[r]
    BY <1>1, LimitAssumption DEF Offered, Time
  <1>3. Offerable(x)
    BY <1>2, TermsAssumption
  <1>4. /\ x.total \in Nat /\ x.shuttle \in Nat /\ x.distance \in Nat
        /\ x.lot \in CoveredLots \cup UncoveredLots
        /\ x.cancellation \in DOMAIN Cancellation
        /\ IsFiniteSet(x.addOns) /\ IsFiniteSet(x.evidence)
    BY <1>3 DEF Offerable
  <1>. DEFINE c == Candidate(s)
  <1>5. /\ c.total = x.total /\ c.shuttle = x.shuttle /\ c.distance = x.distance
        /\ c.lot = x.lot /\ c.addOns = x.addOns /\ c.cancellation = x.cancellation
        /\ c.evidence = x.evidence /\ c.supplier = s /\ c.from = b.from /\ c.until = b.until
    BY DEF Candidate
  <1>. HIDE DEF c, x, b
  <1>6. Rankable(c)
    BY <1>2, <1>4, <1>5 DEF Rankable
  <1>. QED  BY <1>6 DEF c

(* What is ranked: some of what was mapped, in force when the dispatch     *)
(* began, in the order of their keys.                                      *)
LEMMA RankingParts ==
  ASSUME call \in Calls, \A s \in Supplier : call.box[s] # None
  PROVE  /\ RankedSuppliers \in Rankings
         /\ \A k \in DOMAIN RankedSuppliers :
              /\ RankedSuppliers[k] \in Mapped
              /\ Eligible(Candidate(RankedSuppliers[k]), Need, call.occurred)
              /\ 1 < k => ~(/\ AsGood(Candidate(RankedSuppliers[k]), Candidate(RankedSuppliers[1]))
                            /\ Candidate(RankedSuppliers[k]).total
                                 < Candidate(RankedSuppliers[1]).total)
  <1>. DEFINE a == Candidate(1)
              b == Candidate(2)
              c == Candidate(3)
              offers == {Candidate(s) : s \in Mapped}
              t == call.occurred
              r == Ranked(offers, Need, t)
              C == {o \in offers : Eligible(o, Need, t)}
              n == Cardinality(C)
  <1>1. \A s \in Supplier : Candidate(s).supplier = s
    BY DEF Candidate
  <1>2. a # b /\ b # c /\ a # c
    BY <1>1 DEF Supplier
  <1>3. Mapped \subseteq Supplier
    BY DEF Mapped
  <1>4. offers \in SUBSET {a, b, c}
    BY <1>3 DEF Supplier
  <1>5. \A s \in Mapped : Rankable(Candidate(s))
    <2>. SUFFICES ASSUME NEW s \in Mapped
                  PROVE  Rankable(Candidate(s))
      OBVIOUS
    <2>1. call.box[s].kind = "OFFER" /\ s \in Supplier
      BY DEF Mapped, Accepted
    <2>. QED  BY <2>1, CandidateParts
  <1>6. t \in Int /\ IsFiniteSet(Need.addOns)
    BY TermsAssumption, LimitAssumption DEF Calls, Time
  <1>7. RankedSuppliers = [k \in DOMAIN r |-> r[k].supplier]
    BY DEF RankedSuppliers
  <1>8. \A x \in offers : Rankable(x) /\ \E s \in Mapped : x = Candidate(s)
    BY <1>5
  <1>9. \A x, y \in offers : x # y => x.supplier # y.supplier
    BY <1>1, <1>3, <1>8
  <1>10. \A o \in C : Eligible(o, Need, t) /\ o \in offers
    OBVIOUS
  <1>11. Cohort(C)
    <2>. HIDE DEF a, b, c, offers, t
    <2>. QED  BY <1>4, <1>8 DEF Cohort
  <1>22. C = Eligibles(offers, Need, t) /\ r = Ranked(offers, Need, t)
    BY DEF Eligibles
  <1>23. Answers(offers)
    <2>. HIDE DEF a, b, c, offers, t
    <2>. QED  BY <1>2, <1>4, <1>8, <1>9 DEF Answers
  <1>. HIDE DEF a, b, c, offers, t, C, r
  <1>12. /\ n \in 0..3
         /\ r \in [1..n -> C]
         /\ \A j, k \in 1..n : j < k =>
              Lexicographic(TieKey(r[j], C, Need, t), TieKey(r[k], C, Need, t))
    BY <1>6, <1>22, <1>23, RankedParts
  <1>. HIDE DEF n
  <1>13. \A k \in 1..n : /\ r[k] \in C /\ r[k].supplier \in Mapped
                         /\ r[k] = Candidate(r[k].supplier)
    BY <1>1, <1>3, <1>8, <1>10, <1>12
  <1>14. DOMAIN r = 1..n
    BY <1>12
  <1>15. RankedSuppliers \in [1..n -> Supplier]
    BY <1>3, <1>7, <1>13, <1>14
  <1>16. RankedSuppliers \in Rankings
    BY <1>12, <1>15 DEF Rankings
  <1>17. \A k \in 1..n : Candidate(RankedSuppliers[k]) = r[k] /\ RankedSuppliers[k] \in Mapped
    BY <1>7, <1>13, <1>14
  <1>18. ASSUME NEW k \in 1..n, 1 < k
         PROVE  ~(AsGood(r[k], r[1]) /\ r[k].total < r[1].total)
    <2>1. 1 \in 1..n
      BY <1>12, <1>18
    <2>2. Lexicographic(TieKey(r[1], C, Need, t), TieKey(r[k], C, Need, t))
      BY <1>12, <1>18, <2>1
    <2>. QED  BY <1>6, <1>11, <1>13, <2>1, <2>2, NotDominated
  <1>19. \A k \in 1..n : Eligible(r[k], Need, t)
    BY <1>10, <1>13
  <1>20. \A k \in 1..n : 1 < k => 1 \in 1..n
    BY <1>12
  <1>21. \A k \in 1..n :
           /\ Eligible(Candidate(RankedSuppliers[k]), Need, t)
           /\ 1 < k => ~(/\ AsGood(Candidate(RankedSuppliers[k]), Candidate(RankedSuppliers[1]))
                         /\ Candidate(RankedSuppliers[k]).total < Candidate(RankedSuppliers[1]).total)
    BY <1>17, <1>18, <1>19, <1>20
  <1>. QED  BY <1>15, <1>16, <1>17, <1>21 DEF t

----------------------------------------------------------------------------
(* A step at a time.                                                       *)

(* The earliest of three times.                                            *)
LEMMA LeastOfThree ==
  ASSUME NEW a \in Int, NEW b \in Int, NEW c \in Int
  PROVE  /\ Least({a, b, c}) \in {a, b, c}
         /\ Least({a, b, c}) <= a /\ Least({a, b, c}) <= b /\ Least({a, b, c}) <= c
  <1>1. \E x \in {a, b, c} : \A y \in {a, b, c} : x <= y
    OBVIOUS
  <1>. QED  BY <1>1 DEF Least

(* The fields of a dispatch.                                               *)
LEMMA CallFields ==
  ASSUME NEW c \in Calls
  PROVE  /\ c.intent \in Intent /\ c.issued \in Time /\ c.occurred \in Time
         /\ c.turn \in 1..Done /\ c.open \in BOOLEAN
         /\ c.box \in [Supplier -> Boxes \cup {None}]
         /\ c.asked \in [Supplier -> Time \cup {None}]
         /\ c.spent \in SUBSET Supplier /\ c.before \in [Supplier -> Int]
         /\ c.mapped \in SUBSET Supplier /\ c.ranked \in Rankings \cup {None}
  BY DEF Calls, Boxes

(* A box that is closed without an offer says why and when.                *)
LEMMA ClosedParts ==
  ASSUME now \in Time, NEW kind \in Terminals \ {"OFFER"}
  PROVE  /\ Closed(kind) \in Boxes /\ Closed(kind) # None
         /\ Closed(kind).kind = kind /\ Closed(kind).received = now
  <1>1. Closed(kind) \in Closings
    BY DEF Closed, Closings
  <1>. QED  BY <1>1, NoneAssumption DEF Boxes, Closed

(* The time of a dispatch is a number, and None is not.                    *)
LEMMA Numbers ==
  /\ Time \subseteq Int /\ Supplier \subseteq Int /\ None \notin Time
  /\ Deadline \in Int /\ EnvelopeLife \in Int /\ \A i \in Intent : Expires[i] \in Int
  BY LimitAssumption, NoneAssumption DEF Time, Supplier

(* Nothing has happened.                                                   *)
LEMMA DispatchStarts == Init => DispatchInv
  <1>. SUFFICES ASSUME Init
                PROVE  DispatchInv
    OBVIOUS
  <1>1. DispatchTypes
    BY LimitAssumption DEF Init, DispatchTypes, Time, Supplier
  <1>2. \A s \in Supplier :
          Cardinality({i \in Intent : session[i] # None /\ s \in session[i].sold}) = 0
    <2>. TAKE s \in Supplier
    <2>1. {i \in Intent : session[i] # None /\ s \in session[i].sold} = {}
      BY DEF Init
    <2>. QED  BY <2>1, FS_EmptySet
  <1>4. \A s \in Supplier : capacity[s] = Capacity /\ Capacity \in Int
    BY LimitAssumption DEF Init
  <1>3. Accounted
    BY <1>2, <1>4, NoneAssumption DEF Init, Accounted
  <1>. QED  BY <1>1, <1>3 DEF DispatchInv, Init

(* The dispatch begins.                                                    *)
LEMMA BeginStep ==
  ASSUME DispatchInv, NEW i \in Intent, NEW issued \in Time, Begin(i, issued)
  PROVE  DispatchInv'
  <1>1. /\ call = None /\ session[i] = None
        /\ told' = [told EXCEPT ![i] = None]
        /\ now' = now /\ capacity' = capacity /\ session' = session
    BY DEF Begin
  <1>2. DispatchTypes /\ Accounted
    BY DEF DispatchInv
  <1>3. /\ call'.intent = i /\ call'.issued = issued /\ call'.occurred = now /\ call'.turn = 1
        /\ call'.box = Nothing /\ call'.asked = Nothing /\ ~call'.open /\ call'.spent = {}
        /\ call'.before = capacity /\ call'.mapped = {} /\ call'.ranked = None
    BY DEF Begin
  <1>4. call' \in Calls
    <2>1. now \in Time /\ capacity \in [Supplier -> Int]
      BY <1>2 DEF DispatchTypes
    <2>2. Nothing \in [Supplier -> {None}] /\ 1 \in 1..Done
      BY DEF Nothing, Done
    <2>. QED  BY <2>1, <2>2 DEF Begin, Calls
  <1>5. call' # None
    BY <1>4, NoneAssumption
  <1>6. DispatchTypes'
    BY <1>1, <1>2, <1>4 DEF DispatchTypes
  <1>7. Accounted'
    BY <1>1, <1>2, <1>3, <1>5, NoneAssumption DEF Accounted, DispatchTypes
  <1>8. \A s \in Supplier : call'.box[s] = None /\ call'.asked[s] = None
    BY <1>3 DEF Nothing
  <1>9. Collecting(call')
    BY <1>3, <1>8 DEF Collecting, Supplier, Done
  <1>10. AskedInTime(call') /\ Explained(call') /\ Concluded(call', told')
    BY <1>3, <1>8 DEF AskedInTime, Explained, Concluded
  <1>11. Spending(call', capacity')
    BY <1>1, <1>2, <1>3 DEF Spending, DispatchTypes
  <1>. QED  BY <1>1, <1>3, <1>6, <1>7, <1>9, <1>10, <1>11 DEF DispatchInv, CallHolds

(* As many units are out as before, and of the same requests.              *)
LEMMA AccountsKept ==
  ASSUME DispatchInv, call # None, call' # None, session' = session, told' = told,
         call'.intent = call.intent, call'.ranked = call.ranked,
         \A s \in Supplier : capacity'[s] \in Int /\
            capacity'[s] + (IF s \in call'.spent THEN 1 ELSE 0)
              = capacity[s] + (IF s \in call.spent THEN 1 ELSE 0)
  PROVE  Accounted'
  <1>. DEFINE Sold(s) == Cardinality({i \in Intent : session[i] # None /\ s \in session[i].sold})
  <1>1. \A s \in Supplier : Sold(s) \in Nat
    <2>. TAKE s \in Supplier
    <2>. QED  BY LimitAssumption, FS_Subset, FS_CardinalityType
  <1>2. \A s \in Supplier : capacity[s] \in Int /\
          capacity[s] = Capacity - Sold(s) - (IF s \in call.spent THEN 1 ELSE 0)
    BY DEF DispatchInv, DispatchTypes, Accounted
  <1>3. Capacity \in Int
    BY LimitAssumption
  <1>4. \A s \in Supplier :
          capacity'[s] = Capacity - Sold(s) - (IF s \in call'.spent THEN 1 ELSE 0)
    <2>. HIDE DEF Sold
    <2>. QED  BY <1>1, <1>2, <1>3
  <1>5. \A s \in Supplier : Sold(s)' = Sold(s)
    OBVIOUS
  <1>. QED  BY <1>4, <1>5 DEF Accounted, DispatchInv

(* The response deadline closes the boxes that are left.                   *)
LEMMA TimeoutStep ==
  ASSUME DispatchInv, NEW s \in Supplier, Timeout(s)
  PROVE  DispatchInv'
  <1>1. /\ call # None /\ call.turn = s /\ ~call.open /\ now >= Deadline
        /\ now' = now /\ capacity' = capacity /\ session' = session /\ told' = told
        /\ call' = [call EXCEPT !.box = TimeoutRemaining(call.box), !.turn = Done]
    BY DEF Timeout, Turn
  <1>2. DispatchTypes /\ CallHolds(call, capacity, session, told)
    BY <1>1 DEF DispatchInv
  <1>. DEFINE c == call
              d == call'
              box == TimeoutRemaining(c.box)
  <1>3. c \in Calls
    BY <1>1, <1>2 DEF DispatchTypes
  <1>4. /\ Closed("TIMED_OUT") \in Boxes /\ Closed("TIMED_OUT") # None
        /\ Closed("TIMED_OUT").kind = "TIMED_OUT" /\ Closed("TIMED_OUT").received = now
    BY <1>2, ClosedParts DEF DispatchTypes, Terminals
  <1>5. box \in [Supplier -> Boxes \cup {None}]
    BY <1>3, <1>4, CallFields DEF TimeoutRemaining
  <1>6. \A r \in Supplier : box[r] = IF c.box[r] = None THEN Closed("TIMED_OUT") ELSE c.box[r]
    BY DEF TimeoutRemaining
  <1>. HIDE DEF box
  <1>7. /\ d.intent = c.intent /\ d.issued = c.issued /\ d.asked = c.asked
        /\ d.open = c.open /\ d.spent = c.spent /\ d.before = c.before
        /\ d.mapped = c.mapped /\ d.ranked = c.ranked /\ d.turn = Done /\ d.box = box
    BY <1>1, <1>3 DEF box, Calls
  <1>8. d \in Calls
    <2>1. d = [[call EXCEPT !.box = box] EXCEPT !.turn = 4] /\ 4 \in 1..Done
      BY <1>1 DEF box, Done
    <2>2. box \in [Supplier -> Closings \cup Offered \cup {None}]
      BY <1>5 DEF Boxes
    <2>. QED  BY <1>3, <2>1, <2>2 DEF Calls
  <1>9. d # None
    BY <1>8, NoneAssumption
  <1>10. DispatchTypes'
    BY <1>1, <1>2, <1>8 DEF DispatchTypes
  <1>11. Accounted'
    <2>1. \A r \in Supplier : capacity[r] \in Int
      BY <1>2 DEF DispatchTypes
    <2>. QED  BY <1>1, <1>7, <1>9, <2>1, AccountsKept
  <1>12. /\ Collecting(c) /\ AskedInTime(c) /\ Explained(c)
         /\ Spending(c, capacity) /\ Concluded(c, told) /\ session[c.intent] = None
    BY <1>2 DEF CallHolds
  <1>. HIDE DEF c, d
  <1>13. Collecting(d)
    BY <1>1, <1>4, <1>6, <1>7, <1>12 DEF c, Collecting, Supplier, Done
  <1>14. AskedInTime(d)
    BY <1>7, <1>12 DEF AskedInTime
  <1>15. \A r \in Supplier : r >= s => c.box[r] = None /\ c.asked[r] = None
    BY <1>1, <1>12, Numbers DEF c, Collecting
  <1>16. \A r \in Supplier : r < s => c.box[r] # None /\ c.box[r].kind \notin {"TIMED_OUT", "LATE"}
    BY <1>1, <1>12 DEF c, Collecting, Supplier, Done
  <1>17. Explained(d)
    <2>. SUFFICES ASSUME NEW r \in Supplier
                  PROVE  BoxExplained(d, r)
      BY DEF Explained
    <2>1. CASE r < s
      <3>1. BoxExplained(c, r) /\ d.box[r] = c.box[r]
        BY <1>6, <1>7, <1>12, <1>16, <2>1 DEF Explained
      <3>. QED  BY <1>7, <1>16, <2>1, <3>1 DEF BoxExplained
    <2>2. CASE r >= s
      <3>1. d.box[r] = Closed("TIMED_OUT") /\ d.asked[r] = None
        BY <1>6, <1>7, <1>15, <2>2
      <3>2. \A q \in Supplier : q > r => d.box[q] = Closed("TIMED_OUT")
        BY <1>6, <1>7, <1>15, <2>2, Numbers
      <3>. QED  BY <1>1, <1>4, <3>1, <3>2 DEF BoxExplained
    <2>. QED  BY <2>1, <2>2, Numbers
  <1>18. Spending(d, capacity')
    BY <1>1, <1>3, <1>4, <1>6, <1>7, <1>12, CallFields DEF c, Spending
  <1>19. Concluded(d, told')
    BY <1>1, <1>7, <1>12 DEF c, Concluded
  <1>. QED  BY <1>1, <1>7, <1>10, <1>11, <1>12, <1>13, <1>14, <1>17, <1>18, <1>19
         DEF d, DispatchInv, CallHolds

(* A supplier is denied when the clock is before the approval.             *)
LEMMA DenyStep ==
  ASSUME DispatchInv, NEW s \in Supplier, Deny(s)
  PROVE  DispatchInv'
  <1>1. /\ call # None /\ call.turn = s /\ ~call.open /\ now < Deadline /\ Denied(now)
        /\ now' = now /\ capacity' = capacity /\ session' = session /\ told' = told
        /\ call' = [[call EXCEPT !.box = [call.box EXCEPT ![s] = Closed("DENIED")]]
                         EXCEPT !.turn = s + 1]
    BY DEF Deny, Turn
  <1>2. DispatchTypes /\ CallHolds(call, capacity, session, told)
    BY <1>1 DEF DispatchInv
  <1>. DEFINE c == call
              d == call'
              box == [c.box EXCEPT ![s] = Closed("DENIED")]
  <1>3. c \in Calls
    BY <1>1, <1>2 DEF DispatchTypes
  <1>4. /\ Closed("DENIED") \in Boxes /\ Closed("DENIED") # None
        /\ Closed("DENIED").kind = "DENIED" /\ Closed("DENIED").received = now
    BY <1>2, ClosedParts DEF DispatchTypes, Terminals
  <1>5. /\ box \in [Supplier -> Boxes \cup {None}]
        /\ box[s] = Closed("DENIED") /\ \A r \in Supplier : r # s => box[r] = c.box[r]
    BY <1>3, <1>4, CallFields
  <1>6. s + 1 \in 1..Done /\ s + 1 # None
    BY NoneAssumption DEF Supplier, Done
  <1>. HIDE DEF box
  <1>7. /\ d.intent = c.intent /\ d.issued = c.issued /\ d.asked = c.asked
        /\ d.open = c.open /\ d.spent = c.spent /\ d.before = c.before
        /\ d.mapped = c.mapped /\ d.ranked = c.ranked /\ d.turn = s + 1 /\ d.box = box
    BY <1>1, <1>3 DEF box, Calls
  <1>8. d \in Calls
    <2>1. d = [[call EXCEPT !.box = box] EXCEPT !.turn = s + 1]
      BY <1>1 DEF box
    <2>2. box \in [Supplier -> Closings \cup Offered \cup {None}]
      BY <1>5 DEF Boxes
    <2>. QED  BY <1>3, <1>6, <2>1, <2>2 DEF Calls
  <1>9. d # None
    BY <1>8, NoneAssumption
  <1>10. DispatchTypes'
    BY <1>1, <1>2, <1>8 DEF DispatchTypes
  <1>11. Accounted'
    <2>1. \A r \in Supplier : capacity[r] \in Int
      BY <1>2 DEF DispatchTypes
    <2>. QED  BY <1>1, <1>7, <1>9, <2>1, AccountsKept
  <1>12. /\ Collecting(c) /\ AskedInTime(c) /\ Explained(c)
         /\ Spending(c, capacity) /\ Concluded(c, told) /\ session[c.intent] = None
    BY <1>2 DEF CallHolds
  <1>13. now < c.issued
    <2>1. c.intent \in Intent /\ c.issued \in Time /\ now \in Time
      BY <1>2, <1>3, CallFields DEF DispatchTypes
    <2>2. ~(c.issued <= now /\ now < Expires[c.intent])
      BY <1>1, <2>1, WhenAllowed DEF Denied
    <2>. QED  BY <1>1, <2>1, <2>2, Numbers, DeadlineAssumption
  <1>14. c.turn = s /\ ~c.open /\ c.ranked = None
    BY <1>1, <1>12, <1>3, CallFields, Numbers DEF Concluded, Supplier, Done
  <1>. HIDE DEF c, d
  <1>15. Collecting(d)
    BY <1>4, <1>5, <1>7, <1>12, <1>14 DEF Collecting, Supplier, Done
  <1>16. AskedInTime(d)
    BY <1>7, <1>12 DEF AskedInTime
  <1>17. c.asked[s] = None
    BY <1>12, <1>14 DEF Collecting
  <1>18. Explained(d)
    <2>. SUFFICES ASSUME NEW r \in Supplier, d.box[r] # None
                  PROVE  BoxExplained(d, r)
      BY DEF Explained
    <2>1. CASE r = s
      BY <1>4, <1>5, <1>7, <1>13, <1>17, <2>1 DEF BoxExplained
    <2>2. CASE r # s
      <3>1. c.box[r] # None /\ BoxExplained(c, r) /\ d.box[r] = c.box[r]
        BY <1>5, <1>7, <1>12, <2>2 DEF Explained
      <3>2. c.box[r].kind \notin {"TIMED_OUT", "LATE"}
        BY <1>12, <1>14, <3>1 DEF Collecting, Supplier, Done
      <3>. QED  BY <1>7, <3>1, <3>2 DEF BoxExplained
    <2>. QED  BY <2>1, <2>2
  <1>19. Spending(d, capacity')
    BY <1>1, <1>3, <1>4, <1>5, <1>7, <1>12, CallFields DEF Spending
  <1>20. Concluded(d, told')
    BY <1>7, <1>14 DEF Concluded
  <1>. QED  BY <1>1, <1>7, <1>10, <1>11, <1>12, <1>15, <1>16, <1>18, <1>19, <1>20
         DEF d, DispatchInv, CallHolds

(* A supplier is asked.                                                    *)
LEMMA AskStep ==
  ASSUME DispatchInv, NEW s \in Supplier, Ask(s)
  PROVE  DispatchInv'
  <1>1. /\ call # None /\ call.turn = s /\ ~call.open /\ now < Deadline /\ Authorized(s, now)
        /\ now' = now /\ capacity' = capacity /\ session' = session /\ told' = told
        /\ call' = [[call EXCEPT !.asked = [call.asked EXCEPT ![s] = now]] EXCEPT !.open = TRUE]
    BY DEF Ask, Turn
  <1>2. DispatchTypes /\ CallHolds(call, capacity, session, told)
    BY <1>1 DEF DispatchInv
  <1>. DEFINE c == call
              d == call'
              asked == [c.asked EXCEPT ![s] = now]
  <1>3. c \in Calls
    BY <1>1, <1>2 DEF DispatchTypes
  <1>4. now \in Time /\ now # None
    BY <1>2, Numbers DEF DispatchTypes
  <1>5. /\ asked \in [Supplier -> Time \cup {None}]
        /\ asked[s] = now /\ \A r \in Supplier : r # s => asked[r] = c.asked[r]
    BY <1>3, <1>4, CallFields
  <1>. HIDE DEF asked
  <1>7. /\ d.intent = c.intent /\ d.issued = c.issued /\ d.asked = asked
        /\ d.open /\ d.spent = c.spent /\ d.before = c.before
        /\ d.mapped = c.mapped /\ d.ranked = c.ranked /\ d.turn = c.turn /\ d.box = c.box
    BY <1>1, <1>3 DEF asked, Calls
  <1>8. d \in Calls
    <2>1. d = [[call EXCEPT !.asked = asked] EXCEPT !.open = TRUE]
      BY <1>1 DEF asked
    <2>. QED  BY <1>3, <1>5, <2>1 DEF Calls
  <1>9. d # None
    BY <1>8, NoneAssumption
  <1>10. DispatchTypes'
    BY <1>1, <1>2, <1>8 DEF DispatchTypes
  <1>11. Accounted'
    <2>1. \A r \in Supplier : capacity[r] \in Int
      BY <1>2 DEF DispatchTypes
    <2>. QED  BY <1>1, <1>7, <1>9, <2>1, AccountsKept
  <1>12. /\ Collecting(c) /\ AskedInTime(c) /\ Explained(c)
         /\ Spending(c, capacity) /\ Concluded(c, told) /\ session[c.intent] = None
    BY <1>2 DEF CallHolds
  <1>13. c.issued <= now /\ Expires[c.intent] - EnvelopeLife <= now
    <2>1. c.intent \in Intent /\ c.issued \in Time
      BY <1>3, CallFields
    <2>. QED  BY <1>1, <1>4, <2>1, WhenAllowed DEF Authorized
  <1>14. c.turn = s /\ c.ranked = None
    BY <1>1, <1>12, <1>3, CallFields, Numbers DEF Concluded, Supplier, Done
  <1>. HIDE DEF c, d
  <1>15. Collecting(d)
    BY <1>4, <1>5, <1>7, <1>12, <1>14 DEF Collecting, Supplier, Done
  <1>16. AskedInTime(d)
    BY <1>1, <1>5, <1>7, <1>12, <1>13 DEF AskedInTime
  <1>17. c.box[s] = None
    BY <1>12, <1>14 DEF Collecting
  <1>18. Explained(d)
    <2>. SUFFICES ASSUME NEW r \in Supplier, d.box[r] # None
                  PROVE  BoxExplained(d, r)
      BY DEF Explained
    <2>1. r # s /\ BoxExplained(c, r)
      BY <1>7, <1>12, <1>17 DEF Explained
    <2>. QED  BY <1>5, <1>7, <2>1 DEF BoxExplained
  <1>19. Spending(d, capacity')
    BY <1>1, <1>7, <1>12 DEF Spending
  <1>20. Concluded(d, told')
    BY <1>7, <1>14 DEF Concluded
  <1>. QED  BY <1>1, <1>7, <1>10, <1>11, <1>12, <1>15, <1>16, <1>18, <1>19, <1>20
         DEF d, DispatchInv, CallHolds

(* A dispatch is given up, and the units with it.                          *)
LEMMA AbandonStep ==
  ASSUME DispatchInv, call # None, Abandon
  PROVE  DispatchInv'
  <1>1. /\ capacity' = call.before /\ call' = None /\ now' = now /\ session' = session
        /\ told' = [told EXCEPT ![call.intent] = "unavailable"]
    BY DEF Abandon
  <1>2. DispatchTypes /\ CallHolds(call, capacity, session, told) /\ Accounted
    BY DEF DispatchInv
  <1>3. call \in Calls
    BY <1>2 DEF DispatchTypes
  <1>. DEFINE i == call.intent
              Sold(s) == Cardinality({j \in Intent : session[j] # None /\ s \in session[j].sold})
  <1>4. i \in Intent /\ session[i] = None /\ call.before \in [Supplier -> Int]
    BY <1>2, <1>3, CallFields DEF CallHolds
  <1>5. DispatchTypes'
    BY <1>1, <1>2, <1>4 DEF DispatchTypes
  <1>6. \A s \in Supplier : Sold(s) \in Nat
    <2>. TAKE s \in Supplier
    <2>. QED  BY LimitAssumption, FS_Subset, FS_CardinalityType
  <1>7. \A s \in Supplier :
          /\ capacity[s] \in Int
          /\ capacity[s] = Capacity - Sold(s) - (IF s \in call.spent THEN 1 ELSE 0)
          /\ call.before[s] = capacity[s] + (IF s \in call.spent THEN 1 ELSE 0)
    BY <1>2 DEF DispatchTypes, Accounted, CallHolds, Spending
  <1>8. \A s \in Supplier : capacity'[s] = Capacity - Sold(s)
    <2>. HIDE DEF Sold
    <2>. QED  BY <1>1, <1>6, <1>7, LimitAssumption
  <1>9. \A s \in Supplier : capacity'[s] = Capacity - Sold(s) - 0
    <2>. HIDE DEF Sold
    <2>. QED  BY <1>6, <1>8, LimitAssumption
  <1>10. \A j \in Intent : told'[j] = IF j = i THEN "unavailable" ELSE told[j]
    BY <1>1, <1>2 DEF DispatchTypes
  <1>11. \A s \in Supplier : Sold(s)' = Sold(s)
    BY <1>1
  <1>12. Accounted'
    <2>1. \A s \in Supplier :
             capacity'[s] = Capacity - Sold(s)' - (IF call' # None /\ s \in call'.spent THEN 1 ELSE 0)
      BY <1>1, <1>9, <1>11
    <2>2. \A j \in Intent :
            /\ session'[j] # None => /\ session'[j].mapped \subseteq session'[j].sold
                                     /\ told'[j] = "complete"
            /\ told'[j] = "complete" => session'[j] # None
      BY <1>1, <1>2, <1>4, <1>10 DEF Accounted
    <2>. QED  BY <2>1, <2>2 DEF Accounted
  <1>. QED  BY <1>1, <1>5, <1>12 DEF DispatchInv

(* What an answer leaves: its own box is closed, and after a late one all  *)
(* the others are.                                                         *)
LEMMA ReceivedParts ==
  ASSUME now \in Time, call \in Calls, NEW s \in Supplier, NEW result \in Boxes,
         NEW d, d = Received(s, result)
  PROVE  /\ d \in Calls
         /\ d.intent = call.intent /\ d.issued = call.issued /\ d.asked = call.asked
         /\ ~d.open /\ d.spent = call.spent /\ d.before = call.before
         /\ d.mapped = call.mapped /\ d.ranked = call.ranked
         /\ d.turn = (IF result.kind = "LATE" THEN Done ELSE s + 1)
         /\ d.box[s] = result
         /\ \A r \in Supplier : r # s =>
              d.box[r] = IF result.kind = "LATE" /\ call.box[r] = None THEN Closed("TIMED_OUT")
                         ELSE call.box[r]
  <1>. DEFINE c == call
              box == [c.box EXCEPT ![s] = result]
              all == TimeoutRemaining(box)
  <1>1. result # None
    BY NoneAssumption DEF Boxes
  <1>2. /\ box \in [Supplier -> Boxes \cup {None}]
        /\ box[s] = result /\ \A r \in Supplier : r # s => box[r] = c.box[r]
    BY CallFields
  <1>3. s + 1 \in 1..Done /\ Done \in 1..Done
    BY DEF Supplier, Done
  <1>. HIDE DEF box
  <1>4. Closed("TIMED_OUT") \in Boxes
    BY ClosedParts DEF Terminals
  <1>5. /\ all \in [Supplier -> Boxes \cup {None}]
        /\ \A r \in Supplier : all[r] = IF box[r] = None THEN Closed("TIMED_OUT") ELSE box[r]
    BY <1>2, <1>4 DEF TimeoutRemaining
  <1>. HIDE DEF all
  <1>6. CASE result.kind = "LATE"
    <2>1. d = [[[call EXCEPT !.box = all] EXCEPT !.turn = Done] EXCEPT !.open = FALSE]
      BY <1>6 DEF Received, box, all
    <2>2. all \in [Supplier -> Closings \cup Offered \cup {None}]
      BY <1>5 DEF Boxes
    <2>3. d \in Calls
      BY <1>3, <2>1, <2>2 DEF Calls
    <2>4. /\ d.intent = call.intent /\ d.issued = call.issued /\ d.asked = call.asked
          /\ ~d.open /\ d.spent = call.spent /\ d.before = call.before
          /\ d.mapped = call.mapped /\ d.ranked = call.ranked
          /\ d.turn = Done /\ d.box = all
      BY <2>1 DEF Calls
    <2>. QED  BY <1>1, <1>2, <1>5, <1>6, <2>3, <2>4
  <1>7. CASE result.kind # "LATE"
    <2>1. d = [[[call EXCEPT !.box = box] EXCEPT !.turn = s + 1] EXCEPT !.open = FALSE]
      BY <1>7 DEF Received, box
    <2>2. box \in [Supplier -> Closings \cup Offered \cup {None}]
      BY <1>2 DEF Boxes
    <2>3. d \in Calls
      BY <1>3, <2>1, <2>2 DEF Calls
    <2>4. /\ d.intent = call.intent /\ d.issued = call.issued /\ d.asked = call.asked
          /\ ~d.open /\ d.spent = call.spent /\ d.before = call.before
          /\ d.mapped = call.mapped /\ d.ranked = call.ranked
          /\ d.turn = s + 1 /\ d.box = box
      BY <2>1 DEF Calls
    <2>. QED  BY <1>2, <1>7, <2>3, <2>4
  <1>. QED  BY <1>6, <1>7

(* A unit may be taken on the way.                                         *)
LEMMA SpentParts ==
  ASSUME NEW c \in Calls, NEW s \in Supplier, NEW d, d = [c EXCEPT !.spent = @ \cup {s}]
  PROVE  /\ d \in Calls
         /\ d.intent = c.intent /\ d.issued = c.issued /\ d.asked = c.asked
         /\ d.open = c.open /\ d.before = c.before /\ d.turn = c.turn /\ d.box = c.box
         /\ d.mapped = c.mapped /\ d.ranked = c.ranked /\ d.spent = c.spent \cup {s}
  <1>1. c.spent \cup {s} \in SUBSET Supplier
    BY CallFields
  <1>2. d = [c EXCEPT !.spent = c.spent \cup {s}]
    OBVIOUS
  <1>. QED  BY <1>1, <1>2 DEF Calls

(* An answer that is what happened to its supplier.                        *)
AnswerTrue(result, s, spent) ==
  /\ result.received = now
  /\ result.kind \notin {"TIMED_OUT", "DENIED"}
  /\ result.kind = "LATE" => now >= Deadline
  /\ result.kind = "OFFER" => /\ call.asked[s] <= now /\ now < Deadline
                              /\ result.from = call.asked[s] /\ result.from < result.until
                              /\ s \in spent

(* What a dispatch is after such an answer.                                *)
LEMMA AnsweredStep ==
  ASSUME DispatchInv, call # None, NEW s \in Supplier, call.open, call.turn = s,
         NEW result \in Boxes, AnswerTrue(result, s, call'.spent), call' \in Calls,
         now' = now, session' = session, told' = told,
         capacity' \in [Supplier -> Int],
         \A r \in Supplier : capacity'[r] + (IF r \in call'.spent THEN 1 ELSE 0)
                             = capacity[r] + (IF r \in call.spent THEN 1 ELSE 0),
         call'.spent \in {call.spent, call.spent \cup {s}},
         NEW d, d = Received(s, result),
         call'.intent = d.intent, call'.issued = d.issued, call'.asked = d.asked,
         ~call'.open, call'.before = d.before, call'.turn = d.turn, call'.box = d.box,
         call'.ranked = d.ranked
  PROVE  DispatchInv'
  <1>1. DispatchTypes /\ CallHolds(call, capacity, session, told)
    BY DEF DispatchInv
  <1>. DEFINE c == call
              e == call'
  <1>2. c \in Calls /\ now \in Time
    BY <1>1 DEF DispatchTypes
  <1>3. /\ e.intent = c.intent /\ e.issued = c.issued /\ e.asked = c.asked
        /\ ~e.open /\ e.before = c.before /\ e.ranked = c.ranked
        /\ e.turn = (IF result.kind = "LATE" THEN Done ELSE s + 1)
        /\ e.box[s] = result
        /\ \A r \in Supplier : r # s =>
              e.box[r] = IF result.kind = "LATE" /\ c.box[r] = None THEN Closed("TIMED_OUT")
                         ELSE c.box[r]
    BY <1>2, ReceivedParts
  <1>4. e # None /\ result # None /\ s + 1 # None /\ Done # None
    BY NoneAssumption DEF Boxes, Supplier, Done
  <1>5. DispatchTypes'
    BY <1>1 DEF DispatchTypes
  <1>6. Accounted'
    BY <1>3, <1>4, AccountsKept
  <1>7. /\ Collecting(c) /\ AskedInTime(c) /\ Explained(c)
        /\ Spending(c, capacity) /\ Concluded(c, told) /\ session[c.intent] = None
    BY <1>1 DEF CallHolds
  <1>8. /\ Closed("TIMED_OUT") # None
        /\ Closed("TIMED_OUT").kind = "TIMED_OUT" /\ Closed("TIMED_OUT").received = now
    BY <1>2, ClosedParts DEF Terminals
  <1>9. c.turn = s /\ c.open /\ c.ranked = None /\ c.asked[s] # None /\ c.box[s] = None
    BY <1>7 DEF Concluded, Supplier, Done, Collecting
  <1>10. /\ \A r \in Supplier : r < s => c.box[r] # None /\ c.box[r].kind \notin {"TIMED_OUT", "LATE"}
         /\ \A r \in Supplier : r > s => c.box[r] = None /\ c.asked[r] = None
    BY <1>7, <1>9 DEF Collecting, Supplier, Done
  <1>11. c.spent \in SUBSET Supplier /\ e.spent \in {c.spent, c.spent \cup {s}}
    BY <1>2, CallFields
  <1>12. \A r \in Supplier : e.before[r] = capacity'[r] + (IF r \in e.spent THEN 1 ELSE 0)
    BY <1>3, <1>7 DEF Spending
  <1>13. AnswerTrue(result, s, e.spent)
    OBVIOUS
  <1>. HIDE DEF c, e
  <1>14. Collecting(e)
    <2>1. CASE result.kind = "LATE"
      BY <1>3, <1>4, <1>7, <1>8, <1>9, <1>10, <2>1 DEF Collecting, Supplier, Done
    <2>2. CASE result.kind # "LATE"
      <3>1. result.kind \notin {"TIMED_OUT", "LATE"}
        BY <1>13, <2>2 DEF AnswerTrue
      <3>. QED  BY <1>3, <1>4, <1>7, <1>9, <1>10, <2>2, <3>1 DEF Collecting, Supplier, Done
    <2>. QED  BY <2>1, <2>2
  <1>15. AskedInTime(e)
    BY <1>3, <1>7 DEF AskedInTime
  <1>16. Explained(e)
    <2>. SUFFICES ASSUME NEW r \in Supplier, e.box[r] # None
                  PROVE  BoxExplained(e, r)
      BY DEF Explained
    <2>1. CASE r = s
      <3>1. /\ result.received = now /\ result.kind \notin {"TIMED_OUT", "DENIED"}
            /\ result.kind = "LATE" => now >= Deadline
            /\ result.kind = "OFFER" => /\ c.asked[s] <= now /\ now < Deadline
                              /\ result.from = c.asked[s] /\ result.from < result.until
                              /\ s \in e.spent
        BY <1>13 DEF AnswerTrue, c
      <3>2. result.kind = "LATE" =>
              \A q \in Supplier : q > s => e.box[q] = Closed("TIMED_OUT")
        BY <1>3, <1>10, Numbers
      <3>. QED  BY <1>3, <1>8, <1>9, <2>1, <3>1, <3>2 DEF BoxExplained
    <2>2. CASE r < s
      <3>1. c.box[r] # None /\ c.box[r].kind \notin {"TIMED_OUT", "LATE"} /\ e.box[r] = c.box[r]
        BY <1>3, <1>10, <2>2, Numbers
      <3>2. BoxExplained(c, r)
        BY <1>7, <3>1 DEF Explained
      <3>. QED  BY <1>3, <1>11, <3>1, <3>2 DEF BoxExplained
    <2>3. CASE r > s
      <3>1. c.box[r] = None /\ c.asked[r] = None /\ r # s
        BY <1>10, <2>3, Numbers
      <3>2. result.kind = "LATE" /\ e.box[r] = Closed("TIMED_OUT")
        BY <1>3, <3>1
      <3>3. \A q \in Supplier : q > r => e.box[q] = Closed("TIMED_OUT")
        BY <1>3, <1>10, <2>3, <3>2, Numbers
      <3>4. now >= Deadline
        BY <1>13, <3>2 DEF AnswerTrue
      <3>. QED  BY <1>3, <1>8, <3>1, <3>2, <3>3, <3>4 DEF BoxExplained
    <2>. QED  BY <2>1, <2>2, <2>3, Numbers
  <1>17. Spending(e, capacity')
    <2>1. \A r \in e.spent : e.box[r] # None
      BY <1>3, <1>4, <1>7, <1>8, <1>11 DEF Spending
    <2>. QED  BY <1>12, <2>1 DEF Spending
  <1>18. Concluded(e, told')
    BY <1>3, <1>9 DEF Concluded
  <1>. QED  BY <1>3, <1>5, <1>6, <1>7, <1>14, <1>15, <1>16, <1>17, <1>18
         DEF c, e, DispatchInv, CallHolds

(* An offer is answered, in time or not; its unit is gone either way.      *)
LEMMA AnswerOfferStep ==
  ASSUME DispatchInv, NEW s \in Supplier, NEW terms \in Menu[s], AnswerOffer(s, terms)
  PROVE  DispatchInv'
  <1>. DEFINE kind == Terminal(s, "OFFER")
              result == IF kind = "OFFER"
                        THEN [kind |-> kind, received |-> now, terms |-> terms,
                              from |-> call.asked[s], until |-> ValidUntil(s)]
                        ELSE Closed(kind)
              d == Received(s, result)
              e == [d EXCEPT !.spent = @ \cup {s}]
  <1>1. /\ call # None /\ call.open /\ call.turn = s /\ Offer(s, terms)
        /\ capacity' = [capacity EXCEPT ![s] = @ - 1]
        /\ now' = now /\ session' = session /\ told' = told /\ call' = e
    BY DEF AnswerOffer
  <1>2. DispatchTypes /\ CallHolds(call, capacity, session, told)
    BY <1>1 DEF DispatchInv
  <1>3. call \in Calls /\ now \in Time
    BY <1>1, <1>2 DEF DispatchTypes
  <1>4. call.asked[s] # None /\ call.box[s] = None /\ call.asked[s] \in Time
    BY <1>1, <1>2, <1>3, CallFields DEF CallHolds, Collecting
  <1>5. /\ ValidUntil(s) \in 0..Deadline /\ call.asked[s] < ValidUntil(s)
    <2>. DEFINE a == call.asked[s] + Validity[s]
                x == Expires[call.intent]
                u == ValidUntil(s)
    <2>1. a \in Nat /\ Deadline \in Nat /\ x \in Nat /\ MinValidity \in Nat \ {0} /\ call.asked[s] \in Nat
      BY <1>3, <1>4, LimitAssumption, CallFields DEF Time
    <2>2. u = Least({a, Deadline, x})
      BY DEF ValidUntil
    <2>3. u - call.asked[s] >= MinValidity
      BY <1>1 DEF Offer
    <2>. HIDE DEF a, x, u
    <2>6. a \in Int /\ Deadline \in Int /\ x \in Int
      BY <2>1
    <2>7. u \in {a, Deadline, x} /\ u <= Deadline
      BY <2>2, <2>6, LeastOfThree
    <2>4. u \in Nat /\ u <= Deadline
      BY <2>1, <2>7
    <2>5. u \in 0..Deadline /\ call.asked[s] < u
      BY <2>1, <2>3, <2>4
    <2>. QED  BY <2>5 DEF u
  <1>6. /\ kind \in Terminals /\ kind \notin {"TIMED_OUT", "DENIED"}
        /\ kind = "LATE" => now >= Deadline
        /\ kind = "OFFER" => now < Deadline /\ call.asked[s] <= now
    <2>1. now \in Int /\ Deadline \in Int /\ call.asked[s] \in Int
      BY <1>3, <1>4, Numbers
    <2>2. kind = IF now >= Deadline THEN "LATE"
                 ELSE IF call.asked[s] > now THEN "INVALID" ELSE "OFFER"
      BY DEF Terminal
    <2>3. {"LATE", "INVALID", "OFFER"} \subseteq Terminals
      BY DEF Terminals
    <2>. HIDE DEF kind
    <2>. QED  BY <2>1, <2>2, <2>3
  <1>. HIDE DEF kind
  <1>7. result \in Boxes /\ result.kind = kind /\ result.received = now
    <2>1. CASE kind = "OFFER"
      <3>1. terms \in UNION {Menu[r] : r \in Supplier}
        OBVIOUS
      <3>. HIDE DEF Offered
      <3>2. [kind |-> "OFFER", received |-> now, terms |-> terms,
             from |-> call.asked[s], until |-> ValidUntil(s)] \in Offered
        BY <1>3, <1>4, <1>5, <3>1 DEF Offered
      <3>. QED  BY <2>1, <3>2 DEF Boxes
    <2>2. CASE kind # "OFFER"
      BY <1>3, <1>6, <2>2, ClosedParts
    <2>. QED  BY <2>1, <2>2
  <1>8. kind = "OFFER" => result.from = call.asked[s] /\ result.until = ValidUntil(s)
    OBVIOUS
  <1>. HIDE DEF result
  <1>9. /\ d \in Calls /\ d.spent = call.spent
    BY <1>3, <1>7, ReceivedParts
  <1>10. ~d.open
    BY <1>3, <1>7, ReceivedParts
  <1>. HIDE DEF d
  <1>11. /\ e \in Calls
         /\ e.intent = d.intent /\ e.issued = d.issued /\ e.asked = d.asked
         /\ e.open = d.open /\ e.before = d.before /\ e.turn = d.turn /\ e.box = d.box
         /\ e.ranked = d.ranked /\ e.spent = call.spent \cup {s}
    BY <1>9, SpentParts
  <1>. HIDE DEF e
  <1>12. call.spent \in SUBSET Supplier /\ s \notin call.spent
    BY <1>2, <1>3, <1>4, CallFields DEF CallHolds, Spending
  <1>13. capacity' \in [Supplier -> Int]
    BY <1>1, <1>2 DEF DispatchTypes
  <1>14. \A r \in Supplier : capacity'[r] + (IF r \in call'.spent THEN 1 ELSE 0)
                             = capacity[r] + (IF r \in call.spent THEN 1 ELSE 0)
    <2>. TAKE r \in Supplier
    <2>1. capacity[r] \in Int /\ capacity'[r] = IF r = s THEN capacity[s] - 1 ELSE capacity[r]
      BY <1>1, <1>2 DEF DispatchTypes
    <2>. QED  BY <1>1, <1>11, <1>12, <2>1
  <1>15. AnswerTrue(result, s, call'.spent)
    BY <1>1, <1>5, <1>6, <1>7, <1>8, <1>11 DEF AnswerTrue
  <1>16. d = Received(s, result)
    BY DEF d
  <1>. QED  BY <1>1, <1>7, <1>10, <1>11, <1>13, <1>14, <1>15, <1>16, AnsweredStep

(* Any other answer takes nothing.                                         *)
LEMMA AnswerStep ==
  ASSUME DispatchInv, NEW s \in Supplier, NEW kind \in {"DECLINED", "FAILED", "INVALID"},
         Answer(s, kind)
  PROVE  DispatchInv'
  <1>. DEFINE result == Closed(Terminal(s, kind))
              d == Received(s, result)
  <1>1. /\ call # None /\ call.open /\ call.turn = s /\ call' = d
        /\ now' = now /\ session' = session /\ told' = told /\ capacity' = capacity
    BY DEF Answer
  <1>2. DispatchTypes /\ CallHolds(call, capacity, session, told)
    BY <1>1 DEF DispatchInv
  <1>3. call \in Calls /\ now \in Time /\ capacity \in [Supplier -> Int]
    BY <1>1, <1>2 DEF DispatchTypes
  <1>4. /\ Terminal(s, kind) \in Terminals \ {"OFFER"}
        /\ Terminal(s, kind) \notin {"TIMED_OUT", "DENIED"}
        /\ Terminal(s, kind) = "LATE" => now >= Deadline
    BY <1>3, Numbers DEF Terminal, Terminals
  <1>5. /\ result \in Boxes /\ result.kind = Terminal(s, kind) /\ result.received = now
    BY <1>3, <1>4, ClosedParts
  <1>. HIDE DEF result
  <1>6. d \in Calls /\ d.spent = call.spent /\ ~d.open
    BY <1>3, <1>5, ReceivedParts
  <1>7. d = Received(s, result)
    OBVIOUS
  <1>. HIDE DEF d
  <1>8. AnswerTrue(result, s, call'.spent)
    BY <1>4, <1>5 DEF AnswerTrue
  <1>9. \A r \in Supplier : capacity'[r] + (IF r \in call'.spent THEN 1 ELSE 0)
                             = capacity[r] + (IF r \in call.spent THEN 1 ELSE 0)
    BY <1>1, <1>6
  <1>. QED  BY <1>1, <1>3, <1>5, <1>6, <1>7, <1>8, <1>9, AnsweredStep

(* When the collection is over every box is closed.                        *)
LEMMA AllClosed ==
  ASSUME DispatchInv, Collected
  PROVE  /\ call \in Calls /\ CallHolds(call, capacity, session, told)
         /\ \A s \in Supplier : call.box[s] # None
  BY DEF DispatchInv, DispatchTypes, Collected, CallHolds, Collecting, Supplier, Done

(* The offers are ranked, and the stream says the attempt is complete.     *)
LEMMA RankStep ==
  ASSUME DispatchInv, Rank
  PROVE  DispatchInv'
  <1>. DEFINE c == call
              d == call'
              ranking == RankedSuppliers
              answers == Mapped
  <1>1. /\ Collected /\ call # None /\ call.turn = Done /\ call.ranked = None
        /\ told' = [told EXCEPT ![call.intent] = "complete"]
        /\ now' = now /\ session' = session /\ capacity' = capacity
        /\ call' = [[call EXCEPT !.mapped = answers] EXCEPT !.ranked = ranking]
    BY DEF Rank, Collected
  <1>2. DispatchTypes /\ Accounted /\ c \in Calls /\ CallHolds(c, capacity, session, told)
    BY <1>1, AllClosed DEF DispatchInv
  <1>3. ranking \in Rankings /\ answers \in SUBSET Supplier
    BY <1>1, AllClosed, RankingParts DEF Mapped
  <1>4. answers \subseteq c.spent
    BY <1>1, <1>2, AllClosed DEF Mapped, Accepted, CallHolds, Explained, BoxExplained
  <1>. HIDE DEF ranking, answers
  <1>5. /\ d.intent = c.intent /\ d.issued = c.issued /\ d.asked = c.asked
        /\ d.open = c.open /\ d.spent = c.spent /\ d.before = c.before
        /\ d.mapped = answers /\ d.ranked = ranking /\ d.turn = Done /\ d.box = c.box
    BY <1>1, <1>2 DEF Calls
  <1>6. d \in Calls
    BY <1>1, <1>2, <1>3 DEF Calls
  <1>7. d # None /\ ranking # None
    BY <1>3, <1>6, NoneAssumption
  <1>8. c.intent \in Intent
    BY <1>2, CallFields
  <1>9. \A i \in Intent : told'[i] = IF i = c.intent THEN "complete" ELSE told[i]
    BY <1>1, <1>2 DEF DispatchTypes
  <1>10. DispatchTypes'
    BY <1>1, <1>2, <1>6, <1>8 DEF DispatchTypes
  <1>11. Accounted'
    BY <1>1, <1>2, <1>5, <1>7, <1>9 DEF Accounted
  <1>12. /\ Collecting(c) /\ AskedInTime(c) /\ Explained(c)
         /\ Spending(c, capacity) /\ session[c.intent] = None /\ c.turn = Done
    BY <1>1, <1>2 DEF CallHolds
  <1>. HIDE DEF c, d
  <1>13. Collecting(d) /\ AskedInTime(d)
    BY <1>5, <1>12 DEF Collecting, AskedInTime
  <1>14. Explained(d)
    BY <1>5, <1>12 DEF Explained, BoxExplained
  <1>15. Spending(d, capacity')
    BY <1>1, <1>5, <1>12 DEF Spending
  <1>16. Concluded(d, told')
    BY <1>4, <1>5, <1>8, <1>9 DEF Concluded
  <1>. QED  BY <1>1, <1>5, <1>10, <1>11, <1>12, <1>13, <1>14, <1>15, <1>16
         DEF d, DispatchInv, CallHolds

(* The session is saved: the units it has sold are accounted to it.        *)
LEMMA CommitStep ==
  ASSUME DispatchInv, Commit
  PROVE  DispatchInv'
  <1>1. /\ call # None /\ call.ranked # None /\ call' = None
        /\ session' = [session EXCEPT ![call.intent] = [sold |-> call.spent, mapped |-> call.mapped]]
        /\ now' = now /\ capacity' = capacity /\ told' = told
    BY DEF Commit
  <1>2. DispatchTypes /\ CallHolds(call, capacity, session, told) /\ Accounted
    BY <1>1 DEF DispatchInv
  <1>. DEFINE i == call.intent
              saved == [sold |-> call.spent, mapped |-> call.mapped]
              Sold(s) == {j \in Intent : session[j] # None /\ s \in session[j].sold}
              Now(s) == {j \in Intent : session'[j] # None /\ s \in session'[j].sold}
  <1>3. call \in Calls
    BY <1>1, <1>2 DEF DispatchTypes
  <1>4. i \in Intent /\ session[i] = None /\ told[i] = "complete"
        /\ call.mapped \subseteq call.spent
    BY <1>1, <1>2, <1>3, CallFields DEF CallHolds, Concluded
  <1>5. saved \in Sessions /\ saved # None
        /\ saved.sold = call.spent /\ saved.mapped = call.mapped
    <2>1. saved \in Sessions
      BY <1>3, CallFields DEF Sessions
    <2>. QED  BY <2>1, NoneAssumption
  <1>6. session' = [session EXCEPT ![i] = saved]
    BY <1>1
  <1>. HIDE DEF saved
  <1>7. \A j \in Intent : session'[j] = IF j = i THEN saved ELSE session[j]
    BY <1>2, <1>6 DEF DispatchTypes
  <1>8. DispatchTypes'
    BY <1>1, <1>2, <1>5, <1>6 DEF DispatchTypes
  <1>9. \A s \in Supplier : Cardinality(Now(s))
                              = Cardinality(Sold(s)) + (IF s \in call.spent THEN 1 ELSE 0)
    <2>. TAKE s \in Supplier
    <2>1. IsFiniteSet(Sold(s)) /\ i \notin Sold(s) /\ Cardinality(Sold(s)) \in Nat
      BY <1>4, LimitAssumption, FS_Subset, FS_CardinalityType
    <2>2. CASE s \in call.spent
      <3>1. Now(s) = Sold(s) \cup {i}
        BY <1>4, <1>5, <1>7, <2>2
      <3>. QED  BY <2>1, <2>2, <3>1, FS_AddElement
    <2>3. CASE s \notin call.spent
      <3>1. Now(s) = Sold(s)
        BY <1>4, <1>5, <1>7, <2>3
      <3>. HIDE DEF Now, Sold
      <3>. QED  BY <2>1, <2>3, <3>1
    <2>. QED  BY <2>2, <2>3
  <1>10. \A s \in Supplier :
           /\ Cardinality(Sold(s)) \in Nat
           /\ capacity[s] = Capacity - Cardinality(Sold(s)) - (IF s \in call.spent THEN 1 ELSE 0)
    <2>. TAKE s \in Supplier
    <2>. QED  BY <1>1, <1>2, LimitAssumption, FS_Subset, FS_CardinalityType DEF Accounted
  <1>11. \A s \in Supplier : capacity'[s] = Capacity - Cardinality(Now(s)) - 0
    <2>. HIDE DEF Now, Sold
    <2>. QED  BY <1>1, <1>9, <1>10, LimitAssumption
  <1>12. \A j \in Intent :
           /\ session'[j] # None => /\ session'[j].mapped \subseteq session'[j].sold
                                    /\ told'[j] = "complete"
           /\ told'[j] = "complete" => session'[j] # None
    BY <1>1, <1>2, <1>4, <1>5, <1>7 DEF Accounted
  <1>13. Accounted'
    BY <1>1, <1>11, <1>12 DEF Accounted
  <1>. QED  BY <1>1, <1>8, <1>13 DEF DispatchInv

(* Every step keeps it.                                                    *)
LEMMA DispatchNext == DispatchInv /\ [Next]_vars => DispatchInv'
  <1>. SUFFICES ASSUME DispatchInv, [Next]_vars
                PROVE  DispatchInv'
    OBVIOUS
  <1>1. CASE Clock
    BY <1>1 DEF Clock, DispatchInv, DispatchTypes, Accounted, CallHolds
  <1>2. CASE \E i \in Intent, issued \in Time : Begin(i, issued)
    BY <1>2, BeginStep
  <1>3. ASSUME NEW s \in Supplier,
               \/ Timeout(s) \/ Deny(s) \/ Ask(s) \/ Refuse(s)
               \/ \E terms \in Menu[s] : AnswerOffer(s, terms)
               \/ \E kind \in {"DECLINED", "FAILED", "INVALID"} : Answer(s, kind)
        PROVE  DispatchInv'
    <2>1. CASE Timeout(s)
      BY <2>1, TimeoutStep
    <2>2. CASE Deny(s)
      BY <2>2, DenyStep
    <2>3. CASE Ask(s)
      BY <2>3, AskStep
    <2>4. CASE Refuse(s)
      BY <2>4, AbandonStep DEF Refuse, Turn
    <2>5. CASE \E terms \in Menu[s] : AnswerOffer(s, terms)
      BY <2>5, AnswerOfferStep
    <2>6. CASE \E kind \in {"DECLINED", "FAILED", "INVALID"} : Answer(s, kind)
      BY <2>6, AnswerStep
    <2>. QED  BY <1>3, <2>1, <2>2, <2>3, <2>4, <2>5, <2>6
  <1>4. CASE Rank
    BY <1>4, RankStep
  <1>5. CASE Fail
    BY <1>5, AbandonStep DEF Fail, Collected
  <1>6. CASE Commit
    BY <1>6, CommitStep
  <1>7. CASE UNCHANGED vars
    BY <1>7 DEF vars, DispatchInv, DispatchTypes, Accounted, CallHolds
  <1>. QED  BY <1>1, <1>2, <1>3, <1>4, <1>5, <1>6, <1>7 DEF Next

(* The dispatch keeps its books: where the collection stands, what each    *)
(* box can hold then, and which units are out.                             *)
THEOREM DispatchInvariance == Spec => []DispatchInv
  <1>. QED  BY DispatchStarts, DispatchNext, PTL DEF Spec

(* Each supplier's terminal is what happened to it, whatever the clock     *)
(* did between two readings: nobody is asked without the approval and the  *)
(* envelope or too late, and nobody after a late answer                    *)
(* (solicitation_service.py:124-187).                                      *)
THEOREM TerminalsAreExplained == Spec => []TerminalsExplained
  <1>1. DispatchInv => TerminalsExplained
    <2>. SUFFICES ASSUME DispatchInv, call # None, NEW s \in Supplier
                  PROVE  LET b == call.box[s]
                             later == (s + 1)..3
                         IN  /\ call.asked[s] # None =>
                                  /\ call.issued <= call.asked[s] /\ call.asked[s] < Deadline
                                  /\ Expires[call.intent] - EnvelopeLife <= call.asked[s]
                             /\ b = None => \A r \in later : call.box[r] = None /\ call.asked[r] = None
                             /\ b # None =>
                                  /\ b.kind \in Terminals
                                  /\ b.kind \in {"TIMED_OUT", "DENIED"} <=> call.asked[s] = None
                                  /\ b.kind \in {"TIMED_OUT", "LATE"} =>
                                       /\ b.received >= Deadline
                                       /\ \A r \in later : call.box[r] # None
                                                            /\ call.box[r].kind = "TIMED_OUT"
                                  /\ b.kind = "DENIED" => b.received < call.issued
                                  /\ b.kind = "OFFER" => /\ b.received \in call.asked[s]..(Deadline - 1)
                                                         /\ b.from = call.asked[s]
                                                         /\ b.from < b.until /\ b.until <= Deadline
      BY DEF TerminalsExplained
    <2>. DEFINE b == call.box[s]
                later == (s + 1)..3
    <2>1. /\ call \in Calls /\ Collecting(call) /\ AskedInTime(call) /\ Explained(call)
      BY DEF DispatchInv, DispatchTypes, CallHolds
    <2>2. later \subseteq Supplier /\ \A r \in later : r > s
      BY DEF Supplier
    <2>3. call.asked[s] # None =>
            /\ call.issued <= call.asked[s] /\ call.asked[s] < Deadline
            /\ Expires[call.intent] - EnvelopeLife <= call.asked[s]
      BY <2>1 DEF AskedInTime
    <2>4. b = None => \A r \in later : call.box[r] = None /\ call.asked[r] = None
      BY <2>1, <2>2 DEF Collecting, Supplier, Done, Calls
    <2>5. ASSUME b # None
          PROVE  /\ b.kind \in Terminals /\ b.received \in Time
                 /\ b.kind = "OFFER" => b.until \in 0..Deadline /\ call.asked[s] \in Time
      <3>1. b \in Boxes /\ call.asked[s] \in Time \cup {None}
        BY <2>1, <2>5, CallFields
      <3>2. b.kind = "OFFER" => call.asked[s] # None
        BY <2>1, <2>5 DEF Explained, BoxExplained
      <3>. QED  BY <3>1, <3>2 DEF Boxes, Closings, Offered, Terminals
    <2>6. ASSUME b # None
          PROVE  BoxExplained(call, s)
      BY <2>1, <2>6 DEF Explained
    <2>. HIDE DEF later
    <2>7. b # None =>
            /\ b.kind \in {"TIMED_OUT", "DENIED"} <=> call.asked[s] = None
            /\ b.kind \in {"TIMED_OUT", "LATE"} =>
                 /\ b.received >= Deadline
                 /\ \A r \in later : call.box[r] # None /\ call.box[r].kind = "TIMED_OUT"
            /\ b.kind = "DENIED" => b.received < call.issued
      BY <2>2, <2>6 DEF BoxExplained
    <2>8. b # None /\ b.kind = "OFFER" =>
            /\ b.received \in call.asked[s]..(Deadline - 1)
            /\ b.from = call.asked[s] /\ b.from < b.until /\ b.until <= Deadline
      <3>. SUFFICES ASSUME b # None, b.kind = "OFFER"
                    PROVE  /\ b.received \in call.asked[s]..(Deadline - 1)
                           /\ b.from = call.asked[s] /\ b.from < b.until /\ b.until <= Deadline
        OBVIOUS
      <3>1. /\ call.asked[s] <= b.received /\ b.received < Deadline
            /\ b.from = call.asked[s] /\ b.from < b.until
        BY <2>6 DEF BoxExplained
      <3>2. call.asked[s] \in Int /\ b.received \in Int /\ b.until \in 0..Deadline /\ Deadline \in Int
        BY <2>5, Numbers
      <3>. QED  BY <3>1, <3>2
    <2>. QED  BY <2>3, <2>4, <2>5, <2>7, <2>8 DEF later
  <1>. QED  BY <1>1, DispatchInvariance, PTL

(* A supplier's units are accounted for, those of offers nobody saw and of *)
(* dispatches that failed included, and a stream says complete of a saved  *)
(* session only (engine.py:56, local_memory.py:545-559,                    *)
(* golden_path.py:532-540).                                                *)
THEOREM UnitsAccounted == Spec => []Accounted
  <1>1. DispatchInv => Accounted
    BY DEF DispatchInv
  <1>. QED  BY <1>1, DispatchInvariance, PTL

(* One more of the add-ons asked for is seen in the score: there are no    *)
(* more of them than it has units.                                         *)
LEMMA OneMoreCounts ==
  ASSUME NEW N, IsFiniteSet(N), Cardinality(N) <= Scale, NEW A, NEW B,
         N \cap A \subseteq B, ~(N \cap B \subseteq A)
  PROVE  /\ N # {}
         /\ HalfUp(Cardinality(N \cap A) * Scale, Cardinality(N))
              < HalfUp(Cardinality(N \cap B) * Scale, Cardinality(N))
  <1>. DEFINE m == Cardinality(N \cap A)
              n == Cardinality(N \cap B)
              d == Cardinality(N)
              h == d \div 2
              x == m * Scale + h
              y == n * Scale + h
  <1>1. IsFiniteSet(N \cap B) /\ IsFiniteSet(N \cap A)
    BY FS_Intersection
  <1>2. N \cap A \subseteq N \cap B /\ N \cap A # N \cap B /\ N # {}
    OBVIOUS
  <1>3. m \in Nat /\ n \in Nat /\ m < n
    BY <1>1, <1>2, FS_Subset, FS_CardinalityType
  <1>4. d \in Nat \ {0}
    BY <1>2, FS_CardinalityType, FS_EmptySet
  <1>5. h \in Nat
    BY <1>4
  <1>. HIDE DEF m, n, h
  <1>6. d <= Scale /\ Scale \in Nat
    BY ScaleAssumption
  <1>. HIDE DEF d
  <1>7. m * Scale + d <= n * Scale
    <2>1. (m + 1) * Scale <= n * Scale
      BY <1>3, <1>6
    <2>. QED  BY <1>3, <1>4, <1>6, <2>1
  <1>8. x \in Int /\ y \in Int /\ x + d \in Int /\ x + d <= y
    <2>1. m * Scale \in Int /\ n * Scale \in Int
      BY <1>3, <1>6
    <2>. QED  BY <1>4, <1>5, <1>7, <2>1
  <1>. HIDE DEF x, y
  <1>9. (x + d) \div d = (x \div d) + 1 /\ x \div d \in Int
    BY <1>4, <1>8
  <1>10. y \div d \in Int /\ (x + d) \div d <= y \div d
    BY <1>4, <1>8, DivOrder
  <1>11. x \div d < y \div d
    BY <1>9, <1>10
  <1>. QED  BY <1>2, <1>11 DEF HalfUp, m, n, d, h, x, y

(* The first of some of six.                                               *)
LEMMA FirstOfSix ==
  ASSUME NEW S \in SUBSET (1..6), S # {}
  PROVE  \E x \in S : \A y \in S : x <= y
  <1>1. CASE 1 \in S
    BY <1>1
  <1>2. CASE 1 \notin S /\ 2 \in S
    BY <1>2
  <1>3. CASE 1 \notin S /\ 2 \notin S /\ 3 \in S
    BY <1>3
  <1>4. CASE 1 \notin S /\ 2 \notin S /\ 3 \notin S /\ 4 \in S
    <2>1. \A y \in S : 4 <= y
      BY <1>4
    <2>. QED  BY <1>4, <2>1
  <1>5. CASE S \subseteq {5, 6}
    <2>1. CASE 5 \in S
      BY <1>5, <2>1
    <2>2. CASE 5 \notin S
      <3>1. S = {6}
        BY <1>5, <2>2
      <3>. QED  BY <3>1
    <2>. QED  BY <2>1, <2>2
  <1>6. S \subseteq {1, 2, 3, 4, 5, 6}
    OBVIOUS
  <1>7. 1 \notin S /\ 2 \notin S /\ 3 \notin S /\ 4 \notin S => S \subseteq {5, 6}
    BY <1>6
  <1>. QED  BY <1>1, <1>2, <1>3, <1>4, <1>5, <1>7

(* When no drawback is told, there is none of those that show.             *)
LEMMA NoDrawback ==
  ASSUME NEW ranked, NEW n \in Nat, 1 < n, Len(ranked) = n,
         NEW w, w = ranked[1], NEW o, o = ranked[2], Rankable(w), Rankable(o),
         Downside(ranked, Need) = "none"
  PROVE  /\ w.total <= o.total /\ w.shuttle <= o.shuttle /\ w.distance <= o.distance
         /\ Need.addOns \cap w.addOns \subseteq o.addOns =>
              Need.addOns \cap o.addOns \subseteq w.addOns
  <1>. DEFINE cohort == {ranked[i] : i \in DOMAIN ranked}
              gains(x) == Raw(x, cohort, Need)
              behind == <<w.total > o.total, w.shuttle > o.shuttle, w.distance > o.distance,
                          gains(o).coverage > gains(w).coverage,
                          gains(o).add_on > gains(w).add_on,
                          gains(o).cancellation > gains(w).cancellation>>
              dimensions == <<"total_minor", "shuttle_minutes", "distance_metres",
                              "coverage_fit", "add_on_fit", "cancellation">>
              noted == {d \in DOMAIN behind : behind[d]}
  <1>1. Downside(ranked, Need) = IF noted = {} THEN "none" ELSE dimensions[Min(noted)]
    <2>1. ~(Len(ranked) < 2)
      OBVIOUS
    <2>. QED  BY <2>1 DEF Downside
  <1>2. DOMAIN behind = 1..6
    OBVIOUS
  <1>3. /\ behind[1] <=> w.total > o.total
        /\ behind[2] <=> w.shuttle > o.shuttle
        /\ behind[3] <=> w.distance > o.distance
        /\ behind[5] <=> gains(o).add_on > gains(w).add_on
    OBVIOUS
  <1>4. noted \subseteq 1..6
    BY <1>2
  <1>5. noted = {}
    <2>. SUFFICES ASSUME noted # {}
                  PROVE  FALSE
      OBVIOUS
    <2>. HIDE DEF noted
    <2>1. \E x \in noted : \A y \in noted : x <= y
      BY <1>4, FirstOfSix
    <2>2. Min(noted) \in 1..6
      BY <1>4, <2>1 DEF Min
    <2>3. \A k \in 1..6 : dimensions[k] # "none"
      OBVIOUS
    <2>. QED  BY <1>1, <2>2, <2>3
  <1>6. \A d \in 1..6 : ~behind[d]
    BY <1>2, <1>5
  <1>. HIDE DEF behind, noted
  <1>7. ~(w.total > o.total) /\ ~(w.shuttle > o.shuttle) /\ ~(w.distance > o.distance)
        /\ ~(gains(o).add_on > gains(w).add_on)
    BY <1>3, <1>6
  <1>8. w.total <= o.total /\ w.shuttle <= o.shuttle /\ w.distance <= o.distance
    BY <1>7 DEF Rankable
  <1>9. ASSUME Need.addOns \cap w.addOns \subseteq o.addOns,
               ~(Need.addOns \cap o.addOns \subseteq w.addOns)
        PROVE  FALSE
    <2>. DEFINE N == Need.addOns
                p == HalfUp(Cardinality(N \cap w.addOns) * Scale, Cardinality(N))
                q == HalfUp(Cardinality(N \cap o.addOns) * Scale, Cardinality(N))
    <2>1. N # {} /\ p < q
      BY <1>9, OneMoreCounts, TermsAssumption
    <2>2. gains(w).add_on = p /\ gains(o).add_on = q
      BY <2>1 DEF Raw
    <2>3. p \in Int /\ q \in Int
      <3>1. /\ Cardinality(N \cap w.addOns) \in Nat /\ Cardinality(N \cap o.addOns) \in Nat
            /\ Cardinality(N) \in Nat \ {0}
        BY <2>1, TermsAssumption, FS_Intersection, FS_CardinalityType, FS_EmptySet
      <3>. QED  BY <3>1, CountOrder
    <2>. HIDE DEF p, q
    <2>. QED  BY <1>7, <2>1, <2>2, <2>3
  <1>. QED  BY <1>8, <1>9

(* What the boxes say of the ranking does not change with the clock.       *)
LEMMA RankingStays ==
  ASSUME call'.box = call.box, call'.occurred = call.occurred, call'.intent = call.intent
  PROVE  RankedSuppliers' = RankedSuppliers
  <1>1. \A s \in Supplier : Candidate(s)' = Candidate(s)
    BY DEF Candidate
  <1>2. Mapped' = Mapped
    BY DEF Mapped, Accepted, InForce, Attested, TakenInTime
  <1>3. Mapped \subseteq Supplier
    BY DEF Mapped
  <1>4. {Candidate(s) : s \in Mapped}' = {Candidate(s) : s \in Mapped}
    BY <1>1, <1>2, <1>3
  <1>. DEFINE offers == {Candidate(s) : s \in Mapped}
              t == call.occurred
  <1>5. offers' = offers /\ t' = t
    BY <1>4
  <1>6. RankedSuppliers = [k \in DOMAIN Ranked(offers, Need, t) |-> Ranked(offers, Need, t)[k].supplier]
    BY DEF RankedSuppliers
  <1>7. RankedSuppliers' = [k \in DOMAIN Ranked(offers', Need, t') |->
                              Ranked(offers', Need, t')[k].supplier]
    BY DEF RankedSuppliers
  <1>. HIDE DEF offers, t
  <1>. QED  BY <1>5, <1>6, <1>7

(* What was ranked is what would be ranked now.                            *)
LEMMA RankedStill == DispatchInv /\ RankedNow /\ [Next]_vars => RankedNow'
  <1>. SUFFICES ASSUME DispatchInv, RankedNow, [Next]_vars, call' # None, call'.ranked # None
                PROVE  call'.ranked = RankedSuppliers'
    BY DEF RankedNow
  <1>1. CASE call' = call
    <2>1. call.ranked = RankedSuppliers
      BY <1>1 DEF RankedNow
    <2>. QED  BY <1>1, <2>1, RankingStays
  <1>2. CASE Rank
    <2>1. /\ call \in Calls
          /\ call' = [call EXCEPT !.mapped = Mapped, !.ranked = RankedSuppliers]
      BY <1>2, AllClosed DEF Rank
    <2>. DEFINE ranking == RankedSuppliers
                answers == Mapped
    <2>2. call' = [[call EXCEPT !.mapped = answers] EXCEPT !.ranked = ranking]
      BY <2>1
    <2>. HIDE DEF ranking, answers
    <2>3. /\ call'.box = call.box /\ call'.occurred = call.occurred
          /\ call'.intent = call.intent /\ call'.ranked = ranking
      BY <2>1, <2>2 DEF Calls
    <2>. QED  BY <2>3, RankingStays DEF ranking
  <1>3. CASE \E i \in Intent, issued \in Time : Begin(i, issued)
    BY <1>3 DEF Begin
  <1>4. ASSUME NEW s \in Supplier,
               \/ Timeout(s) \/ Deny(s) \/ Ask(s)
               \/ \E terms \in Menu[s] : AnswerOffer(s, terms)
               \/ \E kind \in {"DECLINED", "FAILED", "INVALID"} : Answer(s, kind)
        PROVE  FALSE
    <2>1. call # None /\ call.turn = s
      BY <1>4 DEF Timeout, Deny, Ask, AnswerOffer, Answer, Turn
    <2>2. call \in Calls /\ now \in Time
      BY <2>1 DEF DispatchInv, DispatchTypes
    <2>3. call.ranked = None
      BY <2>1 DEF DispatchInv, CallHolds, Concluded, Supplier, Done
    <2>4. call'.ranked = call.ranked
      <3>1. CASE Timeout(s)
        BY <2>2, <3>1 DEF Timeout, Calls
      <3>2. CASE Deny(s)
        BY <2>2, <3>2 DEF Deny, Calls
      <3>3. CASE Ask(s)
        BY <2>2, <3>3 DEF Ask, Calls
      <3>4. ASSUME NEW result
            PROVE  /\ Received(s, result).ranked = call.ranked
                   /\ [Received(s, result) EXCEPT !.spent = @ \cup {s}].ranked = call.ranked
        <4>1. CASE result.kind = "LATE"
          BY <2>2, <4>1 DEF Received, Calls
        <4>2. CASE result.kind # "LATE"
          BY <2>2, <4>2 DEF Received, Calls
        <4>. QED  BY <4>1, <4>2
      <3>5. CASE \E terms \in Menu[s] : AnswerOffer(s, terms)
        <4>1. \E result : call' = [Received(s, result) EXCEPT !.spent = @ \cup {s}]
          BY <3>5 DEF AnswerOffer
        <4>. QED  BY <3>4, <4>1
      <3>6. CASE \E kind \in {"DECLINED", "FAILED", "INVALID"} : Answer(s, kind)
        <4>1. \E result : call' = Received(s, result)
          BY <3>6 DEF Answer
        <4>. QED  BY <3>4, <4>1
      <3>. QED  BY <1>4, <3>1, <3>2, <3>3, <3>5, <3>6
    <2>. QED  BY <2>3, <2>4
  <1>5. CASE Clock \/ UNCHANGED vars
    BY <1>1, <1>5 DEF Clock, vars
  <1>6. CASE Fail \/ Commit \/ \E s \in Supplier : Refuse(s)
    BY <1>6 DEF Fail, Commit, Refuse, Abandon
  <1>. QED  BY <1>2, <1>3, <1>4, <1>5, <1>6 DEF Next

(* The offer that is recommended was answered and is in force, and no      *)
(* other ranked offer is as good in everything and cheaper; when no        *)
(* drawback is told there is none in what the buyer can see                *)
(* (rank.py:289-388, 422-475, 507-579).                                    *)
THEOREM WinnerIsUndominated == Spec => []WinnerUndominated
  <1>1. Init => RankedNow
    BY DEF Init, RankedNow
  <1>2. DispatchInv /\ RankedNow => WinnerUndominated
    <2>. SUFFICES ASSUME DispatchInv, RankedNow, call # None, call.ranked # None,
                         call.ranked # <<>>
                  PROVE  LET w == Candidate(call.ranked[1])
                         IN  /\ w.from <= call.occurred /\ call.occurred < w.until
                             /\ \A k \in 2..Len(call.ranked) :
                                  LET o == Candidate(call.ranked[k])
                                  IN  ~(AsGood(o, w) /\ o.total < w.total)
                             /\ Drawback(call.ranked) = "none" /\ Len(call.ranked) > 1 =>
                                  LET o == Candidate(call.ranked[2])
                                  IN  /\ w.total <= o.total /\ w.shuttle <= o.shuttle
                                      /\ w.distance <= o.distance
                                      /\ Need.addOns \cap w.addOns \subseteq o.addOns =>
                                           Need.addOns \cap o.addOns \subseteq w.addOns
      BY DEF WinnerUndominated
    <2>. DEFINE r == call.ranked
                best == [k \in DOMAIN r |-> Candidate(r[k])]
    <2>1. call \in Calls /\ \A s \in Supplier : call.box[s] # None
      BY DEF DispatchInv, DispatchTypes, CallHolds, Concluded, Collecting, Supplier, Done
    <2>2. r = RankedSuppliers
      BY DEF RankedNow
    <2>3. /\ r \in Rankings
          /\ \A k \in DOMAIN r :
               /\ r[k] \in Mapped /\ Eligible(Candidate(r[k]), Need, call.occurred)
               /\ 1 < k => ~(/\ AsGood(Candidate(r[k]), Candidate(r[1]))
                             /\ Candidate(r[k]).total < Candidate(r[1]).total)
      BY <2>1, <2>2, RankingParts
    <2>4. PICK n \in 0..3 : r \in [1..n -> Supplier]
      BY <2>3 DEF Rankings
    <2>5. Len(r) = n /\ DOMAIN r = 1..n /\ n # 0
      <3>1. r \in Seq(Supplier)
        BY <2>4, SeqDef
      <3>. QED  BY <2>4, <3>1
    <2>6. \A k \in 1..n : Rankable(Candidate(r[k]))
      <3>. SUFFICES ASSUME NEW k \in 1..n
                    PROVE  Rankable(Candidate(r[k]))
        OBVIOUS
      <3>1. r[k] \in Supplier /\ call.box[r[k]] # None /\ call.box[r[k]].kind = "OFFER"
        BY <2>1, <2>3, <2>5 DEF Mapped, Accepted
      <3>. QED  BY <2>1, <3>1, CandidateParts
    <2>. HIDE DEF r
    <2>7. 1 \in 1..n
      BY <2>5
    <2>8. Candidate(r[1]).from <= call.occurred /\ call.occurred < Candidate(r[1]).until
      BY <2>3, <2>5, <2>7 DEF Eligible
    <2>9. \A k \in 2..Len(r) :
            ~(AsGood(Candidate(r[k]), Candidate(r[1])) /\ Candidate(r[k]).total < Candidate(r[1]).total)
      BY <2>3, <2>5
    <2>10. ASSUME Drawback(r) = "none", Len(r) > 1
           PROVE  /\ Candidate(r[1]).total <= Candidate(r[2]).total
                  /\ Candidate(r[1]).shuttle <= Candidate(r[2]).shuttle
                  /\ Candidate(r[1]).distance <= Candidate(r[2]).distance
                  /\ Need.addOns \cap Candidate(r[1]).addOns \subseteq Candidate(r[2]).addOns =>
                       Need.addOns \cap Candidate(r[2]).addOns \subseteq Candidate(r[1]).addOns
      <3>1. 1 \in 1..n /\ 2 \in 1..n /\ 1 < n /\ n \in Nat
        BY <2>4, <2>5, <2>10
      <3>2. best[1] = Candidate(r[1]) /\ best[2] = Candidate(r[2]) /\ Downside(best, Need) = "none"
        BY <2>5, <2>10, <3>1 DEF Drawback
      <3>3. best \in [1..n -> {Candidate(s) : s \in Supplier}]
        BY <2>4, <2>5
      <3>4. best \in Seq({Candidate(s) : s \in Supplier})
        BY <3>1, <3>3, SeqDef
      <3>5. Len(best) = n
        BY <3>1, <3>3, <3>4
      <3>. HIDE DEF best
      <3>. DEFINE w == Candidate(r[1])
                  o == Candidate(r[2])
      <3>6. Rankable(w) /\ Rankable(o)
        BY <2>6, <3>1
      <3>7. w = best[1] /\ o = best[2]
        BY <3>2
      <3>. HIDE DEF w, o
      <3>8. /\ w.total <= o.total /\ w.shuttle <= o.shuttle /\ w.distance <= o.distance
            /\ Need.addOns \cap w.addOns \subseteq o.addOns =>
                 Need.addOns \cap o.addOns \subseteq w.addOns
        BY <3>1, <3>2, <3>5, <3>6, <3>7, NoDrawback
      <3>. QED  BY <3>8 DEF w, o
    <2>. QED  BY <2>8, <2>9, <2>10 DEF r
  <1>. QED  BY <1>1, <1>2, RankedStill, DispatchStarts, DispatchNext, PTL DEF Spec

(* Where the clock stood still, what was offered and attested is taken.    *)
LEMMA StillTaken ==
  ASSUME DispatchInv, Collected, StoodStill
  PROVE  Mapped = {s \in Supplier : call.box[s].kind = "OFFER" /\ Attested(call.box[s])}
  <1>1. /\ call \in Calls /\ \A s \in Supplier : call.box[s] # None
        /\ Explained(call) /\ AskedInTime(call)
    BY AllClosed DEF CallHolds
  <1>2. ASSUME NEW s \in Supplier, call.box[s].kind = "OFFER"
        PROVE  InForce(call.box[s]) /\ TakenInTime(call.box[s])
    <2>. DEFINE b == call.box[s]
                t == call.occurred
    <2>1. BoxExplained(call, s)
      BY <1>1 DEF Explained
    <2>2. call.asked[s] # None
      BY <1>2, <2>1 DEF BoxExplained
    <2>3. b.received = t /\ call.asked[s] = t
      BY <1>1, <2>2 DEF StoodStill
    <2>4. b.from = t /\ b.from < b.until /\ t < Deadline
      BY <1>2, <2>1, <2>3 DEF BoxExplained
    <2>5. t \in Int /\ call.intent \in Intent
      BY <1>1, Numbers, CallFields
    <2>6. t < Expires[call.intent]
      BY <2>4, <2>5, Numbers, DeadlineAssumption
    <2>. QED  BY <2>3, <2>4, <2>5, <2>6 DEF InForce, TakenInTime
  <1>. QED  BY <1>2 DEF Mapped, Accepted

(* Nothing else than a clock that moved loses an attested offer or fails a *)
(* dispatch, once the envelopes may be opened                              *)
(* (golden_path.py:486-511, offer_boundary.py:397-404,                     *)
(* composition.py:123).                                                    *)
THEOREM ClockAloneLoses == Spec => OnlyTheClockLosesOffers
  <1>. DEFINE Kept(i) ==
         told'[i] # told[i] /\ told'[i] # None /\ StoodStill
           /\ Expires[i] - EnvelopeLife <= call.occurred =>
              /\ told'[i] = "complete"
              /\ call'.mapped = {s \in Supplier : /\ call.box[s].kind = "OFFER"
                                                 /\ Attested(call.box[s])}
  <1>1. ASSUME DispatchInv, Next
        PROVE  \A i \in Intent : Kept(i)
    <2>. SUFFICES ASSUME NEW i \in Intent, told'[i] # told[i], told'[i] # None, StoodStill,
                         Expires[i] - EnvelopeLife <= call.occurred
                  PROVE  /\ told'[i] = "complete"
                         /\ call'.mapped = {s \in Supplier : /\ call.box[s].kind = "OFFER"
                                                            /\ Attested(call.box[s])}
      OBVIOUS
    <2>1. told \in [Intent -> {"complete", "unavailable", None}]
      BY <1>1 DEF DispatchInv, DispatchTypes
    <2>2. CASE \E j \in Intent, issued \in Time : Begin(j, issued)
      BY <2>1, <2>2 DEF Begin
    <2>3. ASSUME NEW s \in Supplier, Refuse(s)
          PROVE  FALSE
      <3>1. /\ call # None /\ call.turn = s /\ ~Denied(now) /\ ~Authorized(s, now)
            /\ told' = [told EXCEPT ![call.intent] = "unavailable"]
        BY <2>3 DEF Refuse, Turn, Abandon
      <3>2. call \in Calls /\ now \in Time
        BY <1>1, <3>1 DEF DispatchInv, DispatchTypes
      <3>3. i = call.intent
        BY <2>1, <3>1
      <3>4. now = call.occurred
        BY <3>1 DEF StoodStill, Supplier, Done
      <3>5. call.issued \in Time
        BY <3>2, CallFields
      <3>. QED  BY <3>1, <3>2, <3>3, <3>4, <3>5, WhenAllowed DEF Denied, Authorized
    <2>4. CASE Rank
      <3>1. Collected /\ told' = [told EXCEPT ![call.intent] = "complete"] /\ call \in Calls
        BY <1>1, <2>4, AllClosed DEF Rank
      <3>. DEFINE answers == Mapped
                  ranking == RankedSuppliers
      <3>2. call' = [[call EXCEPT !.mapped = answers] EXCEPT !.ranked = ranking]
        BY <2>4 DEF Rank
      <3>3. answers = {s \in Supplier : call.box[s].kind = "OFFER" /\ Attested(call.box[s])}
        BY <1>1, <3>1, StillTaken
      <3>. HIDE DEF answers, ranking
      <3>4. call'.mapped = answers
        BY <3>1, <3>2 DEF Calls
      <3>. QED  BY <2>1, <3>1, <3>3, <3>4
    <2>5. CASE Fail
      <3>1. Collected /\ ~Recommendable(RankedSuppliers)
        BY <2>5 DEF Fail
      <3>2. call \in Calls /\ \A s \in Supplier : call.box[s] # None
        BY <1>1, <3>1, AllClosed
      <3>. DEFINE r == RankedSuppliers
      <3>3. r \in Rankings
        BY <3>2, RankingParts
      <3>4. r # <<>> /\ ~(call.box[r[1]].received <= call.occurred)
        BY <3>1 DEF Recommendable
      <3>. HIDE DEF r
      <3>5. r[1] \in Supplier
        BY <3>3, <3>4 DEF Rankings
      <3>6. call.box[r[1]].received = call.occurred
        BY <3>2, <3>5 DEF StoodStill
      <3>7. call.occurred \in Int
        BY <3>2, Numbers, CallFields
      <3>. QED  BY <3>4, <3>6, <3>7
    <2>6. CASE Clock \/ Commit \/ \E s \in Supplier :
                 \/ Timeout(s) \/ Deny(s) \/ Ask(s)
                 \/ \E terms \in Menu[s] : AnswerOffer(s, terms)
                 \/ \E kind \in {"DECLINED", "FAILED", "INVALID"} : Answer(s, kind)
      BY <2>6 DEF Clock, Commit, Timeout, Deny, Ask, AnswerOffer, Answer
    <2>. QED  BY <1>1, <2>2, <2>3, <2>4, <2>5, <2>6 DEF Next
  <1>2. DispatchInv /\ [Next]_vars => [\A i \in Intent : Kept(i)]_vars
    BY <1>1
  <1>. HIDE DEF Kept
  <1>3. Spec => [][\A i \in Intent : Kept(i)]_vars
    BY <1>2, DispatchInvariance, PTL DEF Spec
  <1>. QED  BY <1>3 DEF OnlyTheClockLosesOffers, Kept
============================================================================
