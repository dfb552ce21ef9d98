------------------------------ MODULE Extraction ------------------------------
(***************************************************************************)
(* What the Google adapter makes of a language model's output: the draft   *)
(* of a parking requirement (extraction.py, live.py, fake.py) and the      *)
(* explanation of a ranking (explanation.py).  Pure definitions; the call  *)
(* of the model, with its deadline, retries and cancellation, is in        *)
(* ModelAdapters.                                                          *)
(*                                                                         *)
(* A value is "good" (inside the closed vocabulary of its field), "bad",   *)
(* "null" or "absent"; a text of the buyer is known by what the privacy    *)
(* scan finds in it; an explanation by the names and numbers it contains.  *)
(***************************************************************************)
EXTENDS Naturals, FiniteSets

CONSTANT None   \* Python's None, where a record may be

Window == {"serviceWindow.start", "serviceWindow.end"}
\* REQUIRED_BUYER_FIELDS
Required ==
  Window \cup {"location.airportCode", "requirements.vehicleClass", "requirements.covered",
               "requirements.shuttleMaxMinutes", "constraints.currency"}
\* REQUIREMENT_FIELDS
Field == Required \cup {"constraints.accessibility"}

-------------------------------------------------------------------------------
(* The text of the buyer.                                                  *)

Texts == SUBSET {"prompt_injection", "over_disclosure"}

\* scan_extraction_text: a text stands for what the patterns find in it
PrivacyHits(text) == text

-------------------------------------------------------------------------------
(* The output of the live model and of the deterministic one.              *)

\* ExtractOutput: the structured output; "bad" where a field misses its pattern, "ordered"
\* when the window starts before it ends, which the schema does not ask
Outputs == [value : [Field -> {"absent", "good", "bad"}], ordered : BOOLEAN,
            missing : SUBSET Field, ambiguous : SUBSET Field, evidence : SUBSET Field]

\* _parse_structured: pydantic refuses the whole output for one bad field
SchemaAccepts(out) == \A f \in Field : out.value[f] # "bad"

\* the mapping of a ModelResponse
Mapping(candidate, missing, ambiguous, evidence) ==
  [candidate |-> candidate, missing |-> missing, ambiguous |-> ambiguous, evidence |-> evidence]

\* proposal_from_extracted_fields: only fields that are there, none of them null
Candidate(value, ordered) ==
  [fields |-> [f \in Field |-> IF f \in DOMAIN value THEN value[f] ELSE "absent"],
   extra |-> FALSE, ordered |-> ordered]

\* extract_mapping_from_output: a doubt of the model about any field withholds the whole proposal
ExtractMapping(out) ==
  LET given == {f \in Field : out.value[f] # "absent"} IN
  IF out.missing # {} \/ out.ambiguous # {}
  THEN Mapping(None, out.missing, out.ambiguous, {})
  ELSE Mapping(IF given = {} THEN None
               ELSE Candidate([f \in given |-> out.value[f]], out.ordered),
               {}, {}, out.evidence)

\* what _parse_parking_text reads: ISO instants, natural dates, and the words of the other fields
Readings == [stamps : 0..4, natural : BOOLEAN, possible : BOOLEAN, ordered : BOOLEAN,
             words : SUBSET (Field \ (Window \cup {"constraints.currency"})), found : SUBSET Field]

\* FakeModel._extract_mapping with _parse_parking_text and _evidence_and_attributions
FakeMapping(r) ==
  LET dated == \/ r.stamps \in {2, 3}
               \/ r.stamps = 0 /\ r.natural
      unread == (Required \ (r.words \cup {"constraints.currency"})) \ (IF dated THEN Window ELSE {})
      value == [f \in r.words \cup Window \cup {"constraints.currency"} |-> "good"]
  IN  IF ~r.possible \/ r.stamps = 4 \/ (dated /\ ~r.ordered)
      THEN Mapping(None, {}, Window, {})
      ELSE IF r.stamps = 1 THEN Mapping(None, {"serviceWindow.end"}, {}, {})
      ELSE IF unread # {} THEN Mapping(None, unread, {}, {})
      ELSE Mapping(Candidate(value, TRUE), {}, {}, r.found \cap DOMAIN value)

-------------------------------------------------------------------------------
(* The gate: what a proposal must be before the buyer is shown it.         *)

\* _present_fields: a field is present when its key is, whatever the value
Present(c) == {f \in Field : c.fields[f] # "absent"}

\* invalid_requirement_field: null passes for every field but the airport; the window's
\* instants are looked at later
Invalid(c) ==
  {f \in Field \ Window : \/ c.fields[f] = "bad"
                          \/ c.fields[f] = "null" /\ f = "location.airportCode"}

\* which of several invalid fields is named does not matter here
FirstOf(fields) == {CHOOSE f \in fields : TRUE}

\* the ExtractionResponse without a proposal (_closed, manual_fallback)
Withheld(missing, ambiguous, code) ==
  [proposal |-> None, missing |-> missing, ambiguous |-> ambiguous, code |-> code,
   evidenced |-> {}]

ManualFallback == Withheld(Required, {}, "missing_required")

\* _complete_attributions: every present field is attributed, with the span the model gave or none
Evidenced(present, evidence) == present \cap evidence

\* validate_proposal
Validate(m, text) ==
  LET c == m.candidate
      hits == PrivacyHits(text)
  IN  IF hits # {}
      THEN Withheld(IF "over_disclosure" \in hits THEN Required ELSE {},
                    IF "prompt_injection" \in hits THEN {"text"} ELSE {}, "privacy_blocked")
      ELSE IF c = None
      THEN Withheld(IF m.missing = {} /\ m.ambiguous = {} THEN Required ELSE m.missing,
                    m.ambiguous,
                    IF m.missing # {} \/ m.ambiguous = {} THEN "missing_required" ELSE "invalid")
      ELSE IF c.extra THEN Withheld(Required, {"payload"}, "unknown_shape")
      ELSE IF Invalid(c) # {}
      THEN Withheld(m.missing, IF m.ambiguous # {} THEN m.ambiguous ELSE FirstOf(Invalid(c)), "invalid")
      ELSE IF Required \ Present(c) # {}
      THEN Withheld(Required \ Present(c), m.ambiguous, "missing_required")
      ELSE IF ~c.ordered \/ \E f \in Window : c.fields[f] # "good"
      THEN Withheld({}, Window, "invalid")
      ELSE [proposal |-> c, missing |-> {}, ambiguous |-> {}, code |-> None,
            evidenced |-> Evidenced(Present(c), m.evidence)]

\* what a proposal shown to the buyer must be, said without the steps that lead to it
Clean(response, text, out) ==
  LET c == response.proposal IN
  /\ text = {}
  /\ \A f \in Required : c.fields[f] = "good"
  /\ \A f \in Field : c.fields[f] \in {"absent", "good"}
  /\ c.ordered /\ ~c.extra
  /\ out.missing = {} /\ out.ambiguous = {}
  /\ response.evidenced \subseteq out.evidence

-------------------------------------------------------------------------------
(* Explanations.  A text is the names it contains, those of them within    *)
(* forty characters of "recommend", and whether every number of three or   *)
(* more digits in it is one of the snapshot's.                             *)

Names == {"winner", "rival"}
Explanations == {e \in [mentions : SUBSET Names, praises : SUBSET Names, numbersKnown : BOOLEAN,
                        blank : BOOLEAN] :
                   /\ e.praises \subseteq e.mentions
                   /\ e.blank => e.mentions = {} /\ e.numbersKnown}

\* deterministic_explanation
Deterministic == [mentions |-> {"winner"}, praises |-> {"winner"}, numbersKnown |-> TRUE,
                  blank |-> FALSE]

\* contradicts_facts (the winner is the one name the snapshot recommends)
Contradicts(e) ==
  \/ e.praises \ {"winner"} # {}
  \/ "winner" \notin e.mentions
  \/ ~e.numbersKnown

\* ground_explanation
Ground(e) == IF e.blank \/ Contradicts(e) THEN Deterministic ELSE e

===============================================================================
