------------------------ MODULE ModelAdapters_proofs ------------------------
(***************************************************************************)
(* Proofs about the calls of a language model: how a call of the Google    *)
(* adapter ends and what it leaves behind, what of a model's answer        *)
(* reaches the buyer, and what two plan turns that share an orchestrator   *)
(* can do to each other.                                                   *)
(*                                                                         *)
(* The inductive invariant has three parts. CallInv: the attempts so far   *)
(* failed for a passing reason, the provider's task runs only while the    *)
(* call waits for it, and the response there is has been checked.          *)
(* TurnsFit: a turn has a thread from the pool until it ends, and the plan *)
(* it shows is decided by the buyer's words. Alone: while no two turns     *)
(* were in flight together, the context and the class of the SDK belong to *)
(* the one that is.                                                        *)
(***************************************************************************)
EXTENDS ModelAdapters, SequenceTheorems, TLAPS

-------------------------------------------------------------------------------
(* The gates.                                                              *)

\* A response to the buyer's text, given what the model put out, is one that
\* may be shown: without a proposal, or with one that is clean.
Sound(response, text, out) == response.proposal # None => Clean(response, text, out)

\* What a mapping may carry if it does carry a candidate.
Trusted(m, out) ==
  m.candidate # None =>
    /\ \A f \in Field : m.candidate.fields[f] \in {"absent", "good", "bad"}
    /\ ~m.candidate.extra
    /\ out.missing = {} /\ out.ambiguous = {}
    /\ m.evidence \subseteq out.evidence

(* A response that withholds the proposal shows nothing unsound.           *)
LEMMA WithheldIsSound ==
  ASSUME NEW missing, NEW ambiguous, NEW code, NEW text, NEW out
  PROVE  Sound(Withheld(missing, ambiguous, code), text, out)
  BY DEF Sound, Withheld

(* Validation lets only clean proposals through.                           *)
LEMMA ValidateIsSound ==
  ASSUME NEW m, NEW text, NEW out, Trusted(m, out), NEW y, y = Validate(m, text)
  PROVE  Sound(y, text, out)
  <1>. DEFINE c == m.candidate
  <1>1. CASE text # {}
    <2>1. y = Withheld(IF "over_disclosure" \in text THEN Required ELSE {},
                       IF "prompt_injection" \in text THEN {"text"} ELSE {}, "privacy_blocked")
      BY <1>1 DEF Validate, PrivacyHits
    <2>. QED  BY <2>1, WithheldIsSound
  <1>2. CASE text = {} /\ c = None
    <2>1. y = Withheld(IF m.missing = {} /\ m.ambiguous = {} THEN Required ELSE m.missing,
                    m.ambiguous,
                    IF m.missing # {} \/ m.ambiguous = {} THEN "missing_required" ELSE "invalid")
      BY <1>2 DEF Validate, PrivacyHits
    <2>. QED  BY <2>1, WithheldIsSound
  <1>3. CASE text = {} /\ c # None
    <2>. DEFINE full == [proposal |-> c, missing |-> {}, ambiguous |-> {}, code |-> None,
                         evidenced |-> Evidenced(Present(c), m.evidence)]
    <2>1. ~c.extra
      BY <1>3 DEF Trusted
    <2>2. CASE Invalid(c) # {}
      <3>1. y = Withheld(m.missing, IF m.ambiguous # {} THEN m.ambiguous ELSE FirstOf(Invalid(c)),
                         "invalid")
        BY <1>3, <2>1, <2>2 DEF Validate, PrivacyHits
      <3>. QED  BY <3>1, WithheldIsSound
    <2>3. CASE Invalid(c) = {} /\ Required \ Present(c) # {}
      <3>1. y = Withheld(Required \ Present(c), m.ambiguous, "missing_required")
        BY <1>3, <2>1, <2>3 DEF Validate, PrivacyHits
      <3>. QED  BY <3>1, WithheldIsSound
    <2>4. CASE /\ Invalid(c) = {} /\ Required \ Present(c) = {}
               /\ ~c.ordered \/ \E f \in Window : c.fields[f] # "good"
      <3>1. y = Withheld({}, Window, "invalid")
        BY <1>3, <2>1, <2>4 DEF Validate, PrivacyHits
      <3>. QED  BY <3>1, WithheldIsSound
    <2>5. CASE /\ Invalid(c) = {} /\ Required \ Present(c) = {}
               /\ c.ordered /\ \A f \in Window : c.fields[f] = "good"
      <3>1. y = full
        BY <1>3, <2>1, <2>5 DEF Validate, PrivacyHits
      <3>2. y.proposal = c /\ y.evidenced = Present(c) \cap m.evidence
        BY <3>1 DEF Evidenced
      <3>3. \A f \in Field : c.fields[f] \in {"absent", "good", "bad"}
        BY <1>3 DEF Trusted
      <3>4. \A f \in Field : c.fields[f] \in {"absent", "good"}
        BY <2>5, <3>3 DEF Invalid
      <3>5. \A f \in Required : c.fields[f] = "good"
        <4>1. Required \subseteq Field
          BY DEF Field
        <4>. QED  BY <2>5, <3>4, <4>1 DEF Present
      <3>6. out.missing = {} /\ out.ambiguous = {} /\ m.evidence \subseteq out.evidence
        BY <1>3 DEF Trusted
      <3>. QED  BY <1>3, <2>1, <2>5, <3>2, <3>4, <3>5, <3>6 DEF Sound, Clean
    <2>. QED  BY <2>2, <2>3, <2>4, <2>5
  <1>. QED  BY <1>1, <1>2, <1>3

(* The live model's output is trusted as far as the schema accepts it.     *)
LEMMA LiveIsTrusted ==
  ASSUME NEW out \in Outputs, SchemaAccepts(out)
  PROVE  Trusted(ExtractMapping(out), out)
  <1>. DEFINE given == {f \in Field : out.value[f] # "absent"}
              value == [f \in given |-> out.value[f]]
              m == ExtractMapping(out)
  <1>1. CASE out.missing # {} \/ out.ambiguous # {}
    <2>1. m = Mapping(None, out.missing, out.ambiguous, {})
      BY <1>1 DEF ExtractMapping
    <2>. QED  BY <2>1 DEF Mapping, Trusted
  <1>2. CASE out.missing = {} /\ out.ambiguous = {}
    <2>1. m = Mapping(IF given = {} THEN None ELSE Candidate(value, out.ordered), {}, {}, out.evidence)
      BY <1>2 DEF ExtractMapping
    <2>2. CASE given = {}
      BY <2>1, <2>2 DEF Mapping, Trusted
    <2>3. CASE given # {}
      <3>1. m.candidate = Candidate(value, out.ordered) /\ m.evidence = out.evidence
        BY <2>1, <2>3 DEF Mapping
      <3>2. out.value \in [Field -> {"absent", "good", "bad"}]
        BY DEF Outputs
      <3>3. DOMAIN value = given /\ \A f \in given : value[f] = out.value[f]
        OBVIOUS
      <3>4. given \subseteq Field
        OBVIOUS
      <3>. HIDE DEF given, value
      <3>. DEFINE fields == [f \in Field |-> IF f \in DOMAIN value THEN value[f] ELSE "absent"]
      <3>5. \A f \in Field : fields[f] \in {"absent", "good", "bad"}
        BY <3>2, <3>3, <3>4
      <3>6. m.candidate.fields = fields /\ ~m.candidate.extra
        BY <3>1 DEF Candidate
      <3>. HIDE DEF fields, m
      <3>7. Trusted(m, out)
        BY <1>2, <3>1, <3>5, <3>6 DEF Trusted
      <3>. QED  BY <3>7 DEF m
    <2>. QED  BY <2>2, <2>3
  <1>. QED  BY <1>1, <1>2

(* So is what the deterministic model reads.                               *)
LEMMA FakeIsTrusted ==
  ASSUME NEW r \in Readings
  PROVE  Trusted(FakeMapping(r), FakeAnswer(r))
  <1>. DEFINE value == [f \in r.words \cup Window \cup {"constraints.currency"} |-> "good"]
              m == FakeMapping(r)
              evidence == r.found \cap DOMAIN value
  <1>1. m.candidate = None \/ (m.candidate = Candidate(value, TRUE) /\ m.evidence = evidence)
    BY DEF FakeMapping, Mapping
  <1>. DEFINE fields == [f \in Field |-> IF f \in DOMAIN value THEN value[f] ELSE "absent"]
  <1>2. \A f \in Field : fields[f] \in {"absent", "good", "bad"}
    OBVIOUS
  <1>3. Candidate(value, TRUE).fields = fields /\ ~Candidate(value, TRUE).extra
    BY DEF Candidate
  <1>4. evidence \subseteq r.found
    OBVIOUS
  <1>5. /\ FakeAnswer(r).evidence = r.found /\ FakeAnswer(r).missing = {}
        /\ FakeAnswer(r).ambiguous = {}
    BY DEF FakeAnswer
  <1>. HIDE DEF value, m, evidence, fields
  <1>6. Trusted(m, FakeAnswer(r))
    BY <1>1, <1>2, <1>3, <1>4, <1>5 DEF Trusted
  <1>. QED  BY <1>6 DEF m

(* What is explained to the buyer agrees with the ranking.                 *)
LEMMA GroundIsSound ==
  ASSUME NEW e
  PROVE  ~Contradicts(Ground(e)) /\ ~Contradicts(Deterministic)
  <1>1. ~Contradicts(Deterministic)
    BY DEF Contradicts, Deterministic
  <1>. QED  BY <1>1 DEF Ground

\* What a call may return for its task.
Checked(task, text, response, out) ==
  response # None => IF task = "extract" THEN Sound(response, text, out) ELSE ~Contradicts(response)

(* The fallback when a deadline has passed.                                *)
LEMMA LateIsChecked ==
  ASSUME NEW text, NEW out
  PROVE  Checked(call.task, text, LateResponse, out)
  BY WithheldIsSound, GroundIsSound DEF Checked, LateResponse, ManualFallback

(* An answer of the live model.                                            *)
LEMMA AnswerIsChecked ==
  ASSUME NEW out \in TaskOutputs
  PROVE  Checked(call.task, call.text, Answered(out), out)
  <1>1. CASE call.task = "extract"
    <2>1. out \in Outputs /\ SchemaAccepts(out)
      BY <1>1, BoundsAssumption DEF TaskOutputs
    <2>2. Answered(out) = Validate(ExtractMapping(out), call.text)
      BY <1>1 DEF Answered
    <2>. QED  BY <1>1, <2>1, <2>2, LiveIsTrusted, ValidateIsSound DEF Checked
  <1>2. CASE call.task # "extract"
    BY <1>2, GroundIsSound DEF Answered, Checked
  <1>. QED  BY <1>1, <1>2

-------------------------------------------------------------------------------
(* The Google call.                                                        *)

Endings == {"answer", "transient", "quota", "permanent", "timeout", "cancel"}
Busy == {"attempt", "setup", "waiting", "stopping", "backoff"}

\* The fields of a call and of its provider's task.
IsCall(k) == k = [phase |-> k.phase, task |-> k.task, text |-> k.text, started |-> k.started,
                  budget |-> k.budget, due |-> k.due, seen |-> k.seen, outcome |-> k.outcome,
                  response |-> k.response, out |-> k.out]
IsProvider(p) == p = [state |-> p.state, result |-> p.result]

\* Every attempt so far failed for a passing reason, and there may be one more.
MayRetry(seen) == /\ \A i \in 1..Len(seen) : seen[i] = "transient"
                  /\ Len(seen) < MaxAttempts

\* What OutcomeExplained says of a call.
Justified(outcome, seen, spent, live, stop) ==
  /\ \A i \in 1..(Len(seen) - 1) : seen[i] = "transient"
  /\ Len(seen) <= MaxAttempts
  /\ LET last == IF seen = << >> THEN None ELSE seen[Len(seen)]
     IN  /\ outcome = "answer" => spent < Timeout /\ (live => last = "answer")
         /\ outcome = "timeout" => spent >= Timeout \/ last = "timeout"
         /\ outcome = "cancelled" => stop \/ last = "cancel"
         /\ outcome = "unavailable" => Len(seen) = MaxAttempts /\ last = "transient"

\* The provider's task runs while the call waits for it.
ProviderFits ==
  /\ IsProvider(provider)
  /\ call.phase \notin {"waiting", "stopping"} => provider.state = "idle"
  /\ call.phase = "waiting" => provider.state \in {"running", "done"}
  /\ call.phase = "stopping" => provider.state \in {"stopping", "done"}
  /\ provider.state = "done" => provider.result \in Endings \cup {"stopped"}

CallShaped ==
  /\ IsCall(call) /\ call.phase \in {"idle", "ended"} \cup Busy
  /\ now \in Nat /\ call.started \in Nat /\ call.started <= now
  /\ call.seen \in Seq(Endings)
  /\ call.phase # "idle" => call.task \in {"extract", "explain"}

CallOpen == call.phase # "ended" =>
              call.outcome = None /\ call.response = None /\ MayRetry(call.seen)

CallInv ==
  /\ CallShaped /\ CallOpen /\ ProviderFits
  /\ Justified(call.outcome, call.seen, now - call.started, process.live, IsCancelled)
  /\ Checked(call.task, call.text, call.response, call.out)

(* A call without an outcome explains itself.                              *)
LEMMA OpenIsJustified ==
  ASSUME NEW seen \in Seq(Endings), MayRetry(seen), NEW spent, NEW live, NEW stop
  PROVE  Justified(None, seen, spent, live, stop)
  BY NoneAssumption, BoundsAssumption, LenProperties DEF Justified, MayRetry

(* Nor has it returned anything.                                           *)
LEMMA NothingIsChecked == \A task, text, out : Checked(task, text, None, out)
  BY DEF Checked

(* No call yet.                                                            *)
LEMMA CallStarts == Init => CallInv
  <1>. SUFFICES ASSUME Init
                PROVE  CallInv
    OBVIOUS
  <1>1. call = NoCall /\ provider = NoProvider /\ now = 0
    BY DEF Init
  <1>2. /\ call.phase = "idle" /\ call.seen = << >> /\ call.started = 0 /\ call.outcome = None
        /\ call.response = None /\ IsCall(call) /\ provider.state = "idle" /\ IsProvider(provider)
    BY <1>1 DEF NoCall, NoProvider, IsCall, IsProvider
  <1>3. << >> \in Seq(Endings) /\ Len(<< >>) = 0 /\ MayRetry(<< >>)
    BY BoundsAssumption DEF MayRetry
  <1>4. CallShaped /\ CallOpen /\ ProviderFits
    BY <1>1, <1>2, <1>3 DEF CallShaped, CallOpen, ProviderFits
  <1>. QED  BY <1>2, <1>3, <1>4, OpenIsJustified, NothingIsChecked DEF CallInv

(* A call that ends, with an outcome that is justified.                    *)
LEMMA CallEnds ==
  ASSUME CallInv, call.phase # "idle", NEW seen \in Seq(Endings), NEW outcome, NEW response, NEW out,
         call' = [[[[[call EXCEPT !.seen = seen] EXCEPT !.phase = "ended"]
                       EXCEPT !.outcome = outcome] EXCEPT !.response = response] EXCEPT !.out = out],
         Justified(outcome, seen, now - call.started, process.live, IsCancelled),
         Checked(call.task, call.text, response, out),
         IsProvider(provider'), provider'.state = "idle",
         UNCHANGED <<process, now, token, cancelled>>
  PROVE  CallInv'
  <1>1. /\ IsCall(call') /\ call'.phase = "ended" /\ call'.seen = seen /\ call'.outcome = outcome
        /\ call'.response = response /\ call'.out = out /\ call'.task = call.task
        /\ call'.text = call.text /\ call'.started = call.started
    BY DEF CallInv, CallShaped, IsCall
  <1>2. CallShaped' /\ CallOpen'
    BY <1>1 DEF CallInv, CallShaped, CallOpen
  <1>3. ProviderFits'
    BY <1>1 DEF ProviderFits
  <1>4. Justified(outcome, seen, now' - call'.started, process'.live, IsCancelled')
    BY <1>1 DEF IsCancelled
  <1>. QED  BY <1>1, <1>2, <1>3, <1>4 DEF CallInv

(* A call that ends without another attempt of the provider.               *)
LEMMA EndCallStep ==
  ASSUME CallInv, call.phase \notin {"idle", "ended", "waiting", "stopping"},
         NEW outcome, NEW response, NEW out,
         EndCall(outcome, response, out),
         Justified(outcome, call.seen, now - call.started, process.live, IsCancelled),
         Checked(call.task, call.text, response, out),
         UNCHANGED <<process, now, token, cancelled, provider>>
  PROVE  CallInv'
  <1>. DEFINE seen == call.seen
  <1>1. call' = [[[[[call EXCEPT !.seen = seen] EXCEPT !.phase = "ended"]
                       EXCEPT !.outcome = outcome] EXCEPT !.response = response] EXCEPT !.out = out]
    BY DEF EndCall, CallInv, CallShaped, IsCall
  <1>2. seen \in Seq(Endings) /\ IsProvider(provider') /\ provider'.state = "idle"
    BY DEF CallInv, CallShaped, ProviderFits
  <1>. HIDE DEF seen
  <1>3. Justified(outcome, seen, now - call.started, process.live, IsCancelled)
    BY DEF seen
  <1>. QED  BY <1>1, <1>2, <1>3, CallEnds

(* A call goes on: another phase, deadline or budget.                      *)
LEMMA CallGoes ==
  ASSUME CallInv, call.phase \notin {"idle", "ended"}, NEW phase \in Busy, NEW due, NEW budget,
         NEW seen \in Seq(Endings), MayRetry(seen),
         call' = [[[[call EXCEPT !.seen = seen] EXCEPT !.phase = phase] EXCEPT !.due = due]
                     EXCEPT !.budget = budget],
         now' \in Nat, now <= now', ProviderFits'
  PROVE  CallInv'
  <1>1. /\ IsCall(call') /\ call'.phase = phase /\ call'.seen = seen /\ call'.outcome = call.outcome
        /\ call'.response = call.response /\ call'.started = call.started /\ call'.task = call.task
    BY DEF CallInv, CallShaped, IsCall
  <1>2. phase # "ended" /\ phase # "idle" /\ call.outcome = None /\ call.response = None
    BY DEF Busy, CallInv, CallOpen
  <1>3. CallShaped'
    BY <1>1 DEF CallInv, CallShaped
  <1>4. CallOpen'
    BY <1>1, <1>2 DEF CallOpen
  <1>5. Justified(call'.outcome, seen, now' - call'.started, process'.live, IsCancelled')
    BY <1>1, <1>2, OpenIsJustified
  <1>6. Checked(call'.task, call'.text, call'.response, call'.out)
    BY <1>1, <1>2, NothingIsChecked
  <1>. QED  BY <1>1, <1>3, <1>4, <1>5, <1>6 DEF CallInv

(* Only time, the token or the provider moves.                             *)
LEMMA CallWaits ==
  ASSUME CallInv, call.phase # "ended", UNCHANGED call,
         now' \in Nat, now <= now', ProviderFits'
  PROVE  CallInv'
  <1>1. call.outcome = None /\ call.response = None /\ MayRetry(call.seen) /\ call.seen \in Seq(Endings)
    BY DEF CallInv, CallOpen, CallShaped
  <1>2. CallShaped' /\ CallOpen'
    BY DEF CallInv, CallShaped, CallOpen
  <1>3. Justified(call'.outcome, call'.seen, now' - call'.started, process'.live, IsCancelled')
    BY <1>1, OpenIsJustified
  <1>. QED  BY <1>2, <1>3 DEF CallInv

(* Nothing of the call moves.                                              *)
LEMMA CallRests ==
  ASSUME CallInv, UNCHANGED <<process, google>>
  PROVE  CallInv'
  BY DEF google, CallInv, CallShaped, CallOpen, ProviderFits, IsCancelled

(* A call without another answer of the provider may end like this.        *)
LEMMA OpenMayEnd ==
  ASSUME NEW seen \in Seq(Endings), MayRetry(seen), NEW outcome, NEW spent, NEW live, NEW stop,
         outcome = "answer" => spent < Timeout /\ ~live,
         outcome = "timeout" => spent >= Timeout,
         outcome = "cancelled" => stop,
         outcome # "unavailable"
  PROVE  Justified(outcome, seen, spent, live, stop)
  BY BoundsAssumption, LenProperties DEF Justified, MayRetry

(* A call begins.                                                          *)
LEMMA BeginCallStep ==
  ASSUME CallInv, BeginCall
  PROVE  CallInv'
  <1>1. /\ call.phase = "idle" /\ call.phase # "ended" /\ provider' = provider
        /\ UNCHANGED <<process, now, token, cancelled>>
    BY DEF BeginCall
  <1>2. /\ IsCall(call) /\ now \in Nat /\ call.seen \in Seq(Endings) /\ MayRetry(call.seen)
        /\ call.outcome = None /\ call.response = None
    BY <1>1 DEF CallInv, CallShaped, CallOpen
  <1>3. IsProvider(provider') /\ provider'.state = "idle"
    BY <1>1 DEF CallInv, ProviderFits
  <1>4. PICK task \in {"extract", "explain"}, text \in Texts, category \in {"airport_parking", "other"} :
          LET begun == [call EXCEPT !.task = task, !.text = text, !.started = now] IN
          IF task = "extract" /\ category # "airport_parking"
          THEN call' = [begun EXCEPT !.phase = "ended", !.outcome = "category"]
          ELSE IF task = "extract" /\ PrivacyHits(text) # {}
          THEN call' = [begun EXCEPT !.phase = "ended", !.outcome = "private",
                                     !.response = Validate(Mapping(None, {}, {}, {}), text)]
          ELSE call' = [begun EXCEPT !.phase = "attempt"]
    BY DEF BeginCall
  <1>. DEFINE begun == [call EXCEPT !.task = task, !.text = text, !.started = now]
              nothing == Validate(Mapping(None, {}, {}, {}), text)
  <1>5. begun = [[[call EXCEPT !.task = task] EXCEPT !.text = text] EXCEPT !.started = now]
    OBVIOUS
  <1>6. \/ call' = [begun EXCEPT !.phase = "ended", !.outcome = "category"]
        \/ /\ task = "extract"
           /\ call' = [begun EXCEPT !.phase = "ended", !.outcome = "private", !.response = nothing]
        \/ call' = [begun EXCEPT !.phase = "attempt"]
    BY <1>4
  <1>. HIDE DEF begun
  <1>7. /\ IsCall(begun) /\ begun.seen = call.seen /\ begun.outcome = None /\ begun.response = None
        /\ begun.task = task /\ begun.text = text /\ begun.started = now
    BY <1>2, <1>5 DEF IsCall
  <1>8. Sound(nothing, text, call'.out)
    <2>1. Trusted(Mapping(None, {}, {}, {}), call'.out)
      BY DEF Trusted, Mapping
    <2>. QED  BY <2>1, ValidateIsSound
  <1>. HIDE DEF nothing
  <1>9. /\ IsCall(call') /\ call'.seen = call.seen /\ call'.started = now
        /\ call'.task = task /\ call'.text = text
        /\ \/ call'.phase = "ended" /\ call'.outcome \in {"category", "private"}
           \/ call'.phase = "attempt" /\ call'.outcome = None /\ call'.response = None
        /\ call'.response = None \/ (call'.response = nothing /\ task = "extract")
    BY <1>7, <1>6 DEF IsCall
  <1>10. CallShaped'
    BY <1>1, <1>2, <1>9 DEF CallShaped, Busy
  <1>11. CallOpen'
    BY <1>2, <1>9 DEF CallOpen
  <1>12. ProviderFits'
    BY <1>3, <1>9 DEF ProviderFits
  <1>13. Justified(call'.outcome, call'.seen, now' - call'.started, process'.live, IsCancelled')
    <2>1. call'.outcome \notin {"answer", "timeout", "cancelled", "unavailable"}
      BY <1>9, NoneAssumption
    <2>. QED  BY <1>2, <1>9, <2>1, OpenMayEnd
  <1>14. Checked(call'.task, call'.text, call'.response, call'.out)
    BY <1>8, <1>9 DEF Checked
  <1>. QED  BY <1>10, <1>11, <1>12, <1>13, <1>14 DEF CallInv

(* An attempt begins, or the call ends before it.                          *)
LEMMA AttemptStep ==
  ASSUME CallInv, Attempt
  PROVE  CallInv'
  <1>1. /\ call.phase = "attempt" /\ call.phase \notin {"idle", "ended", "waiting", "stopping"}
        /\ UNCHANGED <<process, now, token, cancelled, provider>>
    BY DEF Attempt
  <1>2. /\ call.seen \in Seq(Endings) /\ MayRetry(call.seen) /\ IsCall(call)
        /\ now \in Nat /\ call.started \in Nat /\ call.task \in {"extract", "explain"}
    BY <1>1 DEF CallInv, CallShaped, CallOpen
  <1>3. Remaining <= 0 <=> now - call.started >= Timeout
    BY <1>2, BoundsAssumption DEF Remaining
  <1>4. Remaining <= 0 <=> ~(now - call.started < Timeout)
    BY <1>2, <1>3, BoundsAssumption
  <1>5. CASE IsCancelled
    <2>1. EndCall("cancelled", None, None)
      BY <1>5 DEF Attempt
    <2>2. Justified("cancelled", call.seen, now - call.started, process.live, IsCancelled)
      BY <1>2, <1>5, OpenMayEnd
    <2>. QED  BY <1>1, <2>1, <2>2, EndCallStep, NothingIsChecked
  <1>6. CASE ~IsCancelled /\ Remaining <= 0
    <2>1. EndCall("timeout", LateResponse, None)
      <3>1. ~(Remaining > 0)
        BY <1>2, <1>6, BoundsAssumption DEF Remaining
      <3>. QED  BY <1>6, <3>1 DEF Attempt
    <2>2. Justified("timeout", call.seen, now - call.started, process.live, IsCancelled)
      BY <1>2, <1>3, <1>6, OpenMayEnd
    <2>. QED  BY <1>1, <2>1, <2>2, EndCallStep, LateIsChecked
  <1>7. CASE ~IsCancelled /\ ~(Remaining <= 0) /\ process.live
    <2>. DEFINE seen == call.seen
                due == call.due
                budget == Remaining
    <2>1. Remaining > 0
      BY <1>2, <1>7, BoundsAssumption DEF Remaining
    <2>2. call' = [call EXCEPT !.phase = "setup", !.budget = Remaining]
      BY <1>7, <2>1 DEF Attempt
    <2>3. call' = [[[[call EXCEPT !.seen = seen] EXCEPT !.phase = "setup"] EXCEPT !.due = due]
                     EXCEPT !.budget = budget]
      BY <1>2, <2>2 DEF IsCall
    <2>4. seen \in Seq(Endings) /\ MayRetry(seen) /\ now' \in Nat /\ now <= now'
      BY <1>1, <1>2
    <2>5. "setup" \in Busy
      BY DEF Busy
    <2>. HIDE DEF seen, due, budget
    <2>6. ProviderFits'
      <3>1. call'.phase = "setup"
        BY <1>2, <2>3 DEF IsCall
      <3>. QED  BY <1>1, <3>1 DEF CallInv, ProviderFits
    <2>. QED  BY <1>1, <2>3, <2>4, <2>5, <2>6, CallGoes
  <1>8. CASE ~IsCancelled /\ ~(Remaining <= 0) /\ ~process.live
    <2>1. IF call.task = "explain" THEN EndCall("answer", Ground(Deterministic), Deterministic)
          ELSE \E r \in FakeReadings :
                 EndCall("answer", Validate(FakeMapping(r), call.text), FakeAnswer(r))
      BY <1>8 DEF Attempt
    <2>2. Justified("answer", call.seen, now - call.started, process.live, IsCancelled)
      BY <1>2, <1>4, <1>8, OpenMayEnd
    <2>3. CASE call.task = "explain"
      <3>1. Checked(call.task, call.text, Ground(Deterministic), Deterministic)
        BY <2>3, GroundIsSound DEF Checked
      <3>2. EndCall("answer", Ground(Deterministic), Deterministic)
        BY <2>1, <2>3
      <3>. QED  BY <1>1, <2>2, <3>1, <3>2, EndCallStep
    <2>4. CASE call.task # "explain"
      <3>1. PICK r \in FakeReadings :
              EndCall("answer", Validate(FakeMapping(r), call.text), FakeAnswer(r))
        BY <2>1, <2>4
      <3>2. r \in Readings
        BY BoundsAssumption
      <3>. DEFINE answer == Validate(FakeMapping(r), call.text)
      <3>3. Sound(answer, call.text, FakeAnswer(r))
        BY <3>2, FakeIsTrusted, ValidateIsSound
      <3>. HIDE DEF answer
      <3>4. call.task = "extract"
        BY <1>2, <2>4
      <3>5. Checked(call.task, call.text, answer, FakeAnswer(r))
        BY <3>3, <3>4 DEF Checked
      <3>6. EndCall("answer", answer, FakeAnswer(r))
        BY <3>1 DEF answer
      <3>. QED  BY <1>1, <2>2, <3>5, <3>6, EndCallStep
    <2>. QED  BY <2>3, <2>4
  <1>. QED  BY <1>5, <1>6, <1>7, <1>8

(* The provider is asked, or cannot be.                                    *)
LEMMA LaunchStep ==
  ASSUME CallInv, Launch
  PROVE  CallInv'
  <1>1. /\ call.phase = "setup" /\ call.phase \notin {"idle", "ended", "waiting", "stopping"}
        /\ UNCHANGED <<process, now, token, cancelled>>
    BY DEF Launch
  <1>2. /\ call.seen \in Seq(Endings) /\ MayRetry(call.seen) /\ IsCall(call) /\ now \in Nat
    BY <1>1 DEF CallInv, CallShaped, CallOpen
  <1>3. CASE IsCancelled /\ EndCall("cancelled", None, None) /\ UNCHANGED provider
    <2>1. Justified("cancelled", call.seen, now - call.started, process.live, IsCancelled)
      BY <1>2, <1>3, OpenMayEnd
    <2>. QED  BY <1>1, <1>3, <2>1, EndCallStep, NothingIsChecked
  <1>4. CASE EndCall("error", None, None) /\ UNCHANGED provider
    <2>1. Justified("error", call.seen, now - call.started, process.live, IsCancelled)
      BY <1>2, OpenMayEnd
    <2>. QED  BY <1>1, <1>4, <2>1, EndCallStep, NothingIsChecked
  <1>5. CASE /\ provider' = [NoProvider EXCEPT !.state = "running"]
             /\ call' = [call EXCEPT !.phase = "waiting", !.due = now + call.budget]
    <2>. DEFINE seen == call.seen
                due == now + call.budget
                budget == call.budget
    <2>1. call' = [[[[call EXCEPT !.seen = seen] EXCEPT !.phase = "waiting"] EXCEPT !.due = due]
                     EXCEPT !.budget = budget]
      BY <1>2, <1>5 DEF IsCall
    <2>2. seen \in Seq(Endings) /\ MayRetry(seen) /\ now' \in Nat /\ now <= now'
      BY <1>1, <1>2
    <2>3. "waiting" \in Busy
      BY DEF Busy
    <2>. HIDE DEF seen, due, budget
    <2>4. ProviderFits'
      <3>1. call'.phase = "waiting"
        BY <1>2, <2>1 DEF IsCall
      <3>2. IsProvider(provider') /\ provider'.state = "running"
        BY <1>5 DEF NoProvider, IsProvider
      <3>. QED  BY <3>1, <3>2 DEF ProviderFits
    <2>. QED  BY <1>1, <2>1, <2>2, <2>3, <2>4, CallGoes
  <1>. QED  BY <1>3, <1>4, <1>5 DEF Launch

(* The provider answers, or what was cancelled unwinds.                    *)
LEMMA ProviderStep ==
  ASSUME CallInv, Respond \/ Unwind
  PROVE  CallInv'
  <1>1. UNCHANGED <<process, now, token, cancelled, call>>
    BY DEF Respond, Unwind
  <1>2. call.phase # "ended" /\ now \in Nat
    BY DEF CallInv, CallShaped, ProviderFits, Respond, Unwind
  <1>3. ProviderFits'
    <2>1. CASE Respond
      <3>1. PICK result \in Endings : provider' = [state |-> "done", result |-> result]
        BY <2>1 DEF Respond, Endings
      <3>2. provider.state = "running" /\ ProviderFits
        BY <2>1 DEF Respond, CallInv
      <3>3. IsProvider(provider') /\ provider'.state = "done" /\ provider'.result \in Endings
        BY <3>1 DEF IsProvider
      <3>. QED  BY <1>1, <3>2, <3>3 DEF ProviderFits
    <2>2. CASE Unwind
      <3>1. provider' = [state |-> "done", result |-> "stopped"] /\ provider.state = "stopping"
        BY <2>2 DEF Unwind
      <3>2. ProviderFits
        BY DEF CallInv
      <3>3. IsProvider(provider') /\ provider'.state = "done" /\ provider'.result = "stopped"
        BY <3>1 DEF IsProvider
      <3>. QED  BY <1>1, <3>1, <3>2, <3>3 DEF ProviderFits
    <2>. QED  BY <2>1, <2>2
  <1>. QED  BY <1>1, <1>2, <1>3, CallWaits

(* The wait is over.                                                       *)
LEMMA WaitReturnsStep ==
  ASSUME CallInv, WaitReturns
  PROVE  CallInv'
  <1>. DEFINE seen == call.seen
              due == call.due
              budget == call.budget
  <1>1. /\ call.phase = "waiting" /\ call' = [call EXCEPT !.phase = "stopping"]
        /\ provider' = IF provider.state = "running" THEN [provider EXCEPT !.state = "stopping"]
                       ELSE provider
        /\ UNCHANGED <<process, now, token, cancelled>>
    BY DEF WaitReturns
  <1>2. /\ IsCall(call) /\ ProviderFits /\ call.phase \notin {"idle", "ended"}
        /\ seen \in Seq(Endings) /\ MayRetry(seen) /\ now' \in Nat /\ now <= now'
    BY <1>1 DEF CallInv, CallShaped, CallOpen
  <1>3. call' = [[[[call EXCEPT !.seen = seen] EXCEPT !.phase = "stopping"] EXCEPT !.due = due]
                   EXCEPT !.budget = budget]
    BY <1>1, <1>2 DEF IsCall
  <1>4. "stopping" \in Busy
    BY DEF Busy
  <1>. HIDE DEF seen, due, budget
  <1>5. call'.phase = "stopping"
    BY <1>2, <1>3 DEF IsCall
  <1>6. ProviderFits'
    <2>1. CASE provider.state = "running"
      BY <1>1, <1>2, <1>5, <2>1 DEF ProviderFits, IsProvider
    <2>2. CASE provider.state # "running"
      BY <1>1, <1>2, <1>5, <2>2 DEF ProviderFits, IsProvider
    <2>. QED  BY <2>1, <2>2
  <1>. QED  BY <1>2, <1>3, <1>4, <1>6, CallGoes

(* One more attempt has been made.                                         *)
LEMMA Attempted ==
  ASSUME NEW seen \in Seq(Endings), MayRetry(seen), NEW result \in Endings,
         NEW made, made = Append(seen, result)
  PROVE  /\ made \in Seq(Endings) /\ Len(made) \in Nat /\ Len(made) <= MaxAttempts
         /\ \A i \in 1..(Len(made) - 1) : made[i] = "transient"
         /\ made # << >> /\ made[Len(made)] = result
         /\ result = "transient" /\ Len(made) < MaxAttempts => MayRetry(made)
  <1>1. /\ made \in Seq(Endings) /\ Len(made) = Len(seen) + 1 /\ Len(seen) \in Nat
        /\ \A i \in 1..Len(seen) : made[i] = seen[i]
        /\ made[Len(seen) + 1] = result
    BY AppendProperties, LenProperties
  <1>2. MaxAttempts \in Nat
    BY BoundsAssumption
  <1>. QED  BY <1>1, <1>2 DEF MayRetry

(* It says how the call ends.                                              *)
LEMMA AttemptedMayEnd ==
  ASSUME NEW seen \in Seq(Endings), MayRetry(seen), NEW result \in Endings,
         NEW made, made = Append(seen, result),
         NEW outcome, NEW spent, NEW live, NEW stop,
         outcome = "answer" => spent < Timeout /\ result = "answer",
         outcome = "timeout" => spent >= Timeout \/ result = "timeout",
         outcome = "cancelled" => stop \/ result = "cancel",
         outcome = "unavailable" => Len(made) >= MaxAttempts /\ result = "transient"
  PROVE  Justified(outcome, made, spent, live, stop)
  <1>1. /\ made \in Seq(Endings) /\ Len(made) \in Nat /\ Len(made) <= MaxAttempts
        /\ \A i \in 1..(Len(made) - 1) : made[i] = "transient"
        /\ made # << >> /\ made[Len(made)] = result
    BY Attempted
  <1>2. MaxAttempts \in Nat
    BY BoundsAssumption
  <1>. QED  BY <1>1, <1>2 DEF Justified

(* What the wait came to.                                                  *)
LEMMA SettledParts ==
  ASSUME CallInv, call.phase = "stopping", provider.state = "done"
  PROVE  Settled \in Endings /\ (Settled = "cancel" => IsCancelled \/ provider.result = "cancel")
  BY DEF CallInv, ProviderFits, Settled, Endings

(* The call settles: it ends, or waits for another attempt.                *)
LEMMA SettleStep ==
  ASSUME CallInv, Settle
  PROVE  CallInv'
  <1>. DEFINE result == Settled
              made == Append(call.seen, result)
              done == [call EXCEPT !.seen = Append(@, result), !.phase = "ended"]
  <1>1. /\ call.phase = "stopping" /\ provider.state = "done" /\ Conclude(result)
        /\ provider' = NoProvider /\ UNCHANGED <<process, now, token, cancelled>>
    BY DEF Settle
  <1>2. result \in Endings
    BY <1>1, SettledParts
  <1>. HIDE DEF result
  <1>3. /\ IsCall(call) /\ call.phase \notin {"idle", "ended"}
        /\ call.seen \in Seq(Endings) /\ MayRetry(call.seen)
        /\ now \in Nat /\ call.started \in Nat
    BY <1>1 DEF CallInv, CallShaped, CallOpen
  <1>4. IsProvider(provider') /\ provider'.state = "idle"
    BY <1>1 DEF NoProvider, IsProvider
  <1>5. done = [[call EXCEPT !.seen = made] EXCEPT !.phase = "ended"]
    OBVIOUS
  <1>6. /\ made \in Seq(Endings) /\ Len(made) \in Nat
        /\ result = "transient" /\ Len(made) < MaxAttempts => MayRetry(made)
    BY <1>2, <1>3, Attempted
  <1>7. /\ result = "cancel" => call' = [done EXCEPT !.outcome = "cancelled"]
        /\ result = "timeout" => call' = [done EXCEPT !.outcome = "timeout", !.response = LateResponse]
        /\ result \in {"quota", "permanent"} => call' = [done EXCEPT !.outcome = "error"]
        /\ result = "transient" =>
             IF Len(done.seen) >= MaxAttempts THEN call' = [done EXCEPT !.outcome = "unavailable"]
             ELSE IF Remaining <= 0
             THEN call' = [done EXCEPT !.outcome = "timeout", !.response = LateResponse]
             ELSE \E delay \in 0..Backoff :
                    call' = [done EXCEPT !.phase = "backoff", !.due = now + AtMost(delay, Remaining)]
        /\ result = "answer" =>
             IF Remaining <= 0
             THEN call' = [done EXCEPT !.outcome = "timeout", !.response = LateResponse]
             ELSE \E out \in TaskOutputs :
                    call' = [done EXCEPT !.outcome = "answer", !.response = Answered(out), !.out = out]
    BY <1>1 DEF Conclude
  <1>8. /\ done.seen = made /\ done.response = None /\ done.outcome = None /\ done.out = call.out
        /\ IsCall(done)
    <2>1. call.response = None /\ call.outcome = None
      BY <1>1 DEF CallInv, CallOpen
    <2>. HIDE DEF made, done
    <2>. QED  BY <1>3, <1>5, <2>1 DEF IsCall
  <1>9. Remaining <= 0 <=> now - call.started >= Timeout
    BY <1>3, BoundsAssumption DEF Remaining
  <1>10. Remaining <= 0 <=> ~(now - call.started < Timeout)
    BY <1>3, <1>9, BoundsAssumption
  <1>11. made = Append(call.seen, result)
    OBVIOUS
  <1>. DEFINE Ends(outcome, response, out) ==
                call' = [[[done EXCEPT !.outcome = outcome] EXCEPT !.response = response]
                             EXCEPT !.out = out]
  <1>12. ASSUME NEW outcome, NEW response, NEW out, Ends(outcome, response, out),
                Justified(outcome, made, now - call.started, process.live, IsCancelled),
                Checked(call.task, call.text, response, out)
         PROVE  CallInv'
    <2>1. call' = [[[[[call EXCEPT !.seen = made] EXCEPT !.phase = "ended"]
                       EXCEPT !.outcome = outcome] EXCEPT !.response = response] EXCEPT !.out = out]
      BY <1>5, <1>12
    <2>. HIDE DEF made, done, Ends
    <2>. QED  BY <1>1, <1>3, <1>4, <1>6, <1>12, <2>1, CallEnds
  <1>. DEFINE none == done.response
              kept == done.out
  <1>13. none = None
    BY <1>8
  <1>. HIDE DEF made
  <1>14. CASE result = "cancel"
    <2>1. Ends("cancelled", none, kept)
      BY <1>7, <1>8, <1>14 DEF IsCall
    <2>2. Justified("cancelled", made, now - call.started, process.live, IsCancelled)
      BY <1>2, <1>3, <1>11, <1>14, AttemptedMayEnd
    <2>. HIDE DEF done, Ends, none, kept
    <2>. QED  BY <1>12, <1>13, <2>1, <2>2, NothingIsChecked
  <1>15. CASE /\ call' = [done EXCEPT !.outcome = "timeout", !.response = LateResponse]
              /\ result = "timeout" \/ Remaining <= 0
    <2>. DEFINE late == LateResponse
    <2>1. Ends("timeout", late, kept)
      BY <1>8, <1>15 DEF IsCall
    <2>2. Justified("timeout", made, now - call.started, process.live, IsCancelled)
      BY <1>2, <1>3, <1>9, <1>11, <1>15, AttemptedMayEnd
    <2>. HIDE DEF done, Ends, kept
    <2>. QED  BY <1>12, <2>1, <2>2, LateIsChecked
  <1>16. CASE result \in {"quota", "permanent"}
    <2>1. Ends("error", none, kept)
      BY <1>7, <1>8, <1>16 DEF IsCall
    <2>2. Justified("error", made, now - call.started, process.live, IsCancelled)
      BY <1>2, <1>3, <1>11, <1>16, AttemptedMayEnd
    <2>. HIDE DEF done, Ends, none, kept
    <2>. QED  BY <1>12, <1>13, <2>1, <2>2, NothingIsChecked
  <1>17. CASE result = "transient" /\ Len(made) >= MaxAttempts
    <2>1. Ends("unavailable", none, kept)
      BY <1>7, <1>8, <1>17 DEF IsCall
    <2>2. Justified("unavailable", made, now - call.started, process.live, IsCancelled)
      BY <1>2, <1>3, <1>11, <1>17, AttemptedMayEnd
    <2>. HIDE DEF done, Ends, none, kept
    <2>. QED  BY <1>12, <1>13, <2>1, <2>2, NothingIsChecked
  <1>18. CASE result = "transient" /\ ~(Len(made) >= MaxAttempts) /\ ~(Remaining <= 0)
    <2>1. PICK delay \in 0..Backoff :
            call' = [done EXCEPT !.phase = "backoff", !.due = now + AtMost(delay, Remaining)]
      BY <1>7, <1>8, <1>18
    <2>. DEFINE due == now + AtMost(delay, Remaining)
                budget == call.budget
    <2>2. call' = [[[[call EXCEPT !.seen = made] EXCEPT !.phase = "backoff"] EXCEPT !.due = due]
                     EXCEPT !.budget = budget]
      <3>1. call' = [[done EXCEPT !.phase = "backoff"] EXCEPT !.due = due]
        BY <2>1
      <3>. HIDE DEF done, due
      <3>. QED  BY <1>3, <1>5, <3>1 DEF IsCall
    <2>3. MayRetry(made) /\ made \in Seq(Endings)
      <3>1. MaxAttempts \in Nat
        BY BoundsAssumption
      <3>. QED  BY <1>6, <1>18, <3>1
    <2>4. "backoff" \in Busy
      BY DEF Busy
    <2>5. now' \in Nat /\ now <= now'
      BY <1>1, <1>3
    <2>. HIDE DEF due, budget, done
    <2>6. ProviderFits'
      <3>1. call'.phase = "backoff"
        BY <1>3, <2>2 DEF IsCall
      <3>. QED  BY <1>4, <3>1 DEF ProviderFits
    <2>. QED  BY <1>3, <2>2, <2>3, <2>4, <2>5, <2>6, CallGoes
  <1>19. CASE result = "answer" /\ ~(Remaining <= 0)
    <2>1. PICK out \in TaskOutputs :
            call' = [done EXCEPT !.outcome = "answer", !.response = Answered(out), !.out = out]
      BY <1>7, <1>19
    <2>. DEFINE answer == Answered(out)
    <2>2. Ends("answer", answer, out)
      BY <2>1
    <2>3. Justified("answer", made, now - call.started, process.live, IsCancelled)
      BY <1>2, <1>3, <1>10, <1>11, <1>19, AttemptedMayEnd
    <2>4. Checked(call.task, call.text, answer, out)
      BY AnswerIsChecked
    <2>. HIDE DEF done, Ends, answer
    <2>. QED  BY <1>12, <2>2, <2>3, <2>4
  <1>. HIDE DEF done, Ends
  <1>20. \/ result = "cancel" \/ result \in {"quota", "permanent"}
         \/ result = "timeout" \/ (result \in {"transient", "answer"} /\ Remaining <= 0)
         \/ result = "transient" /\ ~(Remaining <= 0)
         \/ result = "answer" /\ ~(Remaining <= 0)
    BY <1>2 DEF Endings
  <1>. QED  BY <1>7, <1>8, <1>14, <1>15, <1>16, <1>17, <1>18, <1>19, <1>20

(* The pause between two attempts is over.                                 *)
LEMMA WakeStep ==
  ASSUME CallInv, Wake
  PROVE  CallInv'
  <1>1. /\ call.phase = "backoff" /\ call.phase \notin {"idle", "ended", "waiting", "stopping"}
        /\ UNCHANGED <<process, now, token, cancelled, provider>>
    BY DEF Wake
  <1>2. /\ call.seen \in Seq(Endings) /\ MayRetry(call.seen) /\ IsCall(call) /\ now \in Nat
    BY <1>1 DEF CallInv, CallShaped, CallOpen
  <1>3. CASE IsCancelled
    <2>1. EndCall("cancelled", None, None)
      BY <1>3 DEF Wake
    <2>2. Justified("cancelled", call.seen, now - call.started, process.live, IsCancelled)
      BY <1>2, <1>3, OpenMayEnd
    <2>. QED  BY <1>1, <2>1, <2>2, EndCallStep, NothingIsChecked
  <1>4. CASE ~IsCancelled
    <2>. DEFINE seen == call.seen
                due == call.due
                budget == call.budget
    <2>1. call' = [call EXCEPT !.phase = "attempt"]
      BY <1>4 DEF Wake
    <2>2. call' = [[[[call EXCEPT !.seen = seen] EXCEPT !.phase = "attempt"] EXCEPT !.due = due]
                     EXCEPT !.budget = budget]
      BY <1>2, <2>1 DEF IsCall
    <2>3. seen \in Seq(Endings) /\ MayRetry(seen) /\ now' \in Nat /\ now <= now'
      BY <1>1, <1>2
    <2>4. "attempt" \in Busy
      BY DEF Busy
    <2>. HIDE DEF seen, due, budget
    <2>5. ProviderFits'
      <3>1. call'.phase = "attempt"
        BY <1>2, <2>2 DEF IsCall
      <3>. QED  BY <1>1, <3>1 DEF CallInv, ProviderFits
    <2>. QED  BY <1>1, <2>2, <2>3, <2>4, <2>5, CallGoes
  <1>. QED  BY <1>3, <1>4

(* The caller cancels, or time passes.                                     *)
LEMMA TimeStep ==
  ASSUME CallInv, Cancel \/ TimerTick \/ SlackTick
  PROVE  CallInv'
  <1>1. call.phase # "ended" /\ UNCHANGED <<call, provider>>
    BY DEF Cancel, TimerTick, SlackTick
  <1>2. now \in Nat /\ (now' = now \/ now' = now + 1)
    BY DEF CallInv, CallShaped, Cancel, TimerTick, SlackTick
  <1>3. ProviderFits'
    BY <1>1 DEF CallInv, ProviderFits
  <1>. QED  BY <1>1, <1>2, <1>3, CallWaits

-------------------------------------------------------------------------------
(* The plan of a trip.                                                     *)

(* A day that was rewritten is rewritten to itself.                        *)
LEMMA RewriteSettles ==
  ASSUME NEW date, NEW today, NEW x, x = OrElse(Resolve(date[2], date[3], Omitted, today), date),
         x # Raises
  PROVE  OrElse(Resolve(x[2], x[3], Omitted, today), x) = x
  <1>. DEFINE r == Resolve(date[2], date[3], Omitted, today)
  <1>1. CASE r = NoDate
    <2>1. x = date
      BY <1>1 DEF OrElse
    <2>. QED  BY <1>1, <2>1 DEF OrElse
  <1>2. CASE r # NoDate
    <2>1. x = r
      BY <1>2 DEF OrElse
    <2>. DEFINE year == IF Omitted \in 2000..2099 THEN Omitted
                        ELSE NearestFutureYear(date[2], date[3], today)
    <2>2. r = InYear(year, date[2], date[3])
      BY <1>2 DEF Resolve
    <2>. HIDE DEF year
    <2>3. r = <<year, date[2], date[3]>>
      BY <1>2, <2>1, <2>2 DEF InYear
    <2>4. x[2] = date[2] /\ x[3] = date[3]
      BY <2>1, <2>3
    <2>. QED  BY <2>1, <2>4, <1>2 DEF OrElse
  <1>. QED  BY <1>1, <1>2

(* So is a range, whether its year was typed or not.                       *)
LEMMA RangeSettles ==
  ASSUME NEW range, NEW e, NEW today, NEW x, x = RewriteRange(range, YearTyped(e), today),
         x # Raises
  PROVE  RewriteRange(x, YearTyped(e), today) = x
  <1>. DEFINE start == Rewrite(range[1], YearTyped(e), today)
              end == Rewrite(range[2], YearTyped(e), today)
  <1>1. x = <<start, end>> /\ start # Raises /\ end # Raises
    BY DEF RewriteRange
  <1>2. x[1] = start /\ x[2] = end
    BY <1>1
  <1>3. Rewrite(start, YearTyped(e), today) = start
    BY <1>1, RewriteSettles DEF Rewrite
  <1>4. Rewrite(end, YearTyped(e), today) = end
    BY <1>1, RewriteSettles DEF Rewrite
  <1>. HIDE DEF start, end
  <1>. QED  BY <1>1, <1>2, <1>3, <1>4 DEF RewriteRange

(* Those of the words, when nothing was answered.                          *)
LEMMA WordsLast ==
  ASSUME NEW e, NEW nights, NEW today
  PROVE  PlanDates(e, NoDate, nights, today)
           = Lasting(OrElse(ExactCalendar(e, today), DayAlone(e, today)), NoDate, nights,
                     YearTyped(e), today)
  <1>. DEFINE found == OrElse(ExactCalendar(e, today), DayAlone(e, today))
              typed == YearTyped(e) \/ (NoDate # NoDate /\ NoDate[1] # Omitted)
  <1>1. PlanDates(e, NoDate, nights, today) = Lasting(found, NoDate, nights, typed, today)
    BY DEF PlanDates
  <1>2. typed <=> YearTyped(e)
    OBVIOUS
  <1>. HIDE DEF found, typed
  <1>3. Lasting(found, NoDate, nights, typed, today)
          = Lasting(found, NoDate, nights, YearTyped(e), today)
    BY <1>2 DEF Lasting, RewriteRange, Rewrite
  <1>. QED  BY <1>1, <1>3 DEF found

(* The days a plan starts from are those found, lasting the nights, or none.  *)
LEMMA BuyersDatesLast ==
  ASSUME NEW o, NEW a, NEW today, NEW days, days = BuyersDates(o, a, today), days # Raises
  PROVE  \E found : days = Lasting(found, NoDate, o.nights, YearTyped(o.dates), today)
  <1>1. CASE Given(a)
    <2>1. ExactCalendar(o.dates, today) # Raises
      BY <1>1 DEF BuyersDates
    <2>. QED  BY <1>1, <2>1 DEF BuyersDates
  <1>2. CASE ~Given(a)
    BY <1>2, WordsLast DEF BuyersDates
  <1>. QED  BY <1>1, <1>2

(* And they have been rewritten already.                                   *)
LEMMA BuyersDatesSettled ==
  ASSUME NEW o, NEW a, NEW today, NEW days, days = BuyersDates(o, a, today), days # Raises,
         days # NoRange
  PROVE  RewriteRange(days, YearTyped(o.dates), today) = days
  <1>1. PICK found : days = Lasting(found, NoDate, o.nights, YearTyped(o.dates), today)
    BY BuyersDatesLast
  <1>. DEFINE lasting == ApplyNights(OverlayCheckout(found, NoDate), o.nights)
  <1>2. days = RewriteRange(lasting, YearTyped(o.dates), today)
    BY <1>1 DEF Lasting
  <1>. HIDE DEF lasting
  <1>. QED  BY <1>2, RangeSettles

-------------------------------------------------------------------------------
(* The days the buyer names.                                               *)

\* A day on which plans are made.
InCentury(today) == today[1] \in 2000..2099

(* A day of any year is a day of every year, but for 29 February.          *)
LEMMA YearlyIsDate ==
  ASSUME NEW day, Yearly(day), NEW year \in Nat
  PROVE  IsDate(<<year, day[2], day[3]>>)
  <1>1. day[2] \in 1..12 /\ day[3] \in 1..31 /\ day[3] <= DaysIn(1, day[2])
    BY DEF Yearly
  <1>2. DaysIn(1, day[2]) <= DaysIn(year, day[2]) /\ DaysIn(1, day[2]) \in Nat
        /\ DaysIn(year, day[2]) \in Nat
    <2>1. ~IsLeap(1)
      BY DEF IsLeap
    <2>. QED  BY <1>1, <2>1 DEF DaysIn
  <1>. QED  BY <1>1, <1>2 DEF IsDate

(* resolve_ymd takes the year that is typed, or else the next one in which the day comes. *)
LEMMA ResolvesMeant ==
  ASSUME NEW day, Yearly(day), NEW today, InCentury(today), NEW year,
         NEW next, next = IF Before(<<today[1], day[2], day[3]>>, today) THEN today[1] + 1 ELSE today[1]
  PROVE  Resolve(day[2], day[3], year, today)
           = <<IF year \in 2000..2099 THEN year ELSE next, day[2], day[3]>>
  <1>1. day[3] \in 1..31
    BY DEF Yearly
  <1>2. next \in Nat /\ next # 0 /\ today[1] \in Nat
    BY DEF InCentury
  <1>3. IsDate(<<today[1], day[2], day[3]>>) /\ IsDate(<<next, day[2], day[3]>>)
    BY <1>2, YearlyIsDate
  <1>4. NearestFutureYear(day[2], day[3], today) = next
    BY <1>3 DEF NearestFutureYear
  <1>5. year \in 2000..2099 => IsDate(<<year, day[2], day[3]>>) /\ year # 0
    BY YearlyIsDate
  <1>. QED  BY <1>1, <1>2, <1>3, <1>4, <1>5 DEF Resolve, InYear

(* A triple is its parts.                                                  *)
LEMMA YearlyIsTriple ==
  ASSUME NEW day, Yearly(day)
  PROVE  day = <<day[1], day[2], day[3]>> /\ day # NoDate /\ day # Raises
  <1>1. day \in Nat \X (1..12) \X (1..31)
    BY DEF Yearly
  <1>2. PICK y \in Nat, m \in 1..12, d \in 1..31 : day = <<y, m, d>>
    BY <1>1
  <1>3. <<y, m, d>> # << >> /\ <<y, m, d>> # <<0>>
    OBVIOUS
  <1>4. day[1] = y /\ day[2] = m /\ day[3] = d
    BY <1>2
  <1>. QED  BY <1>2, <1>3, <1>4 DEF NoDate, Raises

\* What is meant is a day again, which means itself.
SettledAs(day, o, today) ==
  LET x == Meant(day, o, today) IN
  Yearly(x) /\ x[2] = day[2] /\ x[3] = day[3] /\ Meant(x, o, today) = x

(* What is meant is settled, and is what a day is rewritten to.            *)
LEMMA MeantSettles ==
  ASSUME NEW day, Yearly(day), NEW today, InCentury(today), NEW o
  PROVE  SettledAs(day, o, today) /\ Rewrite(day, YearTyped(o.dates), today) = Meant(day, o, today)
  <1>. DEFINE next == IF Before(<<today[1], day[2], day[3]>>, today) THEN today[1] + 1 ELSE today[1]
              x == Meant(day, o, today)
  <1>1. CASE YearTyped(o.dates)
    BY <1>1 DEF Meant, Rewrite, SettledAs
  <1>2. CASE ~YearTyped(o.dates)
    <2>1. x = <<next, day[2], day[3]>> /\ next \in Nat
      BY <1>2 DEF Meant, InCentury
    <2>2. Resolve(day[2], day[3], Omitted, today) = <<next, day[2], day[3]>>
      BY ResolvesMeant DEF Omitted
    <2>3. Rewrite(day, YearTyped(o.dates), today) = x
      BY <1>2, <2>1, <2>2 DEF Rewrite, OrElse, NoDate
    <2>4. x[2] = day[2] /\ x[3] = day[3]
      BY <2>1
    <2>5. Meant(x, o, today) = <<next, x[2], x[3]>>
      BY <1>2, <2>4 DEF Meant
    <2>6. Yearly(x)
      <3>. HIDE DEF next, x
      <3>. QED  BY <2>1, <2>4 DEF Yearly
    <2>7. Meant(x, o, today) = x
      <3>. HIDE DEF next, x
      <3>. QED  BY <2>1, <2>4, <2>5
    <2>. QED  BY <2>3, <2>4, <2>6, <2>7 DEF SettledAs
  <1>. QED  BY <1>1, <1>2

(* The years are rewritten to what is meant.                               *)
LEMMA RewrittenIsMeant ==
  ASSUME NEW day, Yearly(day), NEW today, InCentury(today), NEW o
  PROVE  Rewrite(day, YearTyped(o.dates), today) = Meant(day, o, today)
  BY MeantSettles

(* So both ends of a range that is found are what they mean.               *)
LEMMA FoundIsKept ==
  ASSUME NEW x, NEW y, Yearly(x), Yearly(y), NEW o, NEW today, InCentury(today),
         NEW days, days = Lasting(<<x, y>>, NoDate, o.nights, YearTyped(o.dates), today),
         days # Raises
  PROVE  /\ days # NoRange /\ days[1] = Meant(x, o, today)
         /\ x # y \/ o.nights = 0 => days[2] = Meant(y, o, today)
  <1>. DEFINE found == <<x, y>>
              lasting == ApplyNights(OverlayCheckout(found, NoDate), o.nights)
              start == Rewrite(lasting[1], YearTyped(o.dates), today)
              end == Rewrite(lasting[2], YearTyped(o.dates), today)
  <1>1. found \notin {Raises, NoRange} /\ found[1] = x /\ found[2] = y
    BY DEF Raises, NoRange
  <1>2. OverlayCheckout(found, NoDate) = found
    BY DEF OverlayCheckout
  <1>3. lasting[1] = x /\ (x # y \/ o.nights = 0 => lasting[2] = y)
    <2>1. lasting = ApplyNights(found, o.nights)
      BY <1>2
    <2>. HIDE DEF found
    <2>. QED  BY <1>1, <2>1 DEF ApplyNights
  <1>4. days = RewriteRange(lasting, YearTyped(o.dates), today)
    BY <1>1 DEF Lasting
  <1>. HIDE DEF lasting
  <1>5. days = <<start, end>>
    BY <1>4 DEF RewriteRange
  <1>6. start = Meant(x, o, today) /\ (x # y \/ o.nights = 0 => end = Meant(y, o, today))
    <2>1. /\ Rewrite(x, YearTyped(o.dates), today) = Meant(x, o, today)
          /\ Rewrite(y, YearTyped(o.dates), today) = Meant(y, o, today)
      BY RewrittenIsMeant
    <2>. QED  BY <1>3, <2>1
  <1>. HIDE DEF start, end
  <1>. QED  BY <1>5, <1>6 DEF NoRange

(* Two answered days in order.                                             *)
LEMMA AnswersAreKept ==
  ASSUME NEW o, NEW a, NEW today, InCentury(today), Given(a),
         NEW days, days = BuyersDates(o, a, today), days # Raises
  PROVE  KeepsDays(days, o, a, today)
  <1>. DEFINE x == a.start
              y == a.end
  <1>. SUFFICES ASSUME Said(o, a) # NoRange, Yearly(Said(o, a)[1]), Yearly(Said(o, a)[2]),
                       ~Before(Said(o, a)[2], Said(o, a)[1])
                PROVE  /\ days # NoRange /\ days[1] = Meant(Said(o, a)[1], o, today)
                       /\ Said(o, a)[1] # Said(o, a)[2] \/ o.nights = 0
                            => days[2] = Meant(Said(o, a)[2], o, today)
    BY DEF KeepsDays
  <1>1. Said(o, a) = IF NoDate \in {x, y} THEN NoRange ELSE <<x, y>>
    BY DEF Said
  <1>2. x # NoDate /\ y # NoDate /\ Said(o, a) = <<x, y>>
    BY <1>1
  <1>3. AnswerText(a) = Expression("iso", x, y)
    BY <1>2 DEF AnswerText
  <1>4. ExactCalendar(AnswerText(a), today) = <<x, y>>
    BY <1>2, <1>3 DEF ExactCalendar, Expression, Ordered
  <1>5. <<x, y>> # NoDate
    BY DEF NoDate
  <1>6. AnsweredDays(a, today) = <<x, y>>
    BY <1>4, <1>5 DEF AnsweredDays, OrElse
  <1>. HIDE DEF x, y
  <1>7. days = Lasting(<<x, y>>, NoDate, o.nights, YearTyped(o.dates), today)
    BY <1>5, <1>6 DEF BuyersDates, OrElse
  <1>. QED  BY <1>2, <1>7, FoundIsKept

(* Two dates in full, two days of one month or a single day of the objective. *)
LEMMA WordsAreKept ==
  ASSUME NEW o, NEW a, NEW today, InCentury(today), ~Given(a),
         NEW days, days = BuyersDates(o, a, today), days # Raises
  PROVE  KeepsDays(days, o, a, today)
  <1>. DEFINE e == o.dates
              s == e.start
              f == e.end
              said == Said(o, a)
              found == ExactCalendar(e, today)
  <1>1. days = Lasting(OrElse(found, DayAlone(e, today)), NoDate, o.nights, YearTyped(e), today)
    BY WordsLast DEF BuyersDates
  <1>2. CASE e.form = "iso"
    <2>. SUFFICES ASSUME said # NoRange, Yearly(said[1]), Yearly(said[2]), ~Before(said[2], said[1])
                  PROVE  /\ days # NoRange /\ days[1] = Meant(said[1], o, today)
                         /\ said[1] # said[2] \/ o.nights = 0 => days[2] = Meant(said[2], o, today)
      BY <1>2 DEF KeepsDays
    <2>1. said = <<s, f>>
      BY <1>2 DEF Said
    <2>2. found = <<s, f>>
      BY <1>2, <2>1 DEF ExactCalendar, Ordered
    <2>3. <<s, f>> # NoDate
      BY DEF NoDate
    <2>. HIDE DEF said, found, s, f
    <2>4. days = Lasting(<<s, f>>, NoDate, o.nights, YearTyped(e), today)
      BY <1>1, <2>2, <2>3 DEF OrElse
    <2>. QED  BY <2>1, <2>4, FoundIsKept
  <1>3. CASE e.form = "span" /\ s[1] = Omitted
    <2>. DEFINE x == Meant(said[1], o, today)
                y == Meant(said[2], o, today)
    <2>. SUFFICES ASSUME Yearly(said[1]), Yearly(said[2]), ~Before(y, x)
                  PROVE  /\ days # NoRange /\ days[1] = x
                         /\ said[1] # said[2] \/ o.nights = 0 => days[2] = y
      BY <1>3 DEF KeepsDays
    <2>1. said = <<<<f[1], f[2], s[3]>>, f>>
      BY <1>3 DEF Said
    <2>2. f = <<f[1], f[2], f[3]>> /\ f # NoDate
      BY <2>1, YearlyIsTriple
    <2>3. YearTyped(e) <=> f[1] \in 2000..2099
      BY <1>3, <2>2 DEF YearTyped, Omitted
    <2>4. Resolve(f[2], s[3], f[1], today) = x
      <3>. DEFINE p == <<f[1], f[2], s[3]>>
      <3>1. Yearly(p) /\ p[1] = f[1] /\ p[2] = f[2] /\ p[3] = s[3] /\ x = Meant(p, o, today)
        BY <2>1
      <3>. HIDE DEF x, said, f, s
      <3>2. x = <<IF f[1] \in 2000..2099 THEN f[1]
                  ELSE IF Before(<<today[1], f[2], s[3]>>, today) THEN today[1] + 1 ELSE today[1],
                  f[2], s[3]>>
        BY <2>3, <3>1 DEF Meant
      <3>. HIDE DEF p
      <3>. QED  BY <3>1, <3>2, ResolvesMeant
    <2>5. Resolve(f[2], f[3], f[1], today) = y
      <3>1. Yearly(f) /\ y = Meant(f, o, today)
        BY <2>1
      <3>. HIDE DEF x, y, said, f, s
      <3>2. y = <<IF f[1] \in 2000..2099 THEN f[1]
                  ELSE IF Before(<<today[1], f[2], f[3]>>, today) THEN today[1] + 1 ELSE today[1],
                  f[2], f[3]>>
        BY <2>2, <2>3, <3>1 DEF Meant
      <3>. HIDE DEF e
      <3>. QED  BY <3>1, <3>2, ResolvesMeant
    <2>6. /\ Yearly(x) /\ Meant(x, o, today) = x /\ x[2] = said[1][2] /\ x[3] = said[1][3]
          /\ Yearly(y) /\ Meant(y, o, today) = y /\ y[2] = said[2][2] /\ y[3] = said[2][3]
      <3>1. SettledAs(said[1], o, today) /\ SettledAs(said[2], o, today)
        BY MeantSettles
      <3>. QED  BY <3>1 DEF SettledAs
    <2>7. x # NoDate /\ x # Raises /\ y # NoDate /\ y # Raises
      BY <2>6, YearlyIsTriple
    <2>8. said[1] # said[2] => x # y
      <3>1. s[3] = f[3] => said[1] = said[2]
        BY <2>1, <2>2
      <3>2. x[3] = s[3] /\ y[3] = f[3]
        BY <2>1, <2>6
      <3>. QED  BY <3>1, <3>2
    <2>. HIDE DEF x, y, said
    <2>9. found = <<x, y>>
      BY <1>3, <2>4, <2>5, <2>7 DEF ExactCalendar, RangeOr, Ordered
    <2>10. <<x, y>> # NoDate
      BY DEF NoDate
    <2>. HIDE DEF found
    <2>11. days = Lasting(<<x, y>>, NoDate, o.nights, YearTyped(e), today)
      BY <1>1, <2>9, <2>10 DEF OrElse
    <2>. QED  BY <2>6, <2>8, <2>11, FoundIsKept
  <1>4. CASE e.form = "single" /\ f = NoDate
    <2>. DEFINE x == Meant(s, o, today)
    <2>1. said = <<s, s>>
      BY <1>4 DEF Said
    <2>. SUFFICES ASSUME Yearly(s)
                  PROVE  /\ days # NoRange /\ days[1] = x
                         /\ o.nights = 0 => days[2] = x
      BY <1>4, <2>1 DEF KeepsDays
    <2>2. s = <<s[1], s[2], s[3]>> /\ s # NoDate
      BY YearlyIsTriple
    <2>3. YearTyped(e) <=> s[1] \in 2000..2099
      BY <1>4, <2>2 DEF YearTyped
    <2>. HIDE DEF said, found, f
    <2>4. Resolve(s[2], s[3], s[1], today) = x
      <3>. HIDE DEF s
      <3>1. x = <<IF s[1] \in 2000..2099 THEN s[1]
                  ELSE IF Before(<<today[1], s[2], s[3]>>, today) THEN today[1] + 1 ELSE today[1],
                  s[2], s[3]>>
        BY <2>2, <2>3 DEF Meant
      <3>. HIDE DEF x
      <3>. QED  BY <3>1, ResolvesMeant
    <2>5. Yearly(x) /\ Meant(x, o, today) = x
      <3>1. SettledAs(s, o, today)
        BY MeantSettles
      <3>. QED  BY <3>1 DEF SettledAs
    <2>6. x # NoDate /\ x # Raises
      BY <2>5, YearlyIsTriple
    <2>. HIDE DEF x
    <2>7. Anchor(e, today) = x
      BY <1>4, <2>4 DEF Anchor
    <2>8. found = <<x, x>>
      BY <1>4, <2>6, <2>7 DEF found, ExactCalendar, OneDay
    <2>9. <<x, x>> # NoDate
      BY DEF NoDate
    <2>10. days = Lasting(<<x, x>>, NoDate, o.nights, YearTyped(e), today)
      BY <1>1, <2>8, <2>9 DEF OrElse
    <2>. QED  BY <2>5, <2>10, FoundIsKept
  <1>5. CASE /\ e.form # "iso"
             /\ ~(e.form = "span" /\ s[1] = Omitted)
             /\ ~(e.form = "single" /\ f = NoDate)
    <2>1. said = NoRange
      BY <1>5 DEF Said
    <2>. QED  BY <2>1 DEF KeepsDays
  <1>. QED  BY <1>2, <1>3, <1>4, <1>5

(* However the buyer names the days, extract_facts keeps them.             *)
LEMMA BuyersDaysAreKept ==
  ASSUME NEW o, NEW a, NEW today, InCentury(today),
         NEW days, days = BuyersDates(o, a, today), days # Raises
  PROVE  KeepsDays(days, o, a, today)
  BY AnswersAreKept, WordsAreKept

-------------------------------------------------------------------------------
(* The facts of a plan: what the buyer said stays what it is.              *)
IsFacts(f) == f = [stated |-> f.stated, destination |-> f.destination, origin |-> f.origin,
                   parkingAirport |-> f.parkingAirport, departure |-> f.departure,
                   range |-> f.range, exact |-> f.exact, loose |-> f.loose, carNeed |-> f.carNeed,
                   booked |-> f.booked, tripLike |-> f.tripLike]

BuyersFacts(f, o, a) ==
  /\ f.stated = Stated(o, a)
  /\ f.parkingAirport \in {o.parkingAt, o.airport, ""}
  /\ f.departure \in {o.from, a.airport}
  /\ o.city # "" => f.destination = o.city
  /\ f.booked <=> Booked(o, a)

(* What the buyer's words and answers give.                                *)
LEMMA ExtractedFacts ==
  ASSUME NEW o, NEW a, NEW range, NEW f, f = ExtractFacts(o, a, range)
  PROVE  /\ IsFacts(f) /\ BuyersFacts(f, o, a) /\ f.range = range
         /\ range # NoRange => f.exact
  <1>. DEFINE exact == Given(a) \/ range # NoRange
              loose == Given(a) \/ range # NoRange \/ o.words \cap {"nights", "weekday"} # {}
              tripLike == \/ o.words \cap {"travel", "landing", "conference", "nights"} # {}
                          \/ o.city # "" /\ (~Parking(o) \/ "car" \in o.words)
              departure == IF a.airport # "" THEN a.airport ELSE o.from
              booked == Booked(o, a)
  <1>1. f = [stated |-> Stated(o, a), destination |-> o.city, origin |-> o.origin,
             parkingAirport |-> ParkingAirport(o), departure |-> departure,
             range |-> range, exact |-> exact, loose |-> loose, carNeed |-> CarNeed(o, a),
             booked |-> booked, tripLike |-> tripLike]
    BY DEF ExtractFacts
  <1>2. departure \in {o.from, a.airport} /\ ParkingAirport(o) \in {o.parkingAt, o.airport, ""}
    BY DEF ParkingAirport
  <1>3. range # NoRange => exact
    OBVIOUS
  <1>. HIDE DEF loose, tripLike, departure, booked, exact
  <1>5. (f.booked <=> booked) /\ (f.exact <=> exact)
    BY <1>1
  <1>4. IsFacts(f) /\ f.range = range /\ f.stated = Stated(o, a) /\ f.destination = o.city
        /\ f.parkingAirport = ParkingAirport(o) /\ f.departure = departure
    BY <1>1 DEF IsFacts
  <1>6. f.booked <=> Booked(o, a)
    BY <1>5 DEF booked
  <1>. QED  BY <1>2, <1>3, <1>4, <1>5, <1>6 DEF BuyersFacts

(* The model's facts fill in what the buyer left open.                     *)
LEMMA OverlaidFacts ==
  ASSUME NEW o, NEW a, NEW g, IsFacts(g), BuyersFacts(g, o, a), NEW t, NEW f, f = Overlay(g, t)
  PROVE  IsFacts(f) /\ BuyersFacts(f, o, a) /\ (g.exact => f.range = g.range)
  <1>. DEFINE days == ModelsDays(g, t)
              destination == IF g.destination = "" THEN t.destination ELSE g.destination
              tripLike == g.tripLike \/ (g.destination = "" /\ t.destination # "")
              range == OrElse(days, g.range)
              exact == g.exact \/ days # NoRange
              loose == g.loose \/ days # NoRange
  <1>1. f = [[[[[g EXCEPT !.destination = destination] EXCEPT !.tripLike = tripLike]
                 EXCEPT !.range = range] EXCEPT !.exact = exact] EXCEPT !.loose = loose]
    BY DEF Overlay, IsFacts
  <1>2. /\ o.city # "" => destination = o.city
        /\ g.exact => range = g.range
    BY DEF BuyersFacts, ModelsDays, OrElse, NoDate, NoRange
  <1>. HIDE DEF destination, tripLike, range, exact, loose
  <1>3. IsFacts(f) /\ f.stated = g.stated /\ f.destination = destination /\ f.range = range
        /\ f.parkingAirport = g.parkingAirport /\ f.departure = g.departure /\ f.booked = g.booked
    BY <1>1 DEF IsFacts
  <1>. QED  BY <1>2, <1>3 DEF BuyersFacts

(* And the years of the days are made canonical.                           *)
LEMMA CanonicalFacts ==
  ASSUME NEW o, NEW a, NEW g, IsFacts(g), BuyersFacts(g, o, a), NEW today, NEW f,
         f = CanonicalizeYears(g, o, today)
  PROVE  /\ BuyersFacts(f, o, a)
         /\ g.range # NoRange => f.range = RewriteRange(g.range, YearTyped(o.dates), today)
  <1>. DEFINE range == RewriteRange(g.range, YearTyped(o.dates), today)
  <1>1. CASE g.range = NoRange
    BY <1>1 DEF CanonicalizeYears
  <1>2. CASE g.range # NoRange
    <2>1. f = [g EXCEPT !.range = range]
      BY <1>2 DEF CanonicalizeYears
    <2>. HIDE DEF range
    <2>2. /\ f.stated = g.stated /\ f.destination = g.destination /\ f.range = range
          /\ f.parkingAirport = g.parkingAirport /\ f.departure = g.departure /\ f.booked = g.booked
      BY <2>1 DEF IsFacts
    <2>. QED  BY <2>2 DEF BuyersFacts, range
  <1>. QED  BY <1>1, <1>2

-------------------------------------------------------------------------------
(* The tasks of a plan.                                                    *)

\* A task the buyer's words allow.
Allowed(k, o, a) ==
  /\ k = [kind |-> k.kind, provenance |-> k.provenance, accepted |-> k.accepted]
  /\ k.accepted => k.kind \in Asked(o, a)
  /\ "booked" \in o.words => k.kind # "flight"

(* What the facts call stated, the buyer asked for.                        *)
LEMMA StatedIsAsked ==
  ASSUME NEW o, NEW a
  PROVE  Stated(o, a) \subseteq Asked(o, a)
  BY DEF Stated, Asked, Kinds, Parking

(* A task of the projector's own.                                          *)
LEMMA BaseTaskAllowed ==
  ASSUME NEW o, NEW a, NEW f, BuyersFacts(f, o, a), NEW k \in BaseTasks(f, a, o)
  PROVE  Allowed(k, o, a)
  <1>1. PICK kind \in Kinds : Provenance(kind, f, a, o) # "" /\ k = Task(kind, Provenance(kind, f, a, o))
    BY DEF BaseTasks
  <1>. DEFINE p == Provenance(kind, f, a, o)
              accepted == p = "explicit"
  <1>2. p = "explicit" => kind \in Asked(o, a)
    <2>1. p = "explicit" => \/ kind \in f.stated
                            \/ kind = "flight" /\ "route" \in o.words
      BY DEF Provenance
    <2>2. "route" \in o.words => "flight" \in Asked(o, a)
      BY DEF Asked
    <2>. QED  BY <2>1, <2>2, StatedIsAsked DEF BuyersFacts
  <1>3. "booked" \in o.words => kind # "flight"
    <2>. SUFFICES ASSUME "booked" \in o.words, kind = "flight"
                  PROVE  FALSE
      OBVIOUS
    <2>1. ~FlightWanted(f, o)
      BY DEF FlightWanted, BuyersFacts, Booked
    <2>2. p = ""
      BY <2>1 DEF Provenance
    <2>. QED  BY <1>1, <2>2
  <1>4. k = [kind |-> kind, provenance |-> p, accepted |-> accepted]
    BY <1>1 DEF Task
  <1>5. accepted => kind \in Asked(o, a)
    BY <1>2
  <1>. HIDE DEF p, accepted
  <1>. QED  BY <1>3, <1>4, <1>5 DEF Allowed

(* What the model claims confirms nothing.                                 *)
LEMMA DowngradeAllowed ==
  ASSUME NEW o, NEW a, NEW f, NEW t, NEW tasks, \A k \in tasks : Allowed(k, o, a),
         NEW d \in Downgrade(tasks, f, t, o)
  PROVE  Allowed(d, o, a)
  <1>. DEFINE earned == Earned(f, t, o)
              Lower(k) == IF k.provenance = "explicit" /\ k.kind \notin earned
                          THEN Task(k.kind, "proposed") ELSE k
              first == {Lower(k) : k \in tasks}
              Claimed(k) == k.kind \in DOMAIN t.suggested /\ t.suggested[k.kind] = "explicit"
              Relabel(k) == IF Claimed(k) /\ k.kind \notin earned
                            THEN [k EXCEPT !.provenance = IF k.accepted THEN "inferred" ELSE "proposed"]
                            ELSE k
  <1>1. Downgrade(tasks, f, t, o) = {Relabel(k) : k \in first}
    BY DEF Downgrade
  <1>2. ASSUME NEW k \in tasks
        PROVE  Allowed(Lower(k), o, a)
    <2>1. CASE k.provenance = "explicit" /\ k.kind \notin earned
      <3>. DEFINE accepted == "proposed" = "explicit"
                  y == Task(k.kind, "proposed")
      <3>1. y = [kind |-> k.kind, provenance |-> "proposed", accepted |-> accepted]
        BY DEF Task
      <3>2. ~accepted
        OBVIOUS
      <3>. HIDE DEF accepted, y
      <3>3. ~y.accepted /\ y.kind = k.kind /\ y.provenance = "proposed"
        BY <3>1, <3>2
      <3>4. y = [kind |-> y.kind, provenance |-> y.provenance, accepted |-> y.accepted]
        BY <3>1
      <3>5. Allowed(y, o, a)
        BY <3>3, <3>4 DEF Allowed
      <3>. QED  BY <2>1, <3>5 DEF y
    <2>2. CASE ~(k.provenance = "explicit" /\ k.kind \notin earned)
      BY <2>2
    <2>. QED  BY <2>1, <2>2
  <1>. HIDE DEF Lower
  <1>3. \A k \in first : Allowed(k, o, a)
    BY <1>2
  <1>4. PICK k \in first : d = Relabel(k)
    BY <1>1
  <1>5. Allowed(k, o, a)
    BY <1>3, <1>4
  <1>. HIDE DEF first
  <1>6. CASE Claimed(k) /\ k.kind \notin earned
    <2>. DEFINE provenance == IF k.accepted THEN "inferred" ELSE "proposed"
    <2>1. d = [k EXCEPT !.provenance = provenance]
      BY <1>4, <1>6
    <2>. HIDE DEF provenance
    <2>2. /\ d = [kind |-> d.kind, provenance |-> d.provenance, accepted |-> d.accepted]
          /\ d.kind = k.kind /\ d.accepted = k.accepted
      BY <1>5, <2>1 DEF Allowed
    <2>. QED  BY <1>5, <2>2 DEF Allowed
  <1>7. CASE ~(Claimed(k) /\ k.kind \notin earned)
    BY <1>4, <1>5, <1>7
  <1>. QED  BY <1>6, <1>7

\* What BuyersWordsDecide says of a plan.
Decided(o, a, today, p) ==
  /\ \A k \in p.tasks : k.accepted => k.kind \in Asked(o, a)
  /\ "booked" \in o.words => \A k \in p.tasks : k.kind # "flight"
  /\ o.city # "" => p.facts.destination = o.city
  /\ KeepsDays(p.facts.range, o, a, today)
  /\ p.facts.parkingAirport \in {o.parkingAt, o.airport, ""}
  /\ p.facts.departure \in {o.from, a.airport}

(* Whatever the model's turn is, the buyer's words decide.                 *)
LEMMA ProjectDecides ==
  ASSUME NEW o, NEW a, NEW t, NEW today, InCentury(today), BuyersDates(o, a, today) # Raises,
         NEW p, p = Project(o, a, t, today)
  PROVE  Decided(o, a, today, p)
  <1>. DEFINE days == BuyersDates(o, a, today)
              f0 == ExtractFacts(o, a, days)
              f1 == Overlay(f0, t)
              f == CanonicalizeYears(f1, o, today)
              tasks == Downgrade(BaseTasks(f, a, o), f, t, o)
  <1>1. p = Projection(f, o, a, t)
    BY DEF Project
  <1>2. days # Raises /\ KeepsDays(days, o, a, today)
    BY BuyersDaysAreKept
  <1>. HIDE DEF days
  <1>3. IsFacts(f0) /\ BuyersFacts(f0, o, a) /\ f0.range = days /\ (days # NoRange => f0.exact)
    BY ExtractedFacts
  <1>. HIDE DEF f0
  <1>4. IsFacts(f1) /\ BuyersFacts(f1, o, a) /\ (f0.exact => f1.range = f0.range)
    BY <1>3, OverlaidFacts
  <1>. HIDE DEF f1
  <1>5. /\ BuyersFacts(f, o, a)
        /\ f1.range # NoRange => f.range = RewriteRange(f1.range, YearTyped(o.dates), today)
    BY <1>4, CanonicalFacts
  <1>. HIDE DEF f
  <1>6. days # NoRange => f.range = days
    <2>1. days # NoRange => RewriteRange(days, YearTyped(o.dates), today) = days
      BY <1>2, BuyersDatesSettled DEF days
    <2>. QED  BY <1>3, <1>4, <1>5, <2>1
  <1>7. p.facts = f /\ p.tasks \subseteq tasks
    BY <1>1 DEF Projection
  <1>8. \A k \in tasks : Allowed(k, o, a)
    <2>1. \A k \in BaseTasks(f, a, o) : Allowed(k, o, a)
      BY <1>5, BaseTaskAllowed
    <2>. QED  BY <2>1, DowngradeAllowed
  <1>9. KeepsDays(f.range, o, a, today)
    <2>1. CASE days = NoRange
      BY <1>2, <2>1 DEF KeepsDays
    <2>2. CASE days # NoRange
      BY <1>2, <1>6, <2>2
    <2>. QED  BY <2>1, <2>2
  <1>. HIDE DEF tasks
  <1>10. \A k \in p.tasks : k.accepted => k.kind \in Asked(o, a)
    BY <1>7, <1>8 DEF Allowed
  <1>11. "booked" \in o.words => \A k \in p.tasks : k.kind # "flight"
    BY <1>7, <1>8 DEF Allowed
  <1>12. BuyersFacts(p.facts, o, a) /\ KeepsDays(p.facts.range, o, a, today)
    BY <1>5, <1>7, <1>9
  <1>. HIDE DEF f
  <1>13. o.city # "" => p.facts.destination = o.city
    BY <1>12 DEF BuyersFacts
  <1>14. p.facts.parkingAirport \in {o.parkingAt, o.airport, ""}
    BY <1>12 DEF BuyersFacts
  <1>15. p.facts.departure \in {o.from, a.airport}
    BY <1>12 DEF BuyersFacts
  <1>. QED  BY <1>10, <1>11, <1>12, <1>13, <1>14, <1>15 DEF Decided

-------------------------------------------------------------------------------
(* The plan turns.                                                         *)

Working == {"patched", "asking", "leaving"}

\* The fields of a turn.
IsTurn(t) == t = [phase |-> t.phase, saw |-> t.saw, worker |-> t.worker, original |-> t.original,
                  forced |-> t.forced, late |-> t.late, result |-> t.result, shown |-> t.shown]

\* What a plan shows is decided by the words of the buyer it was made for.
PlanDecided(shown, today) ==
  Decided(shown.input.objective, shown.input.answers, today, shown.projection)

\* A turn has a thread from the pool's taking it until the turn ends, and shows nothing earlier.
TurnFits(t, today) ==
  /\ t.phase \in {"idle", "begun", "invoked", "ended"}
  /\ t.phase \in {"idle", "begun"} => t.worker = "off" /\ ~t.late
  /\ t.phase = "invoked" => t.worker \in Working \cup {"queued", "done"}
  /\ t.phase = "ended" => t.worker \in {"off", "done"}
  /\ t.phase # "ended" => t.shown = None
  /\ t.shown # None => /\ t.shown.fallback \/ (t.result = "turn" /\ ~t.late)
                       /\ PlanDecided(t.shown, today)

TurnsFit ==
  /\ process.today \in Days
  /\ turn = [c \in Chats |-> turn[c]]
  /\ \A c \in Chats : IsTurn(turn[c]) /\ TurnFits(turn[c], process.today)

\* At most one turn is in flight, the context is its chat's until the prompt is made, and the
\* class is patched for it or for nobody.
Solo ==
  /\ \A c, d \in Chats : InFlight(c) /\ InFlight(d) => c = d
  /\ \A c \in Chats : /\ turn[c].phase = "begun" => context = c
                      /\ turn[c].saw \in {None, c}
                      /\ turn[c].worker = "patched" => patched = "forced"
                      /\ turn[c].worker \in Working => turn[c].original = "original"
                      /\ turn[c].worker \in {"asking", "leaving", "done"} => turn[c].forced
  /\ (\A c \in Chats : turn[c].worker \notin Working) => patched = "original"

\* This is so as long as no two turns were in flight together.
Alone == ~overlapped => Solo

\* Chat c's turn becomes t.
Becomes(c, t) == /\ turn' = [turn EXCEPT ![c] = t]
                 /\ \A d \in Chats : turn'[d] = IF d = c THEN t ELSE turn[d]

(* One turn moves.                                                         *)
LEMMA TurnMoves ==
  ASSUME TurnsFit, NEW c \in Chats, NEW t, IsTurn(t), TurnFits(t, process.today),
         turn' = [turn EXCEPT ![c] = t], process' = process
  PROVE  TurnsFit' /\ Becomes(c, t)
  <1>1. turn = [d \in Chats |-> turn[d]]
    BY DEF TurnsFit
  <1>2. /\ turn' = [d \in Chats |-> turn'[d]]
        /\ \A d \in Chats : turn'[d] = IF d = c THEN t ELSE turn[d]
    BY <1>1
  <1>3. \A d \in Chats : IsTurn(turn'[d]) /\ TurnFits(turn'[d], process'.today)
    BY <1>2 DEF TurnsFit
  <1>4. process'.today \in Days
    BY DEF TurnsFit
  <1>. HIDE DEF TurnFits
  <1>5. TurnsFit'
    <2>1. \A d \in Chats : IsTurn(turn[d])' /\ TurnFits(turn[d], process.today)'
      BY <1>3 DEF IsTurn, TurnFits, PlanDecided, Decided, Asked
    <2>. QED  BY <1>2, <1>4, <2>1 DEF TurnsFit
  <1>. QED  BY <1>2, <1>5 DEF Becomes

(* No turn yet.                                                            *)
LEMMA TurnsStart == Init => TurnsFit /\ Alone
  <1>. SUFFICES ASSUME Init
                PROVE  TurnsFit /\ Alone
    OBVIOUS
  <1>1. turn = [c \in Chats |-> NoTurn] /\ process.today \in Days
    BY DEF Init
  <1>2. turn = [c \in Chats |-> turn[c]] /\ \A c \in Chats : turn[c] = NoTurn
    BY <1>1
  <1>3. /\ IsTurn(NoTurn) /\ NoTurn.phase = "idle" /\ NoTurn.worker = "off"
        /\ NoTurn.saw = None /\ NoTurn.shown = None /\ ~NoTurn.late
    BY DEF NoTurn, IsTurn
  <1>4. TurnFits(NoTurn, process.today)
    BY <1>3 DEF TurnFits
  <1>5. TurnsFit
    BY <1>1, <1>2, <1>3, <1>4 DEF TurnsFit
  <1>6. Alone
    BY <1>2, <1>3 DEF Alone, Solo, InFlight, Working, Init
  <1>. QED  BY <1>5, <1>6

(* A plan shown is the projection of a turn for the buyer's words.         *)
LEMMA ShownIsDecided ==
  ASSUME process.today \in Days, NEW input \in Readable(process.today),
         NEW t \in ModelTurns \cup {FallbackOf(input), FakeOf(input)}, NEW fallback,
         NEW shown, shown = Shown(input, t, fallback), shown # None
  PROVE  /\ PlanDecided(shown, process.today)
         /\ fallback => shown.fallback
  <1>. DEFINE today == process.today
              days == BuyersDays[input][today]
              p == Plans[today][input][t]
              labelled == fallback \/ t.fallback
  <1>1. /\ input \in Objectives /\ InCentury(today)
        /\ days = BuyersDates(input.objective, input.answers, today) /\ days # Raises
    BY BoundsAssumption DEF Readable, BuyersDays, InCentury
  <1>2. p = Project(input.objective, input.answers, t, today)
    BY DEF Plans
  <1>. HIDE DEF today, days, p
  <1>3. Decided(input.objective, input.answers, today, p)
    BY <1>1, <1>2, ProjectDecides
  <1>4. shown = [input |-> input, fallback |-> labelled, projection |-> p]
    BY DEF Shown, p, today
  <1>5. fallback => labelled
    OBVIOUS
  <1>. HIDE DEF labelled
  <1>6. shown.input = input /\ (shown.fallback <=> labelled) /\ shown.projection = p
    BY <1>4
  <1>7. PlanDecided(shown, today)
    BY <1>3, <1>6 DEF PlanDecided
  <1>. QED  BY <1>5, <1>6, <1>7 DEF today

(* A turn begins: nobody else may be in flight.                            *)
LEMMA BeginTurnStep ==
  ASSUME TurnsFit, Alone, NEW c \in Chats, BeginTurn(c)
  PROVE  TurnsFit' /\ Alone'
  <1>1. PICK phase \in {"begun", "ended"} : turn' = [turn EXCEPT ![c].phase = phase]
    BY DEF BeginTurn
  <1>. DEFINE t == [turn[c] EXCEPT !.phase = phase]
  <1>2. turn' = [turn EXCEPT ![c] = t]
    BY <1>1
  <1>3. IsTurn(turn[c]) /\ TurnFits(turn[c], process.today) /\ turn[c].phase = "idle"
    BY DEF TurnsFit, BeginTurn
  <1>4. t = [turn[c] EXCEPT !.phase = phase]
    OBVIOUS
  <1>. HIDE DEF t
  <1>5. /\ IsTurn(t) /\ t.phase = phase /\ t.worker = turn[c].worker /\ t.saw = turn[c].saw
        /\ t.shown = turn[c].shown /\ t.original = turn[c].original /\ (t.forced <=> turn[c].forced)
        /\ (t.late <=> turn[c].late)
    BY <1>4, <1>3 DEF IsTurn
  <1>6. turn[c].worker = "off" /\ turn[c].shown = None /\ ~turn[c].late
    BY <1>3 DEF TurnFits
  <1>7. TurnFits(t, process.today)
    BY <1>5, <1>6 DEF TurnFits
  <1>8. TurnsFit' /\ Becomes(c, t)
    BY <1>2, <1>5, <1>7, TurnMoves DEF BeginTurn
  <1>9. ASSUME ~overlapped'
        PROVE  Solo'
    <2>1. ~overlapped /\ (\A d \in Chats \ {c} : ~InFlight(d)) /\ context' = c /\ patched' = patched
      BY <1>9 DEF BeginTurn
    <2>2. \A d \in Chats : turn'[d] = IF d = c THEN t ELSE turn[d]
      BY <1>8 DEF Becomes
    <2>3. \A d \in Chats \ {c} : turn[d].phase # "begun"
      BY <2>1 DEF InFlight
    <2>. QED  BY <1>5, <1>6, <2>1, <2>2, <2>3 DEF Alone, Solo, InFlight, Working
  <1>10. Alone'
    BY <1>9 DEF Alone
  <1>. QED  BY <1>8, <1>10

(* The prompt is made of the context there is.                             *)
LEMMA InvokeStep ==
  ASSUME TurnsFit, Alone, NEW c \in Chats, Invoke(c)
  PROVE  TurnsFit' /\ Alone'
  <1>. DEFINE t == [[[turn[c] EXCEPT !.phase = "invoked"] EXCEPT !.saw = context] EXCEPT !.worker = "queued"]
  <1>1. turn' = [turn EXCEPT ![c] = t]
    BY DEF Invoke
  <1>2. IsTurn(turn[c]) /\ TurnFits(turn[c], process.today) /\ turn[c].phase = "begun"
    BY DEF TurnsFit, Invoke
  <1>3. t = [[[turn[c] EXCEPT !.phase = "invoked"] EXCEPT !.saw = context] EXCEPT !.worker = "queued"]
    OBVIOUS
  <1>. HIDE DEF t
  <1>4. /\ IsTurn(t) /\ t.phase = "invoked" /\ t.worker = "queued" /\ t.saw = context
        /\ t.shown = turn[c].shown
    BY <1>3, <1>2 DEF IsTurn
  <1>5. turn[c].shown = None /\ InFlight(c) /\ turn[c].worker = "off"
    BY <1>2 DEF TurnFits, InFlight
  <1>6. TurnFits(t, process.today)
    BY <1>4, <1>5 DEF TurnFits
  <1>7. TurnsFit' /\ Becomes(c, t)
    BY <1>1, <1>4, <1>6, TurnMoves DEF Invoke
  <1>8. ASSUME ~overlapped'
        PROVE  Solo'
    <2>1. ~overlapped /\ context' = context /\ patched' = patched
      BY <1>8 DEF Invoke
    <2>2. \A d \in Chats : turn'[d] = IF d = c THEN t ELSE turn[d]
      BY <1>7 DEF Becomes
    <2>3. context = c
      BY <1>2, <2>1 DEF Alone, Solo
    <2>. QED  BY <1>4, <1>5, <2>1, <2>2, <2>3 DEF Alone, Solo, InFlight, Working
  <1>9. Alone'
    BY <1>8 DEF Alone
  <1>. QED  BY <1>7, <1>9

(* The worker patches the class: nobody else has.                          *)
LEMMA PatchStep ==
  ASSUME TurnsFit, Alone, NEW c \in Chats, Patch(c)
  PROVE  TurnsFit' /\ Alone'
  <1>. DEFINE t == [[turn[c] EXCEPT !.worker = "patched"] EXCEPT !.original = patched]
  <1>1. turn' = [turn EXCEPT ![c] = t]
    BY DEF Patch
  <1>2. IsTurn(turn[c]) /\ TurnFits(turn[c], process.today) /\ turn[c].worker = "queued"
    BY DEF TurnsFit, Patch
  <1>3. turn[c].phase = "invoked" /\ turn[c].shown = None /\ InFlight(c)
    BY <1>2 DEF TurnFits, InFlight
  <1>4. t = [[turn[c] EXCEPT !.worker = "patched"] EXCEPT !.original = patched]
    OBVIOUS
  <1>. HIDE DEF t
  <1>5. /\ IsTurn(t) /\ t.phase = "invoked" /\ t.worker = "patched" /\ t.saw = turn[c].saw
        /\ t.shown = None /\ t.original = patched
    BY <1>4, <1>2, <1>3 DEF IsTurn
  <1>6. TurnFits(t, process.today)
    BY <1>5 DEF TurnFits, Working
  <1>7. TurnsFit' /\ Becomes(c, t)
    BY <1>1, <1>5, <1>6, TurnMoves DEF Patch
  <1>8. ASSUME ~overlapped'
        PROVE  Solo'
    <2>1. ~overlapped /\ context' = context /\ patched' = "forced"
      BY <1>8 DEF Patch
    <2>2. \A d \in Chats : turn'[d] = IF d = c THEN t ELSE turn[d]
      BY <1>7 DEF Becomes
    <2>3. \A d \in Chats : turn[d].worker \in Working => InFlight(d)
      BY DEF TurnsFit, TurnFits, InFlight, Working
    <2>4. \A d \in Chats : InFlight(d) => d = c
      BY <1>3, <2>1 DEF Alone, Solo
    <2>5. patched = "original"
      BY <1>2, <2>1, <2>3, <2>4 DEF Alone, Solo, Working
    <2>. QED  BY <1>3, <1>5, <2>1, <2>2, <2>3, <2>4, <2>5 DEF Alone, Solo, InFlight, Working
  <1>9. Alone'
    BY <1>8 DEF Alone
  <1>. QED  BY <1>7, <1>9

(* The agent is built with the class there is.                             *)
LEMMA BuildStep ==
  ASSUME TurnsFit, Alone, NEW c \in Chats, Build(c)
  PROVE  TurnsFit' /\ Alone'
  <1>. DEFINE forced == patched = "forced"
              t == [[turn[c] EXCEPT !.worker = "asking"] EXCEPT !.forced = forced]
  <1>1. turn' = [turn EXCEPT ![c] = t]
    BY DEF Build
  <1>2. IsTurn(turn[c]) /\ TurnFits(turn[c], process.today) /\ turn[c].worker = "patched"
    BY DEF TurnsFit, Build
  <1>3. turn[c].phase = "invoked" /\ turn[c].shown = None /\ InFlight(c)
    BY <1>2 DEF TurnFits, InFlight
  <1>4. ~overlapped => forced
    BY <1>2 DEF Alone, Solo
  <1>. HIDE DEF forced
  <1>5. t = [[turn[c] EXCEPT !.worker = "asking"] EXCEPT !.forced = forced]
    OBVIOUS
  <1>. HIDE DEF t
  <1>6. /\ IsTurn(t) /\ t.phase = "invoked" /\ t.worker = "asking" /\ t.saw = turn[c].saw
        /\ t.shown = None /\ t.original = turn[c].original /\ (t.forced <=> forced)
    BY <1>5, <1>2, <1>3 DEF IsTurn
  <1>7. TurnFits(t, process.today)
    BY <1>6 DEF TurnFits, Working
  <1>8. TurnsFit' /\ Becomes(c, t)
    BY <1>1, <1>6, <1>7, TurnMoves DEF Build
  <1>9. ASSUME ~overlapped'
        PROVE  Solo'
    <2>1. ~overlapped /\ context' = context /\ patched' = patched
      BY <1>9 DEF Build
    <2>2. \A d \in Chats : turn'[d] = IF d = c THEN t ELSE turn[d]
      BY <1>8 DEF Becomes
    <2>. QED  BY <1>4, <1>2, <1>3, <1>6, <2>1, <2>2 DEF Alone, Solo, InFlight, Working
  <1>10. Alone'
    BY <1>9 DEF Alone
  <1>. QED  BY <1>8, <1>10

(* The agent replies.                                                      *)
LEMMA ReplyStep ==
  ASSUME TurnsFit, Alone, NEW c \in Chats, Reply(c)
  PROVE  TurnsFit' /\ Alone'
  <1>1. PICK result : turn' = [turn EXCEPT ![c].worker = "leaving", ![c].result = result]
    BY DEF Reply
  <1>. DEFINE t == [[turn[c] EXCEPT !.worker = "leaving"] EXCEPT !.result = result]
  <1>2. turn' = [turn EXCEPT ![c] = t]
    BY <1>1
  <1>3. IsTurn(turn[c]) /\ TurnFits(turn[c], process.today) /\ turn[c].worker = "asking"
    BY DEF TurnsFit, Reply
  <1>4. turn[c].phase = "invoked" /\ turn[c].shown = None /\ InFlight(c)
    BY <1>3 DEF TurnFits, InFlight
  <1>5. t = [[turn[c] EXCEPT !.worker = "leaving"] EXCEPT !.result = result]
    OBVIOUS
  <1>. HIDE DEF t
  <1>6. /\ IsTurn(t) /\ t.phase = "invoked" /\ t.worker = "leaving" /\ t.saw = turn[c].saw
        /\ t.shown = None /\ t.original = turn[c].original /\ (t.forced <=> turn[c].forced)
    BY <1>5, <1>3, <1>4 DEF IsTurn
  <1>7. TurnFits(t, process.today)
    BY <1>6 DEF TurnFits, Working
  <1>8. TurnsFit' /\ Becomes(c, t)
    BY <1>2, <1>6, <1>7, TurnMoves DEF Reply
  <1>9. ASSUME ~overlapped'
        PROVE  Solo'
    <2>1. ~overlapped /\ context' = context /\ patched' = patched
      BY <1>9 DEF Reply
    <2>2. \A d \in Chats : turn'[d] = IF d = c THEN t ELSE turn[d]
      BY <1>8 DEF Becomes
    <2>. QED  BY <1>3, <1>4, <1>6, <2>1, <2>2 DEF Alone, Solo, InFlight, Working
  <1>10. Alone'
    BY <1>9 DEF Alone
  <1>. QED  BY <1>8, <1>10

(* The class is restored to what the worker found.                         *)
LEMMA UnpatchStep ==
  ASSUME TurnsFit, Alone, NEW c \in Chats, Unpatch(c)
  PROVE  TurnsFit' /\ Alone'
  <1>. DEFINE t == [turn[c] EXCEPT !.worker = "done"]
  <1>1. turn' = [turn EXCEPT ![c] = t]
    BY DEF Unpatch
  <1>2. IsTurn(turn[c]) /\ TurnFits(turn[c], process.today) /\ turn[c].worker = "leaving"
    BY DEF TurnsFit, Unpatch
  <1>3. turn[c].phase = "invoked" /\ turn[c].shown = None /\ InFlight(c)
    BY <1>2 DEF TurnFits, InFlight
  <1>4. t = [turn[c] EXCEPT !.worker = "done"]
    OBVIOUS
  <1>. HIDE DEF t
  <1>5. /\ IsTurn(t) /\ t.phase = "invoked" /\ t.worker = "done" /\ t.saw = turn[c].saw
        /\ t.shown = None /\ t.original = turn[c].original /\ (t.forced <=> turn[c].forced)
    BY <1>4, <1>2, <1>3 DEF IsTurn
  <1>6. TurnFits(t, process.today)
    BY <1>5 DEF TurnFits
  <1>7. TurnsFit' /\ Becomes(c, t)
    BY <1>1, <1>5, <1>6, TurnMoves DEF Unpatch
  <1>8. ASSUME ~overlapped'
        PROVE  Solo'
    <2>1. ~overlapped /\ context' = context /\ patched' = turn[c].original
      BY <1>8 DEF Unpatch
    <2>2. \A d \in Chats : turn'[d] = IF d = c THEN t ELSE turn[d]
      BY <1>7 DEF Becomes
    <2>3. turn[c].original = "original"
      BY <1>2, <2>1 DEF Alone, Solo, Working
    <2>4. \A d \in Chats : turn[d].worker \in Working => d = c
      BY <1>3, <2>1 DEF Alone, Solo, TurnsFit, TurnFits, InFlight, Working
    <2>. QED  BY <1>2, <1>3, <1>5, <2>1, <2>2, <2>3, <2>4 DEF Alone, Solo, InFlight, Working
  <1>9. Alone'
    BY <1>8 DEF Alone
  <1>. QED  BY <1>7, <1>9

(* The caller's wait runs out; the worker goes on.                         *)
LEMMA ExpireStep ==
  ASSUME TurnsFit, Alone, NEW c \in Chats, Expire(c)
  PROVE  TurnsFit' /\ Alone'
  <1>. DEFINE t == [turn[c] EXCEPT !.late = TRUE]
  <1>1. turn' = [turn EXCEPT ![c] = t]
    BY DEF Expire
  <1>2. IsTurn(turn[c]) /\ TurnFits(turn[c], process.today) /\ turn[c].phase = "invoked"
    BY DEF TurnsFit, Expire
  <1>3. turn[c].shown = None /\ InFlight(c)
    BY <1>2 DEF TurnFits, InFlight
  <1>4. t = [turn[c] EXCEPT !.late = TRUE]
    OBVIOUS
  <1>. HIDE DEF t
  <1>5. /\ IsTurn(t) /\ t.phase = "invoked" /\ t.worker = turn[c].worker /\ t.saw = turn[c].saw
        /\ t.shown = None /\ t.original = turn[c].original /\ (t.forced <=> turn[c].forced)
    BY <1>4, <1>2, <1>3 DEF IsTurn
  <1>6. TurnFits(t, process.today)
    BY <1>2, <1>5 DEF TurnFits
  <1>7. TurnsFit' /\ Becomes(c, t)
    BY <1>1, <1>5, <1>6, TurnMoves DEF Expire
  <1>8. ASSUME ~overlapped'
        PROVE  Solo'
    <2>1. ~overlapped /\ context' = context /\ patched' = patched
      BY <1>8 DEF Expire
    <2>2. \A d \in Chats : turn'[d] = IF d = c THEN t ELSE turn[d]
      BY <1>7 DEF Becomes
    <2>. QED  BY <1>2, <1>3, <1>5, <2>1, <2>2 DEF Alone, Solo, InFlight, Working
  <1>9. Alone'
    BY <1>8 DEF Alone
  <1>. QED  BY <1>7, <1>9

(* A turn ends, with what it may show.                                     *)
LEMMA TurnEnds ==
  ASSUME TurnsFit, Alone, NEW c \in Chats, NEW t, IsTurn(t), turn' = [turn EXCEPT ![c] = t],
         t.phase = "ended", t.worker \in {"off", "done"},
         t.worker = "done" => turn[c].worker = "done",
         t.saw \in {c, turn[c].saw}, t.forced <=> turn[c].forced,
         t.shown # None => (t.shown.fallback \/ (t.result = "turn" /\ ~t.late))
                           /\ PlanDecided(t.shown, process.today),
         turn[c].worker \notin Working,
         UNCHANGED <<process, context, patched, overlapped>>
  PROVE  TurnsFit' /\ Alone'
  <1>1. TurnFits(t, process.today)
    BY DEF TurnFits
  <1>2. TurnsFit' /\ Becomes(c, t)
    BY <1>1, TurnMoves
  <1>3. ASSUME ~overlapped'
        PROVE  Solo'
    <2>1. ~overlapped /\ context' = context /\ patched' = patched
      BY <1>3
    <2>2. \A d \in Chats : turn'[d] = IF d = c THEN t ELSE turn[d]
      BY <1>2 DEF Becomes
    <2>. QED  BY <2>1, <2>2 DEF Alone, Solo, InFlight, Working
  <1>4. Alone'
    BY <1>3 DEF Alone
  <1>. QED  BY <1>2, <1>4

(* The plan turn of the model ends.                                        *)
LEMMA EndTurnStep ==
  ASSUME TurnsFit, Alone, NEW c \in Chats, EndTurn(c)
  PROVE  TurnsFit' /\ Alone'
  <1>1. /\ IsTurn(turn[c]) /\ process.today \in Days
        /\ turn[c].phase = "invoked" /\ turn[c].worker = "done"
        /\ UNCHANGED <<process, context, patched, overlapped>>
    BY DEF TurnsFit, EndTurn
  <1>2. PICK shown : /\ turn' = [turn EXCEPT ![c].phase = "ended", ![c].shown = shown]
                     /\ \/ \E input \in Readable(process.today) :
                             shown = Shown(input, FallbackOf(input), TRUE)
                        \/ /\ turn[c].result = "turn" /\ ~turn[c].late
                           /\ \E input \in Readable(process.today), m \in ModelTurns :
                                shown = Shown(input, m, FALSE)
                        \/ shown = None
    BY DEF EndTurn
  <1>3. shown # None => /\ shown.fallback \/ (turn[c].result = "turn" /\ ~turn[c].late)
                        /\ PlanDecided(shown, process.today)
    BY <1>1, <1>2, ShownIsDecided
  <1>. DEFINE t == [[turn[c] EXCEPT !.phase = "ended"] EXCEPT !.shown = shown]
  <1>4. turn' = [turn EXCEPT ![c] = t]
    BY <1>2
  <1>5. t = [[turn[c] EXCEPT !.phase = "ended"] EXCEPT !.shown = shown]
    OBVIOUS
  <1>. HIDE DEF t
  <1>6. /\ IsTurn(t) /\ t.phase = "ended" /\ t.worker = "done" /\ t.saw = turn[c].saw
        /\ t.shown = shown /\ t.result = turn[c].result
        /\ (t.late <=> turn[c].late) /\ (t.forced <=> turn[c].forced)
    BY <1>1, <1>5 DEF IsTurn
  <1>. QED  BY <1>1, <1>3, <1>4, <1>6, TurnEnds DEF Working

(* The turn of the fake orchestrator is over at once.                      *)
LEMMA FakeTurnStep ==
  ASSUME TurnsFit, Alone, NEW c \in Chats, FakeTurnEnds(c)
  PROVE  TurnsFit' /\ Alone'
  <1>1. /\ IsTurn(turn[c]) /\ TurnFits(turn[c], process.today) /\ process.today \in Days
        /\ turn[c].phase = "idle"
        /\ UNCHANGED <<process, context, patched, overlapped>>
    BY DEF TurnsFit, FakeTurnEnds
  <1>2. turn[c].worker = "off" /\ ~turn[c].late
    BY <1>1 DEF TurnFits
  <1>3. PICK input \in Readable(process.today) :
          turn' = [turn EXCEPT ![c].phase = "ended", ![c].saw = c, ![c].result = "turn",
                               ![c].shown = Shown(input, FakeOf(input), FALSE)]
    BY DEF FakeTurnEnds
  <1>. DEFINE shown == Shown(input, FakeOf(input), FALSE)
  <1>4. shown # None => PlanDecided(shown, process.today)
    BY <1>1, ShownIsDecided
  <1>5. turn' = [turn EXCEPT ![c].phase = "ended", ![c].saw = c, ![c].result = "turn",
                             ![c].shown = shown]
    BY <1>3
  <1>. HIDE DEF shown
  <1>. DEFINE t == [[[[turn[c] EXCEPT !.phase = "ended"] EXCEPT !.saw = c] EXCEPT !.result = "turn"]
                     EXCEPT !.shown = shown]
  <1>6. turn' = [turn EXCEPT ![c] = t]
    BY <1>5
  <1>7. t = [[[[turn[c] EXCEPT !.phase = "ended"] EXCEPT !.saw = c] EXCEPT !.result = "turn"]
              EXCEPT !.shown = shown]
    OBVIOUS
  <1>. HIDE DEF t
  <1>8. /\ IsTurn(t) /\ t.phase = "ended" /\ t.worker = turn[c].worker /\ t.saw = c
        /\ t.shown = shown /\ t.result = "turn"
        /\ (t.late <=> turn[c].late) /\ (t.forced <=> turn[c].forced)
    BY <1>1, <1>7 DEF IsTurn
  <1>. QED  BY <1>1, <1>2, <1>4, <1>6, <1>8, TurnEnds DEF Working

-------------------------------------------------------------------------------
(* The process.                                                            *)

AdapterInv == CallInv /\ TurnsFit /\ Alone

(* Nothing of the turns moves.                                             *)
LEMMA TurnsRest ==
  ASSUME TurnsFit, Alone, UNCHANGED <<process, aws>>
  PROVE  TurnsFit' /\ Alone'
  BY DEF aws, TurnsFit, Alone, Solo, InFlight, IsTurn, TurnFits, PlanDecided, Decided

(* Every step keeps the invariant.                                         *)
LEMMA AdapterStep ==
  ASSUME AdapterInv, [Next]_vars
  PROVE  AdapterInv'
  <1>1. CallInv /\ TurnsFit /\ Alone
    BY DEF AdapterInv
  <1>2. CASE BeginCall \/ CallSteps \/ Respond \/ Unwind \/ Cancel \/ TimerTick \/ SlackTick
    <2>1. UNCHANGED <<process, aws>>
      BY <1>2 DEF BeginCall, CallSteps, Attempt, Launch, WaitReturns, Settle, Wake, Respond, Unwind,
                  Cancel, TimerTick, SlackTick
    <2>2. TurnsFit' /\ Alone'
      BY <1>1, <2>1, TurnsRest
    <2>3. CallInv'
      BY <1>1, <1>2, BeginCallStep, AttemptStep, LaunchStep, ProviderStep, WaitReturnsStep,
         SettleStep, WakeStep, TimeStep DEF CallSteps
    <2>. QED  BY <2>2, <2>3 DEF AdapterInv
  <1>3. ASSUME NEW c \in Chats, BeginTurn(c) \/ TurnSteps(c) \/ Expire(c) \/ FakeTurnEnds(c)
        PROVE  AdapterInv'
    <2>1. UNCHANGED <<process, google>>
      BY <1>3 DEF BeginTurn, TurnSteps, Invoke, Patch, Build, Reply, Unpatch, EndTurn, Expire,
                  FakeTurnEnds
    <2>2. CallInv'
      BY <1>1, <2>1, CallRests
    <2>3. TurnsFit' /\ Alone'
      BY <1>1, <1>3, BeginTurnStep, InvokeStep, PatchStep, BuildStep, ReplyStep, UnpatchStep,
         EndTurnStep, ExpireStep, FakeTurnStep DEF TurnSteps
    <2>. QED  BY <2>2, <2>3 DEF AdapterInv
  <1>4. CASE UNCHANGED vars
    BY <1>1, <1>4, CallRests, TurnsRest DEF vars, AdapterInv
  <1>. QED  BY <1>2, <1>3, <1>4 DEF Next

(* The inductive invariant of a process that calls a model: a call's attempts so far failed for a
   passing reason and its provider's task runs only while it waits for it; a turn has a thread
   from the pool until it ends.                                            *)
THEOREM AdapterInvariance == Spec => []AdapterInv
  <1>1. Init => AdapterInv
    BY CallStarts, TurnsStart DEF AdapterInv
  <1>2. AdapterInv /\ [Next]_vars => AdapterInv'
    BY AdapterStep
  <1>. QED  BY <1>1, <1>2, PTL DEF Spec

(* How run_with_resilience ends says what happened: an answer came in time, a fallback means the
   deadline passed, and a plan that is not the model's is labelled.        *)
THEOREM OutcomesAreExplained == Spec => []OutcomeExplained
  <1>1. AdapterInv => OutcomeExplained
    <2>. SUFFICES ASSUME AdapterInv
                  PROVE  OutcomeExplained
      OBVIOUS
    <2>1. Justified(call.outcome, call.seen, now - call.started, process.live, IsCancelled)
      BY DEF AdapterInv, CallInv
    <2>2. \A c \in Chats :
            turn[c].shown # None => turn[c].shown.fallback \/ (turn[c].result = "turn" /\ ~turn[c].late)
      BY DEF AdapterInv, TurnsFit, TurnFits
    <2>. QED  BY <2>1, <2>2 DEF OutcomeExplained, Justified
  <1>. QED  BY <1>1, AdapterInvariance, PTL

(* run_adk_bounded awaits what it cancelled and leaving the pool waits for its thread, so a call
   or a turn that has ended has left nothing running.                      *)
THEOREM NothingKeepsRunning == Spec => []NothingOutlives
  <1>1. AdapterInv => NothingOutlives
    BY DEF AdapterInv, CallInv, ProviderFits, TurnsFit, TurnFits, NothingOutlives
  <1>. QED  BY <1>1, AdapterInvariance, PTL

(* Whatever a model puts out, only a proposal that is clean comes through its mapping and
   validate_proposal to the buyer.                                         *)
THEOREM ProposalsAreClean == Spec => []ProposalsAreSound
  <1>1. AdapterInv => ProposalsAreSound
    BY DEF AdapterInv, CallInv, Checked, Sound, ProposalsAreSound
  <1>. QED  BY <1>1, AdapterInvariance, PTL

(* project_plan lets the buyer's words and answers decide, whatever turn the model proposed and
   whatever chat's context its prompt was made of; the days that were answered or named stay, in
   the year of the objective's text or, without one, in the next that has them. *)
THEOREM TheBuyerDecides == Spec => []BuyersWordsDecide
  <1>1. AdapterInv => BuyersWordsDecide
    <2>. SUFFICES ASSUME AdapterInv, NEW c \in Chats, turn[c].shown # None
                  PROVE  PlanDecided(turn[c].shown, process.today)
      BY DEF BuyersWordsDecide, PlanDecided, Decided
    <2>. QED  BY DEF AdapterInv, TurnsFit, TurnFits
  <1>. QED  BY <1>1, AdapterInvariance, PTL

(* The orchestrator's context and the patched class of the SDK are shared without a lock; while
   no two turns overlap, that harms nobody.                                *)
THEOREM SoloTurnsAreClean == Spec => []AloneIsClean
  <1>1. AdapterInv => AloneIsClean
    BY DEF AdapterInv, Alone, Solo, TurnsFit, TurnFits, InFlight, Working, AloneIsClean
  <1>. QED  BY <1>1, AdapterInvariance, PTL

===============================================================================
