---------------------------- MODULE ModelAdapters ----------------------------
(***************************************************************************)
(* The calls of a language model.                                          *)
(*                                                                         *)
(* The Google adapter extracts a requirement or explains a ranking         *)
(* (agent.py): a call has one deadline for all its attempts                *)
(* (resilience.py), each of which runs the provider's task on an event     *)
(* loop of its own beside a watcher of the caller's cancellation (live.py).*)
(* The AWS adapter plans a trip: the turns of all chats go through one     *)
(* LiveOrchestrator, which runs the model in a thread and patches a class  *)
(* of the SDK while it does (live.py).                                     *)
(*                                                                         *)
(* A process serves one of the two (create_google_app, create_aws_app).    *)
(***************************************************************************)
EXTENDS Extraction, Planning, Sequences

CONSTANTS
  Timeout,        \* timeout_ms, in units of time
  MaxAttempts,    \* max_attempts
  Backoff,        \* the longest delay between two attempts
  Slack,          \* bound: time a call loses outside its timers (imports, a busy machine)
  LiveOutputs,    \* the live model's outputs tried, a subset of Outputs
  FakeReadings,   \* the deterministic model's readings tried, a subset of Readings
  Chats,          \* the chats whose turns are planned
  Objectives,     \* [objective, answers] pairs tried
  Days,           \* the days on which plans are made
  ModelTurns      \* the plans tried as the model's

ASSUME BoundsAssumption ==
  /\ Timeout \in Nat \ {0} /\ MaxAttempts \in Nat \ {0} /\ Backoff \in Nat /\ Slack \in Nat
  /\ LiveOutputs \subseteq Outputs /\ FakeReadings \subseteq Readings
  /\ \A input \in Objectives : input.objective.words \subseteq Words /\ IsAnswers(input.answers)
  /\ \A day \in Days : IsDate(day) /\ day[1] \in 2000..2099

\* Python's None is none of the words that say how a call ended
ASSUME NoneAssumption == None \notin {"answer", "timeout", "cancelled", "unavailable"}

VARIABLES
    process,     \* what this process serves, whether its model is live, and the day
    now,         \* the monotonic clock
    slack,       \* what is left of Slack
    token,       \* the caller passed a CancelToken
    cancelled,   \* its flag
    call,        \* the Google call
    provider,    \* its provider task: state and result
    context,     \* LiveOrchestrator._context: the chat whose context it holds
    patched,     \* strands.agent.agent.StructuredOutputContext, original or forced
    turn,        \* the turn of each chat
    overlapped   \* history: two turns were in flight at once

google == <<now, slack, token, cancelled, call, provider>>
aws == <<context, patched, turn, overlapped>>
vars == <<process, google, aws>>

-------------------------------------------------------------------------------
(* The Google call.                                                        *)

NoCall == [phase |-> "idle", task |-> None, text |-> {}, started |-> 0, budget |-> 0, due |-> 0,
           seen |-> << >>, outcome |-> None, response |-> None, out |-> None]
NoProvider == [state |-> "idle", result |-> None]

\* remaining_ms
Remaining == Timeout - (now - call.started)
IsCancelled == token /\ cancelled
AtMost(a, b) == IF a <= b THEN a ELSE b

\* GoogleAdapterAgent.extract and explain when the deadline has passed
LateResponse == IF call.task = "extract" THEN ManualFallback ELSE Deterministic

\* what the caller gets: a response or, for an ApplicationError, none
EndCall(outcome, response, out) ==
  call' = [call EXCEPT !.phase = "ended", !.outcome = outcome, !.response = response, !.out = out]

\* GoogleAdapterAgent.extract, explain: what the privacy scan finds never reaches a model
BeginCall ==
  /\ process.serves = "google" /\ call.phase = "idle"
  /\ \E task \in {"extract", "explain"}, text \in Texts, category \in {"airport_parking", "other"} :
       LET begun == [call EXCEPT !.task = task, !.text = text, !.started = now] IN
       IF task = "extract" /\ category # "airport_parking"
       THEN call' = [begun EXCEPT !.phase = "ended", !.outcome = "category"]
       ELSE IF task = "extract" /\ PrivacyHits(text) # {}
       THEN call' = [begun EXCEPT !.phase = "ended", !.outcome = "private",
                                  !.response = Validate(Mapping(None, {}, {}, {}), text)]
       ELSE call' = [begun EXCEPT !.phase = "attempt"]
  /\ UNCHANGED <<process, now, slack, token, cancelled, provider, aws>>

\* the mapping of the fake model for one reading of the text
FakeAnswer(r) == [mapping |-> FakeMapping(r), evidence |-> r.found, missing |-> {}, ambiguous |-> {}]

\* run_with_resilience, one iteration up to the call of the model; the fake model answers at once
Attempt ==
  /\ call.phase = "attempt"
  /\ CASE IsCancelled -> EndCall("cancelled", None, None)
       [] ~IsCancelled /\ Remaining <= 0 -> EndCall("timeout", LateResponse, None)
       [] ~IsCancelled /\ Remaining > 0 /\ process.live ->
            call' = [call EXCEPT !.phase = "setup", !.budget = Remaining]
       [] OTHER ->
            IF call.task = "explain" THEN EndCall("answer", Ground(Deterministic), Deterministic)
            ELSE \E r \in FakeReadings :
                   EndCall("answer", Validate(FakeMapping(r), call.text), FakeAnswer(r))
  /\ UNCHANGED <<process, now, slack, token, cancelled, provider, aws>>

\* LiveModel.complete, default_invoke, run_adk_bounded up to asyncio.wait: without the SDK or its
\* configuration there is no task; the deadline of the task starts here, from the budget of before
Launch ==
  /\ call.phase = "setup"
  /\ \/ IsCancelled /\ EndCall("cancelled", None, None) /\ UNCHANGED provider
     \/ ~IsCancelled /\ EndCall("error", None, None) /\ UNCHANGED provider
     \/ /\ ~IsCancelled
        /\ provider' = [NoProvider EXCEPT !.state = "running"]
        /\ call' = [call EXCEPT !.phase = "waiting", !.due = now + call.budget]
  /\ UNCHANGED <<process, now, slack, token, cancelled, aws>>

\* run_adk: the provider's task ends, with an output the schema accepts or with an exception
\* ("permanent" when the schema refuses it) that map_provider_error sorts by its name: one whose
\* name says "cancel" counts as the caller's cancellation. Which output is chosen in Conclude.
Respond ==
  /\ provider.state = "running"
  /\ \E result \in {"answer", "transient", "quota", "permanent", "timeout", "cancel"} :
       provider' = [state |-> "done", result |-> result]
  /\ UNCHANGED <<process, now, slack, token, cancelled, call, aws>>

\* the provider's task, cancelled, unwinds
Unwind ==
  /\ provider.state = "stopping"
  /\ provider' = [state |-> "done", result |-> "stopped"]
  /\ UNCHANGED <<process, now, slack, token, cancelled, call, aws>>

\* mutant of WaitReturns: the wait has no deadline
WaitReturnsLate ==
  /\ call.phase = "waiting"
  /\ provider.state = "done" \/ IsCancelled
  /\ call' = [call EXCEPT !.phase = "stopping"]
  /\ provider' = IF provider.state = "running" THEN [provider EXCEPT !.state = "stopping"] ELSE provider
  /\ UNCHANGED <<process, now, slack, token, cancelled, aws>>

\* run_adk_bounded: asyncio.wait returns for the task, the watcher or the deadline, and what is
\* still running is cancelled
WaitReturns ==
  /\ call.phase = "waiting"
  /\ provider.state = "done" \/ IsCancelled \/ now >= call.due
  /\ call' = [call EXCEPT !.phase = "stopping"]
  /\ provider' = IF provider.state = "running" THEN [provider EXCEPT !.state = "stopping"] ELSE provider
  /\ UNCHANGED <<process, now, slack, token, cancelled, aws>>

\* the result of run_adk_bounded once everything it started has ended
Settled ==
  IF IsCancelled THEN "cancel"
  ELSE IF provider.result = "stopped" THEN "timeout" ELSE provider.result

\* mutant of Answered: the model's doubts about a field do not withhold the proposal
AnsweredDoubtful(out) ==
  IF call.task = "extract"
  THEN Validate(ExtractMapping([out EXCEPT !.missing = {}, !.ambiguous = {}]), call.text)
  ELSE Ground(out)

\* GoogleAdapterAgent.extract and explain, from the model's answer on
Answered(out) ==
  IF call.task = "extract" THEN Validate(ExtractMapping(out), call.text) ELSE Ground(out)

\* what the model may have answered
TaskOutputs ==
  IF call.task = "extract" THEN {out \in LiveOutputs : SchemaAccepts(out)} ELSE Explanations

\* mutant of Conclude: every error of the provider is worth another attempt
ConcludeRetriesAll(result) ==
  LET done == [call EXCEPT !.seen = Append(@, result), !.phase = "ended"] IN
  IF result = "answer"
  THEN \E out \in TaskOutputs :
         call' = [done EXCEPT !.outcome = "answer", !.response = Answered(out), !.out = out]
  ELSE IF Len(done.seen) >= MaxAttempts THEN call' = [done EXCEPT !.outcome = "unavailable"]
  ELSE call' = [done EXCEPT !.phase = "backoff", !.due = now]

\* what run_with_resilience does with one attempt's result
Conclude(result) ==
  LET done == [call EXCEPT !.seen = Append(@, result), !.phase = "ended"] IN
  CASE result = "cancel" -> call' = [done EXCEPT !.outcome = "cancelled"]
    [] result = "timeout" -> call' = [done EXCEPT !.outcome = "timeout", !.response = LateResponse]
    [] result \in {"quota", "permanent"} -> call' = [done EXCEPT !.outcome = "error"]
    [] result = "transient" ->
         IF Len(done.seen) >= MaxAttempts THEN call' = [done EXCEPT !.outcome = "unavailable"]
         ELSE IF Remaining <= 0
         THEN call' = [done EXCEPT !.outcome = "timeout", !.response = LateResponse]
         ELSE \E delay \in 0..Backoff :
                call' = [done EXCEPT !.phase = "backoff", !.due = now + AtMost(delay, Remaining)]
    [] result = "answer" ->
         IF Remaining <= 0
         THEN call' = [done EXCEPT !.outcome = "timeout", !.response = LateResponse]
         ELSE \E out \in TaskOutputs :
                call' = [done EXCEPT !.outcome = "answer", !.response = Answered(out), !.out = out]

\* mutant of Settle: the cancelled task is not awaited
SettleAtOnce ==
  /\ call.phase = "stopping"
  /\ Conclude(IF IsCancelled THEN "cancel"
              ELSE IF provider.state = "stopping" THEN "timeout" ELSE Settled)
  /\ provider' = IF provider.state = "done" THEN NoProvider ELSE provider
  /\ UNCHANGED <<process, now, slack, token, cancelled, aws>>

\* run_adk_bounded: the cancelled tasks are awaited before it returns
Settle ==
  /\ call.phase = "stopping" /\ provider.state = "done"
  /\ Conclude(Settled)
  /\ provider' = NoProvider
  /\ UNCHANGED <<process, now, slack, token, cancelled, aws>>

\* SystemMonotonicClock.sleep_ms: looks at the cancellation in every slice
Wake ==
  /\ call.phase = "backoff"
  /\ IF IsCancelled THEN EndCall("cancelled", None, None)
     ELSE now >= call.due /\ call' = [call EXCEPT !.phase = "attempt"]
  /\ UNCHANGED <<process, now, slack, token, cancelled, provider, aws>>

\* CancelToken.cancel, by the caller's side
Cancel ==
  /\ token /\ ~cancelled /\ call.phase \notin {"idle", "ended"}
  /\ cancelled' = TRUE
  /\ UNCHANGED <<process, now, slack, token, call, provider, aws>>

\* time passes while a timer runs
TimerTick ==
  /\ call.phase \in {"waiting", "backoff"} /\ now < call.due
  /\ now' = now + 1
  /\ UNCHANGED <<process, slack, token, cancelled, call, provider, aws>>

\* and is lost elsewhere, Slack units of it in all
SlackTick ==
  /\ call.phase \notin {"idle", "ended"} /\ slack > 0
  /\ now' = now + 1 /\ slack' = slack - 1
  /\ UNCHANGED <<process, token, cancelled, call, provider, aws>>

-------------------------------------------------------------------------------
(* The AWS plan turns.                                                     *)

\* the days each buyer gives, and every plan there can be, in tables that are made once;
\* extract_facts raises for a day its month does not have, where no year is typed
BuyersDays ==
  [input \in Objectives |-> [day \in Days |-> BuyersDates(input.objective, input.answers, day)]]
Readable(day) == {input \in Objectives : BuyersDays[input][day] # Raises}
FallbackOf(input) == FallbackTurn(input.objective, input.answers)
FakeOf(input) == FakeTurn(input.objective, input.answers)
Plans ==
  [day \in Days |-> [input \in Readable(day) |->
     [t \in ModelTurns \cup {FallbackOf(input), FakeOf(input)} |->
        Project(input.objective, input.answers, t, day)]]]

NoTurn == [phase |-> "idle", saw |-> None, worker |-> "off", original |-> None,
           forced |-> FALSE, late |-> FALSE, result |-> None, shown |-> None]

InFlight(c) == turn[c].phase \notin {"idle", "ended"}

\* LiveOrchestrator.plan_turn up to the two plan tools: the context is kept in the orchestrator,
\* and project_plan_from_facts reads the days of the objective and the answers. (What else they
\* say is first looked at in EndTurn.)
BeginTurn(c) ==
  /\ process.serves = "aws" /\ process.live /\ turn[c].phase = "idle"
  /\ \/ Readable(process.today) # {} /\ turn' = [turn EXCEPT ![c].phase = "begun"]
     \/ Readable(process.today) # Objectives /\ turn' = [turn EXCEPT ![c].phase = "ended"]
  /\ context' = c
  /\ overlapped' = (overlapped \/ \E d \in Chats \ {c} : InFlight(d))
  /\ UNCHANGED <<process, google, patched>>

\* plan_turn and _invoke_strands_plan up to the pool: the prompt is made of the context that is there
Invoke(c) ==
  /\ turn[c].phase = "begun"
  /\ turn' = [turn EXCEPT ![c].phase = "invoked", ![c].saw = context, ![c].worker = "queued"]
  /\ UNCHANGED <<process, google, context, patched, overlapped>>

\* _force_first_cycle_structured_output, entered in the worker thread
Patch(c) ==
  /\ turn[c].worker = "queued"
  /\ turn' = [turn EXCEPT ![c].worker = "patched", ![c].original = patched]
  /\ patched' = "forced"
  /\ UNCHANGED <<process, google, context, overlapped>>

\* Agent(...): the constructor looks the class up
Build(c) ==
  /\ turn[c].worker = "patched"
  /\ turn' = [turn EXCEPT ![c].worker = "asking", ![c].forced = (patched = "forced")]
  /\ UNCHANGED <<process, google, context, patched, overlapped>>

\* agent(prompt): a turn, no valid one, or an exception of the service or the SDK
Reply(c) ==
  /\ turn[c].worker = "asking"
  /\ \E result \in {"turn", "schema", "error"} :
       turn' = [turn EXCEPT ![c].worker = "leaving", ![c].result = result]
  /\ UNCHANGED <<process, google, context, patched, overlapped>>

\* mutant of Unpatch: the class is not restored
UnpatchForgets(c) ==
  /\ turn[c].worker = "leaving"
  /\ turn' = [turn EXCEPT ![c].worker = "done"]
  /\ UNCHANGED <<process, google, context, patched, overlapped>>

\* the finally of _force_first_cycle_structured_output
Unpatch(c) ==
  /\ turn[c].worker = "leaving"
  /\ turn' = [turn EXCEPT ![c].worker = "done"]
  /\ patched' = turn[c].original
  /\ UNCHANGED <<process, google, context, overlapped>>

\* future.result runs into its timeout; the thread cannot be cancelled and goes on
Expire(c) ==
  /\ turn[c].phase = "invoked" /\ turn[c].worker # "done" /\ ~turn[c].late
  /\ turn' = [turn EXCEPT ![c].late = TRUE]
  /\ UNCHANGED <<process, google, context, patched, overlapped>>

\* what the buyer is shown: the turn, whether it is labelled a fallback, and the projection;
\* nothing when the projection raises
Shown(input, t, fallback) ==
  LET projection == Plans[process.today][input][t] IN
  IF projection.facts.range = Raises THEN None
  ELSE [input |-> input, fallback |-> fallback \/ t.fallback, projection |-> projection]

\* the rest of _invoke_strands_plan and plan_turn, once leaving the pool has waited for its thread
EndTurn(c) ==
  LET End(shown) == turn' = [turn EXCEPT ![c].phase = "ended", ![c].shown = shown] IN
  /\ turn[c].phase = "invoked" /\ turn[c].worker = "done"
  /\ IF turn[c].late \/ turn[c].result = "schema"
     THEN \E input \in Readable(process.today) : End(Shown(input, FallbackOf(input), TRUE))
     ELSE IF turn[c].result = "turn"
     THEN \E input \in Readable(process.today), t \in ModelTurns : End(Shown(input, t, FALSE))
     ELSE End(None)
  /\ UNCHANGED <<process, google, context, patched, overlapped>>

\* FakeOrchestrator.plan_turn
FakeTurnEnds(c) ==
  /\ process.serves = "aws" /\ ~process.live /\ turn[c].phase = "idle"
  /\ \E input \in Readable(process.today) :
       turn' = [turn EXCEPT ![c].phase = "ended", ![c].saw = c, ![c].result = "turn",
                            ![c].shown = Shown(input, FakeOf(input), FALSE)]
  /\ UNCHANGED <<process, google, context, patched, overlapped>>

-------------------------------------------------------------------------------
Init ==
  /\ process \in [serves : {"google", "aws"}, live : BOOLEAN, today : Days]
  /\ token \in BOOLEAN /\ (process.serves = "aws" => ~token)
  /\ now = 0 /\ slack = Slack /\ cancelled = FALSE
  /\ call = NoCall /\ provider = NoProvider
  /\ context = None /\ patched = "original" /\ overlapped = FALSE
  /\ turn = [c \in Chats |-> NoTurn]

CallSteps == Attempt \/ Launch \/ WaitReturns \/ Settle \/ Wake
TurnSteps(c) == Invoke(c) \/ Patch(c) \/ Build(c) \/ Reply(c) \/ Unpatch(c) \/ EndTurn(c)

Next ==
  \/ BeginCall \/ CallSteps \/ Respond \/ Unwind \/ Cancel \/ TimerTick \/ SlackTick
  \/ \E c \in Chats : BeginTurn(c) \/ TurnSteps(c) \/ Expire(c) \/ FakeTurnEnds(c)

\* The event loop and the threads run, time passes, and a cancelled task unwinds. The provider
\* need never answer the Google adapter; the thread of a plan turn ends because botocore bounds
\* every read (live.py:243-247).
Fairness ==
  /\ WF_vars(CallSteps) /\ WF_vars(Unwind) /\ WF_vars(TimerTick)
  /\ \A c \in Chats : WF_vars(TurnSteps(c))

Spec == Init /\ [][Next]_vars /\ Fairness

-------------------------------------------------------------------------------
(* Properties.                                                             *)

\* Why a call ended the way it did: an answer comes from the provider's last attempt and before
\* the one deadline; the fallback means that the deadline passed or the provider gave up itself;
\* "cancelled" that the caller cancelled or the provider said so; "unavailable" that every
\* attempt failed for a passing reason; and only a passing reason is followed by another attempt.
\* A plan that is not the model's is labelled.
OutcomeExplained ==
  /\ \A i \in 1..(Len(call.seen) - 1) : call.seen[i] = "transient"
  /\ Len(call.seen) <= MaxAttempts
  /\ LET last == IF call.seen = << >> THEN None ELSE call.seen[Len(call.seen)]
         spent == now - call.started
     IN  /\ call.outcome = "answer" => spent < Timeout /\ (process.live => last = "answer")
         /\ call.outcome = "timeout" => spent >= Timeout \/ last = "timeout"
         /\ call.outcome = "cancelled" => IsCancelled \/ last = "cancel"
         /\ call.outcome = "unavailable" => Len(call.seen) = MaxAttempts /\ last = "transient"
  /\ \A c \in Chats :
       turn[c].shown # None => turn[c].shown.fallback \/ (turn[c].result = "turn" /\ ~turn[c].late)

\* Between attempts and after its end a call has no task of the provider running, and a plan
\* turn that has ended no thread, whatever ended them: nothing keeps spending for nobody, and
\* nothing answers into the next call.
NothingOutlives ==
  /\ call.phase \notin {"waiting", "stopping"} => provider.state = "idle"
  /\ \A c \in Chats : turn[c].phase = "ended" => turn[c].worker \in {"off", "done"}

\* Whatever the model puts out, a requirement proposed to the buyer is complete, within the closed
\* vocabularies and in order, comes from a text without private data, and is free of the model's
\* own doubts. The gate would let a null pass for most fields and asks nothing about doubts once
\* there is a candidate: that none gets there is up to the mapping of each of the two models.
ProposalsAreSound ==
  call.task = "extract" /\ call.response # None =>
    (call.response.proposal # None => Clean(call.response, call.text, call.out))

\* the kinds of task the buyer asks for, in words or in answers
Asked(o, a) ==
  (o.words \cap Kinds)
  \cup (IF "car" \in o.words \/ a.helpWith = "rental" THEN {"rental"} ELSE {})
  \cup (IF "route" \in o.words THEN {"flight"} ELSE {})
  \cup (IF AirportLed(o) \/ a.helpWith = "parking" THEN {"parking"} ELSE {})
  \cup (CASE a.helpWith = "stay" -> {"hotel"} [] a.helpWith = "experience" -> {"experience"}
          [] OTHER -> {})

\* the two days the buyer names: answered as days, or else, with no dates answered, two dates in
\* full, two days of one month or a single day of the objective (the other ways are left open)
Said(o, a) ==
  LET e == o.dates IN
  CASE Given(a) -> IF NoDate \in {a.start, a.end} THEN NoRange ELSE <<a.start, a.end>>
    [] ~Given(a) /\ e.form = "iso" -> <<e.start, e.end>>
    [] ~Given(a) /\ e.form = "span" /\ e.start[1] = Omitted ->
         <<<<e.end[1], e.end[2], e.start[3]>>, e.end>>
    [] ~Given(a) /\ e.form = "single" /\ e.end = NoDate -> <<e.start, e.start>>
    [] OTHER -> NoRange

\* the day that is meant: as said where the objective has a year, or else the next such day
Meant(day, o, today) ==
  LET next == IF Before(<<today[1], day[2], day[3]>>, today) THEN today[1] + 1 ELSE today[1]
  IN  IF YearTyped(o.dates) THEN day ELSE <<next, day[2], day[3]>>

\* a day of the calendar that every year has (the year 1 is no leap year)
Yearly(day) == day \in Nat \X (1..12) \X (1..31) /\ day[3] <= DaysIn(1, day[2])

\* the range is the days the buyer named, those of 29 February and those named out of order left
\* aside; a single day lasts the nights that were counted, and only its start is named
KeepsDays(range, o, a, today) ==
  LET said == Said(o, a)
      meant == <<Meant(said[1], o, today), Meant(said[2], o, today)>>
      full == Given(a) \/ o.dates.form = "iso"
      named == /\ said # NoRange /\ Yearly(said[1]) /\ Yearly(said[2])
               /\ IF full THEN ~Before(said[2], said[1]) ELSE ~Before(meant[2], meant[1])
  IN  named => /\ range # NoRange /\ range[1] = meant[1]
               /\ said[1] # said[2] \/ o.nights = 0 => range[2] = meant[2]

\* The model proposes and the buyer decides: a task is confirmed in a plan only when the buyer's
\* own words or answers ask for it and no flight when flights are booked; the city, the days and
\* the airports are the buyer's wherever the buyer gave them, and the model never names an airport.
\* Of the days the buyer answers or names, the day and the month stay; the year is the one in the
\* objective's text, and without one each end is moved by itself to its next occurrence, also
\* where a year was answered (a trip under way is turned around, next year's becomes this year's).
\* All this holds although the prompt may have been made of another chat.
BuyersWordsDecide ==
  \A c \in Chats :
    turn[c].shown # None =>
      LET o == turn[c].shown.input.objective
          a == turn[c].shown.input.answers
          p == turn[c].shown.projection
      IN  /\ \A k \in p.tasks : k.accepted => k.kind \in Asked(o, a)
          /\ "booked" \in o.words => \A k \in p.tasks : k.kind # "flight"
          /\ o.city # "" => p.facts.destination = o.city
          /\ KeepsDays(p.facts.range, o, a, process.today)
          /\ p.facts.parkingAirport \in {o.parkingAt, o.airport, ""}
          /\ p.facts.departure \in {o.from, a.airport}

\* Turns share the orchestrator's context and the class of the SDK without a lock. As long as no
\* two turns were ever in flight together, each is planned from its own chat, each agent is made
\* to answer in the schema at once, and the class is as it was when no turn runs.
AloneIsClean ==
  ~overlapped =>
    /\ \A c \in Chats : turn[c].saw \in {None, c}
    /\ \A c \in Chats : turn[c].worker \in {"asking", "leaving", "done"} => turn[c].forced
    /\ (\A c \in Chats : ~InFlight(c)) => patched = "original"

\* Every call and every turn ends, though the provider may never answer a Google call.
EveryCallEnds ==
  /\ (call.phase # "idle") ~> (call.phase = "ended")
  /\ \A c \in Chats : (turn[c].phase # "idle") ~> (turn[c].phase = "ended")

===============================================================================
