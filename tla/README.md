# Verification of ReservEdge

TLA+ models of what decides the fate of a buyer's request in ReservEdge: the
golden-path facade and the buyer portfolio with what they show the buyer, the unit
of work that makes their handlers atomic, the collection and ranking of offers, the
progress bus, the domain library with its events, the idempotency service, the
consent and disclosure policy, the booking chat, and the calls of the language
models. TLC checks the models on small instances; TLAPS proves every safety property
that a run checks, for every value of the constants. Paths are relative to
`src/packages/application/src/itaa_application/` unless they name a package.

Contents: [1 Inventory](#1-inventory), [2 Modules](#2-modules),
[3 Runs](#3-runs-bounds-and-fairness), [4 Proofs](#4-what-is-proved),
[5 Findings](#5-where-code-and-documentation-disagree),
[6 Limits](#6-what-is-not-modelled), [7 Plan](#7-plan).

## 1. Inventory

ReservEdge is a Python API (FastAPI) with a React client. A buyer plans a trip in a
chat; a parking request found there, a *purchase intent*, is confirmed, sent to
suppliers, answered with offers, accepted and finally authorized in simulation. Each
of the four steps needs an explicit approval, A1 to A4. All stores are in memory, in
one process.

| Component | State it keeps | Operations | Module |
| --- | --- | --- | --- |
| Golden-path facade `golden_path.py` | none of its own; one `GoldenPathSession` per intent | create, confirm (A1), approve_and_dispatch (A2), accept (A3), authorize (A4), snapshot | GoldenPath |
| Buyer portfolio `portfolio.py` | saved flags, replacement links, replace log | cancel, replace, delete_undisclosed_draft, set_saved, list | GoldenPath |
| Views `orchestration.py`, `session.py` | none | plan, booking task, ledger rows, snapshot of the offers | Views |
| Unit of work and stores `local_memory.py` | five repositories with a committed and a staged copy each, intent locks, one publish lock, capacity snapshot | transaction, begin, commit, rollback | UnitOfWork, AtomicStore |
| Idempotency `idempotency_service.py`, `itaa_policy/idempotency.py` | a record per scope with a state and an expiry | reserve, complete, fail | Idempotency |
| Approvals `approval_service.py`, `itaa_policy/approvals.py` | grants and revocations by id | issue, validate, revoke | Approvals |
| Disclosure, envelopes `itaa_policy` | none; an envelope per supplier is bound to the grant | minimize, bind, verify a dispatch | Envelopes |
| Collector `solicitation_service.py`, `dispatch_service.py` | a box per supplier of one dispatch | authorize each supplier, collect until the deadline | Solicitation |
| Offer boundary, ranking `offer_boundary.py`, `itaa_ranking` | none | map, check, score and order offers | Solicitation, Supply, Ranking |
| Supplier simulator `engine.py`, `canonical.py`, `policy.py` | remaining capacity | decline or price an offer; restore capacity | Supply, Solicitation, UnitOfWork |
| Progress bus `local_progress.py`, stream `itaa_api/progress_sse.py` | LRU order of intents, generations, bounded event buffers | emit, watch, reconnect, subscribe, abandon_empty | ProgressBus |
| Domain aggregates `itaa_domain` | state and version of intent, offer, acceptance, transaction | guarded transitions, events | Aggregates, Events |
| Audit `itaa_observability/audit.py` | records | the vocabulary of actions and outcomes | Events |
| Booking chat `itaa_api/agent_session.py`, `agent_requirements.py`, `intake.py` | requirements, searches, dates, gates, a reference to a parking request | turns, searches, grants, refinements | AgentSession |
| Calendar `calendar_resolve.py` and its readers | none | days that an expression names on a given day | TripDates |
| Planner `adapters/aws-strands-bedrock-agentcore` | the context of a turn; a patched SDK class | plan a turn, project it | Planning, ModelAdapters |
| Extractor and explainer `adapters/google` | none between calls | a call with deadline, retries, cancellation and fallback; gates on what comes back | Extraction, ModelAdapters |
| HTTP routes, web client, contracts, tools | singletons, screens | thin handlers | not modelled on their own |

How they interact: routes call the facade and the portfolio, each of whose handlers
runs in one unit of work and writes the stores, grants and audit records through it.
A dispatch, inside its transaction, calls the collector, which calls the suppliers
and emits on the progress bus; HTTP streams poll the bus with no transaction. The chat
calls the planner, the search providers and the facade between its own steps, with no
lock. `PROJECT.json` lists each component with its sources and what is modelled of it.

**What is hard here** (`PROJECT.json` lists the hazards line by line).

* *Concurrency.* Worker threads run handlers in parallel. A repository has one staging
  slot with an owner, and a thread that does not own it reads and writes committed
  content, so isolation rests on the locks alone; readers take none. A chat is
  changed by several requests without any lock, while searches are in flight. One
  planner serves all chats.
* *Long call sequences.* Nine commands, on several requests, with caller-chosen
  approval ids and idempotency keys, around five kinds of expiry.
* *Clocks.* The clock is the wall clock: it may step back between two readings of one
  dispatch, and it decides which year a date without a year is in.
* *Partial failure.* A dispatch that fails after suppliers lost capacity, or after it
  emitted progress; a replacement whose draft is refused; a search that fails while
  older offers are on display; a model that fails, hangs or lies.
* *Bounded buffers, retries.* Generations, events and slots of the bus; a dispatch
  after a failed one, a replayed authorization, a second attempt before one deadline.
* *Tables that must agree.* States, transitions, events, audit actions, task views
  live in different packages, and nothing in the code compares them.

**What makes each component correct.** The facade: the parts of a session agree,
nothing advances without its own unspent approval or after an expiry, a finished
request stays finished, a replay returns what was recorded. The portfolio: closing
revokes exactly what was granted, replacements stay linked both ways. The views: what
is shown of a moving session is a legal run of the machines they speak of. The unit of
work: a transaction takes effect at once or not at all, nobody waits for ever. The
collector: each supplier has one explained terminal, and capacity adds up. Ranking:
the winner is not dominated. The bus: attempts never mix, and a reader is never led
over a gap. The domain: what a transition admits, constructor, event and audit admit.
The chat: results shown as current are of the present requirements, and nothing is
searched or granted that was not asked about. The models: a call ends in time and
leaves nothing running, and their output decides nothing that the buyer must decide.

## 2. Modules

    AtomicStore        what a transaction promises
      ^ implemented by
    UnitOfWork         locks, staging, publication, rollback, capacity
      : justifies one action per handler in
    GoldenPath         sessions, approvals, idempotency, replacements, clock
      ^ extended by
    Views              what a buyer is shown of the sessions

    Idempotency        the records of GoldenPath, for callers outside a transaction

    Ranking, Supply, Approvals <- Envelopes        pure
      ^ extended by
    Solicitation       one dispatch inside its transaction: an action of GoldenPath

    ProgressBus        bus, dispatch emissions, streams; its dispatches run one at
                       a time because UnitOfWork has one publish lock

    Aggregates <- Events                   the domain library and its events

    AgentSession       the chat, with parking requests as GoldenPath's
    TripDates <- Planning, Extraction      pure
      ^ extended by
    ModelAdapters      the calls that run them

    X_proofs           theorems about X;  MCX   the instance TLC checks
    GoldenPath_proofs  also about Views;  Aggregates_proofs also about Events
    Boundary_proofs    about Approvals, Envelopes, Supply, Ranking and Solicitation

An action is one handler, or one stretch of code between two points where another
thread, process or client may act. Refused calls write nothing: they are stuttering
steps. A guard is the conjunction of the handler's checks, in the code's order. An
operator with the comment "mutant of X" is X with a plausible bug; each property of
each run is violated by one of them.

### GoldenPath and Views

One action per handler of `golden_path.py` and `portfolio.py`. A handler is one action
because it runs inside a unit of work, which UnitOfWork shows to be atomic.

| Variable | Code |
| --- | --- |
| `sessions` | `InMemorySessionRepository`: intent -> `GoldenPathSession` |
| `grants`, `revoked` | `InMemoryApprovalRepository` |
| `idempotency` | `InMemoryIdempotencyRepository`: scope -> record |
| `replaceLog` | `InMemoryReplaceLog`: portfolio and key -> replacement |
| `now` | the composed clock; `Tick` advances it between any two calls |
| `collection`, `ranked`, `lapsed` (Views) | the parts of a session only views read: the supplier collection, the ranked offers, and which offers had run out when the session last moved (`updated_at`) |

`Create`, `Confirm`, `Dispatch`, `Accept`, `Authorize`, `Cancel`, `Replace`, `Delete`
and `SetSaved` are the handlers. A payload is `full` or `bare` (with or without the
sections that minimization requires). A dispatch brings any set of offers with any
validity and any winner; Solicitation says which can come about. Views projects each
session to a booking task, a parent state, ledger rows and a snapshot of its offers, as
`orchestration.py`, `booking_task_states.py` and `golden_path.py:880` compute them, and
`ProjectionFaithful` compares the tables of states. The ledger knows the offers of the snapshot
only, that is the ranked ones (`Selected`); the snapshot names the offer accepted whether it
was ranked or not (`AcceptedOffer`).

### UnitOfWork and AtomicStore

A thread passes through `LocalMemoryTransaction` step by step: intent locks in sorted
order (`LockIntent`), the publish lock, `_begin_locked` (`Begin`), the handler's body
(`Check`, `CallSupplier`, `Write`, then `Return` or `Raise` from any point of it), then
`_commit_locked` one store at a time (`PublishStore`) or `_rollback_locked`, then the
`finally` clause. The content of a store is the set of transactions whose writes it
holds. `Check` stands for a handler's state check: no earlier transaction has moved its
intents. `Write` writes the staged copy only where the thread owns the slot, as
`_store()` does; if the locking were wrong it would write committed content.
`AtomicStore` is the promise: `Commit` adds a transaction to a log, if it conflicts with
none before it, together with the capacity it spends, or `Refuse` leaves everything
alone. `AtomicSpec` is the refinement; the log is what the sessions store has published.

### Idempotency

`Arrive`, `Reserve`, `Retry`, `Replay`, `TurnAway`, `EffectReturns`, `EffectRaises`,
`Complete`, `Fail` are the steps of concurrent callers of one scope, each with its own
reading of the clock and its own expiry. The effect runs outside the store.

### Approvals, Envelopes, Ranking, Supply, Solicitation

Approvals is `validate_approval` field by field, and what the constructors of grants and
requests let through. Envelopes is minimization to the parking profile, the content
hash (collision-free by construction), the envelope and scope of each recipient, the
manifest, verification, and the authorization of a dispatch. Ranking has the
eligibility filters, the scores with their integer roundings, the order with its
tie-breaks, and the drawback that is told; a score of 1000 stands for the code's
1,000,000. Supply has what may stand in a supplier's policy, its checks in their order, its
prices with their roundings and overflows, its validity, and on the other side the table the
buyer draws up and `_eligibility`, which believes an offer or drops it; times are seconds.
Solicitation takes an offer as attested or not, and runs one dispatch over three suppliers: `Ask`, `Answer...`,
`Timeout`, `Deny`, `Refuse` (an envelope that cannot be opened yet raises), then `Rank`
or `Fail`, then `Commit`, with `Clock` setting the time of day anywhere between them.

### ProgressBus

The bus works under one condition variable, so each of its calls is one atomic step:
`Emit`, `Watch`, `Reconnect`, `Start`, `Poll`, `HasStarted`, `AbandonEmpty`. A dispatch
emits step by step and may fail at any point (`Fail`); then it asks `has_started` and in
a later step either closes the generation with `STREAM_COMPLETED/unavailable` or
abandons it. A stream polls a batch and delivers it event by event with no lock held
(`Deliver`), while the buffer may drop events, the attempt may complete and the
generation may be evicted. A client may go away, reconnect with its Last-Event-ID, or
watch anew. Generation ids are numbers in the order they were minted; a sequence number
is `dropped` plus the index. Keepalives and the fields of an event are left out.

### Aggregates and Events

The four aggregates with every transition and guard of `itaa_domain`, each call with its
own time of occurrence. `__post_init__` is a property (`WellFormed`), not a guard.
Events adds the event of each step, the tables it is checked against, and its way into
the audit vocabulary; the state an event names comes from the event table.

### AgentSession

A session is one record: requirements, search results with the fingerprint they were
found for, pending prompt, date lock, cascade, gates, the parking request and whether its
offers are stale. Request threads run a turn up to the planner, from the planner to the
first search, from search to search, around a dispatch; between these points other
threads and the direct routes (`DirectPatch`, `Confirm`, `GrantA3`, `GrantA4`) act. A
requirement is a member of `Needs`: a fingerprint is equal exactly when it is. A message
is what the recognisers make of it (yes, refine, window, lock...).
The planner's answer is synced in the code's order: its patch, a parking window in the last
message (`SeedParking`), the last date message and the locked dates (`ReapplyLastDates`), clock
times over placeholders (`EnsureParkingClocks`), and then the years of the dates held
(`CanonicalizeDates`). All but the first write in place and mark nothing stale; the last two need no lock either.
What the last two come to depends on texts and on today, so it is any requirement or none.

### TripDates, Planning, Extraction, ModelAdapters

TripDates is the calendar arithmetic over the expressions that the patterns extract: real
days, leap years, next occurrences, ranges, nights, clock times. Planning is the projector:
facts, base tasks, the model's turn merged into them, questions; an objective is known
by the words that the patterns find in it. Days come from the objective, from the two days and
the text of the structured answers (`AnsweredDays`), or else from the model, and have their
years rewritten twice (`BuyersDates`, `CanonicalizeYears`). Extraction is the pipeline of a proposal
(schema, privacy scan, doubts, validation) and of an explanation (grounding). In
ModelAdapters a process serves one of the two. A Google call (`Attempt`, `Launch`,
`Respond`, `WaitReturns`, `Settle`, `Conclude`, `Wake`, `Cancel`, `TimerTick`) has one
deadline for all attempts and loses time outside its timers (`SlackTick`). An AWS turn
(`Invoke`, `Patch`, `Build`, `Reply`, `Unpatch`, `Expire`, `EndTurn`) writes the shared
context, then patches a class of the SDK around the model's call in a worker thread.

## 3. Runs, bounds and fairness

| Run | Question | Instance | Distinct states |
| --- | --- | --- | --- |
| `facade` (MCViews) | Do requests that compete for approvals and an idempotency scope and replace each other keep what the facade, the portfolio and the views promise? | 2 requests, 2 offers, 8 approvals, 1 key, 1 portfolio, clock 0..2 | 151,831 |
| `details` | Can a replacement draft be dispatched? | 2 requests, clock 0..1 | violated |
| `uow` | Is a transaction atomic, and does every request leave it? | 2 threads, any sets of 3 intents, 1 unit | 240,868 |
| `uow_torn` | Can a reader without a lock see half a commit? | 2 threads, 2 intents | violated |
| `idem` | Do concurrent callers of one scope get one answer? | 3 callers, 2 requests, 2 answers, clock 0..2 | 218,895 |
| `solicit` | Does a dispatch explain every supplier, account for every unit and rank well, whatever the clock does? | 2 requests, 3 suppliers with 1 unit each, 5 kinds of terms, clock 0..2 both ways | 2,312,733 |
| `progress` | Do attempts, generations, eviction and reconnection keep apart what they must, and do streams end? | 3 intents on 2 slots, 2 attempts, buffers of 2 events, 1 client | 361,971 |
| `progress_slots` | Can a dispatch be refused for lack of a bus slot? | 2 intents on 1 slot | violated |
| `domain` | Do the tables of transitions, constructors, events and audit agree over every call sequence? | versions 1..2, clock 0..2 both ways, 2 prices | 195,023 |
| `agent` | Are results, searches and grants of a chat of the present requirements? | 2 request threads, 2 requirement values, flight and parking, parking's dates rewritten in place, 3 requests, 2 parking requests | 655,424 |
| `agent_fresh` | Are hotel results that pass for current of the present requirement? | 1 thread, 4 requests | violated |
| `adapters` | What ends a model call, what outlives it, and what of its output reaches the buyer? | 2 attempts, deadline 3, 2 units lost outside timers; 2 chats, 6 objectives with their answers, 3 model turns, 2 days | 209,574 |

What the properties say, and of which code:

* **facade**. *StatesAgree*: buyer state, purchase intent, offers, acceptance and
  receipt never disagree. *ConsentChain*: a live request has spent exactly one approval
  of each kind up to its state, all its own. *ApprovalsAccounted*: an approval is spent
  by one request, a grant on record was spent, and revoked is exactly what closed
  requests had spent. *ExpiredNeverAdvances*: no forward step at or after the expiry of
  the request or of its accepted offer, although authorize looks at neither, only at an
  expiry that accept computed earlier. *RecordedAnswer*: no scope is recycled while its
  answer can be asked for, and no record answers for another request. *ReplaceLinks*: a
  request and its replacement name each other and the log finds both.
  *TerminalFrozen*: nothing changes a finished request. *TaskMoves*: the booking task
  shown for a moving session follows the table of booking tasks, which no handler
  consults. *ParentSettled*: a parent shown as over stays over. *ShownTruthfully*: a
  request shown as deleted disclosed nothing; the ledger shows nothing as authorized before
  the receipt, the accepted offer's money if that offer was ranked, and at most the
  recommended offer's if it was not; an offer shown as expired, recommended or authorized is so.
* **uow**. *AllOrNothing*, *ConflictExclusion*, *CapacityAccounted*, *AtomicSpec*,
  *EveryRequestEnds*: as the comments of the unit of work promise them.
* **idem**. *OneAnswer*: all callers that ask the same in one life of a scope are
  answered the same. *ReservationHasWorker*: whoever is turned away waits for somebody.
* **solicit**. *TerminalsExplained*, *Accounted* (capacity against sold offers, and
  against what the stream has announced), *WinnerUndominated*,
  *OnlyTheClockLosesOffers*.
* **progress**. *AttemptIsolation*, *GenerationsKept* (live ones are not evicted,
  completed ones never change), *NoSilentGap*, *EndedMeansTold*, *StreamEnds*.
* **domain**. *WellFormed*: what the guards of a transition admit, `__post_init__`
  admits. *TermsAgreed*: what is authorized are the terms and the price accepted, over
  counters and resubmissions, although only versions are compared; they were open when
  accepted, and acceptance and decision are open at the receipt. That the terms still are
  is asked by nobody (`transaction.py:508`); it follows where the acceptance ends no later
  than they do, as the facade records it (`golden_path.py:598`). *StepsTold*: every transition has a
  truthful event that the audit vocabulary accepts.
* **agent**. *FreshFlightIsCurrent*, *SearchedWasOffered*,
  *OnlyDatesInPlaceAndLateAnswersMisdate*: a refinement, an edit or a patch of the
  planner marks or lets go of the parking request it overtakes, so that a grant acts on the
  dates on display, whatever the threads interleave. Two things escape this: a sync writes
  dates in place, and the late answer of a dispatch attaches a withdrawn request.
* **adapters**. *OutcomeExplained*, *NothingOutlives*, *EveryCallEnds*.
  *ProposalsAreSound*: a requirement proposed to the buyer is complete, valid, in order, of a
  text without private data, and nothing in it did the model itself doubt; the gate alone does
  not see to that. *BuyersWordsDecide*: tasks are accepted only where the buyer asked for
  them, and the plan's days are those answered or named: `KeepsDays` says so without the
  projector's readers, with day and month as given and the year of the objective or the next
  that has them. And *AloneIsClean*: as long as turns do not
  overlap, context and patched class are the turn's own. (They may overlap; then they
  mix, and *BuyersWordsDecide* says what holds all the same.)

One type invariant per module is either checked by a run or, for UnitOfWork and
Idempotency, proved (section 4).

**Pure algorithms** are checked by named assumptions that TLC evaluates before a run:
`ProjectionFaithful` (the cascade that derives a parent state, against a reference, over
all triples of tasks), `DisclosureAssumption` (what the run's requests disclose can be bound),
`VocabularyAssumption` (whatever the policies give as a reason can be written to the audit
log), `ToolAssumption` (which tools a turn may call), `GatesAssumption` (the pipelines
of Extraction over larger sets than the run's), `DaysAssumption` (days said in every form, or
answered, are kept as `KeepsDays` says), and the calendar
assumptions of MCTripDates (`Nearest-`, `Readers-`, `Rewrite-`, `Plan-`, `Window-` and
`ClockAssumption`). MCSupply holds the suppliers against the buyer's table, over the seeded
policies and 2,880 variants: an offer is never dropped for its price, floor, validity or
terms (`BelievedAssumption`); three of the reasons to decline are never given
(`ReasonsAssumption`); a longer stay is neither cheaper nor sold where a shorter one was too
dear for the budget (`LongerStaysAssumption`); what the composed table believes instead
(`SixDaysAssumption`), and what the demonstration's suppliers do (`CanonicalAssumption`). A
factor of 100 stands for the code's 1000000 and 10000000 for its largest amount, so that
amounts fit TLC's integers and products still overflow.

**Why these bounds are enough.** Interference in GoldenPath is between two requests:
through an approval id, an idempotency scope or a replacement; two requests with eight
approvals can each go through all four steps. Clock 0..2 lets a scope expire, be recycled
and be compared with the receipt it was recycled from, and an offer expire before its
request. Two threads on any sets of three intents can want overlapping pairs, so sorted
locking matters; the staging slot has only one owner. Three callers of a scope are one
that works, one that took over after the expiry and one that replays. Three suppliers
give a terminal before and after the one in question, one unit each runs out with the
first sale, and two dispatches share them. On the bus three intents on two slots make
the order of use matter, and buffers of two events overflow in an attempt of four.
Two resubmissions tell a version apart from the one after it. In the chat two
requirement values tell stale from current, and three requests are a change between
a search and its answer. A deadline of three units passes in the first attempt, in the
pause, or in the second. The safety properties TLAPS proves without these bounds; what
remains of them is a clock bound of any size, and three suppliers per dispatch.

Bounds that the code does not have: `MaxTime`, `MaxVersion`, `Steps`, `Attempts`,
`Opened`, `MaxTurns`, `MaxIntents`, `Slack`, `Replanned` (whose requirement the planner
patches) and `Redated` (whose dates a sync rewrites: parking's in the runs; the theorems are
about any that include them, the flight's too); a thread of UnitOfWork runs one transaction
and a chat of ModelAdapters one turn. Runs therefore end, and `CHECK_DEADLOCK FALSE` says so;
what must not block is stated as `EveryRequestEnds`, `StreamEnds` and `EveryCallEnds`.

**Reductions.** In MCGoldenPath approval ids are spent in order (`ApprovalsInOrder`): ids
are compared for equality only, so every run is such a run with its ids renamed. A run
has two requests or one request with two offers, not both (`TwoRequestsOrOffers`), and in
MCViews two requests or a ranking that leaves some offers out (`TwoRequestsOrRankings`): a request
reads no offer but its own. Intents and offers, callers, requests and answers, chat
threads and requirement values are permuted. MCSolicitation, MCModelAdapters and
MCProgressBus use no symmetry, nor does any run with a liveness property.

**Fairness.** `UnitOfWork!FairSpec`: weak fairness of each thread's own steps. A thread
that entered a transaction keeps running, and each other thread asks for a lock once, so
a waited-for lock is free for good in the end; no lock has to be fair. It assumes that
supplier ports return, for which the code has no timeout. `ProgressBus!FairSpec`: weak
fairness of the dispatch in progress and of each stream's own steps. Entering, watching,
reconnecting, dispatching, disconnecting are not fair. `StreamEnds` is claimed of a stream
that follows the attempt in progress; one that nobody ever dispatches waits for ever by
design. `ModelAdapters!Fairness`: the event loop runs its ready steps (`CallSteps`), a
cancelled task unwinds, timers fire (`TimerTick`), the worker thread of a turn goes on,
since botocore bounds its reads. The provider need never answer a Google call, nobody
has to cancel, and time is lost outside timers only as often as `Slack` allows.

## 4. What is proved

TLAPS checks eight modules, with no step left open. Every invariant and every action property
of the passing runs is a theorem there; the runs show it on an instance, the theorem for every
value of the constants. Sets of requests, threads, callers, offers, approvals, keys, clients,
requirements and objectives are arbitrary, infinite ones included unless said below.

| Module | Theorems | Argument |
| --- | --- | --- |
| `GoldenPath_proofs`, types and sessions | `TypeCorrect`, `SessionInvariance`, `SessionPartsAgree`, `FinishedFrozen`, `ForwardInTime` | One lemma per session transformer says what a handler makes of each field; every other proof about GoldenPath cites them. `Sound` is `Agrees` plus: an acceptance outlives neither its request nor its offer. Without it authorize, which checks only the acceptance's expiry, could not be shown to be in time. |
| approvals | `ApprovalInvariance`, `ApprovalsAlwaysAccounted` and its two halves, `ForwardByConsent` | `ApprovalInv`: an approval on record is used by exactly the request it names and the revoked ones were used. `Chains`, on top of it: the grant a handler writes is used by no other session, so no other chain changes. |
| records | `RecordsInvariance`, `ReplacementsLinked`, `AnswersRecorded` | With the types both invariants are inductive. Replace alone writes links, Authorize alone writes receipts; of the rest it is enough that they keep them or touch a session that has none. |
| views | `ViewsOnlyWatch`, `ViewInvariance`, `ViewsTruthful`, `TasksMove`, `ParentsSettle` | A behaviour with views is one of the facade, so everything above holds of it. `ViewInv` relates what only views read to the session: an approved dispatch left a collection, what is ranked is on offer with one recommended until one, ranked or not, is accepted, what lapsed did so in a closed request. The booking tasks need each session's moves (one row per handler) and the paths of the task table, which `Twice` composes up to 32 steps. |
| `Aggregates_proofs` | `AggregateInvariance`, `ChecksSuffice`, `VersionsPinTerms`, `TransitionsTold` | `WellFormed` alone is not inductive: `AggregateInv` adds how many moves lead to a state (each version of an offer takes two), that an acceptance of the present version is of the present terms, and that an accepted offer and a transaction under way rest on that acceptance. Each transition then has one lemma per aggregate. For the events the three tables are compared row by row. |
| `UnitOfWork_proofs` | `Invariance`, `TypeCorrect`, `AnsweredAllOrNothing`, `ConflictsExcluded`, `CapacityExact`, `UpdatesKept`, `ImplementsAtomicStore` | The publish lock is held from begin to release, so one thread owns the staging slots, its copies extend what is committed, and its check stays valid until it publishes. The refinement maps the publication of the sessions store to `Commit`. |
| `Idempotency_proofs` | `IdempotencyInvariance`, `TypeCorrect`, `AnswersAgree`, `PendingIsWorkedOn` | A caller that works or completes holds the pending record of its scope, or that record has expired for it; a record is completed by the request it was reserved for. |
| `ProgressBus_proofs` | `BusInvariance`, `OneLiveAlways`, `AttemptsIsolated`, `GenerationsAlwaysKept` and its two halves, `ConnInvariance`, `NoSilentGapEver`, `EndedStreamsTold`, `LimitsKept` | `BusInv`: generations belong to one intent, only the newest may be live, a live one with events belongs to the attempt in progress, a completed one is empty or ends with its terminal event. `ConnInv`: what a client received and the batch it is being sent follow each other, and the buffer, which only moves ahead, agrees with them as far as it still holds them. So a client at the end of a completed buffer has its terminal event. `UsageInv`: the order of use names every tracked intent once and no other, so the evicted intent has one place in it, and the number of tracked intents stays the length of the order. |
| `Boundary_proofs`, operators | `AllowedIsExact`, `OneConsentOneRequest`, `ApprovalFixesPayload`, `ContentFixesEnvelope`, `SupplierHandedItsOwn`, `BoundIsVerified`, `OfferBelieved` | What validate_approval lets through agrees with the grant in every field; what is bound for a grant passes verification, and a supplier opens no envelope but its own, in its window. In the other direction, an offer that passed the supplier's checks passes the buyer's, for every policy, stay and largest amount: the subtotal is at least the floor of the days billed, and the buyer's division does not overflow where the supplier's product did not. |
| dispatch | `DispatchInvariance`, `TerminalsAreExplained`, `UnitsAccounted`, `WinnerIsUndominated`, `ClockAloneLoses` | `DispatchInv`: who has a box is who had a turn, a box holds what its reading of the clock and the approval allow, and a unit is out for each supplier that sold. `RankedNow`: a ranking stays the one of the boxes. The winner: each of the seven contributions is monotone in its attribute, roundings included, so an offer as good in everything has at least the score; at equal scores its evidence and validity are no worse, and then the total decides. The clock: while it stands still every check of a dispatch reads the instant that the approval was issued at. |
| `AgentSession_proofs` | `ChatInvariance`, `FreshFlights`, `SearchesWereOffered`, `HeldIntentsStayCurrent` | The handlers are compositions of functions of the session; each has a lemma for what it keeps. `ChatInv`: what sessions and threads name exists, what a prompt, an automatic search or a thread's list names had been offered, and flight offers lie beside the fingerprint they were found for. The step property is shown action by action; the two exceptions appear in one case each. |
| `ModelAdapters_proofs` | `AdapterInvariance`, `OutcomesAreExplained`, `NothingKeepsRunning`, `ProposalsAreClean`, `TheBuyerDecides`, `SoloTurnsAreClean` | `CallInv`: attempts so far failed for a passing reason, the provider's task runs only while the call waits for it, and a response passed its gate. `TurnsFit`: a turn has a thread from the pool until it ends, and a plan it shows is decided; this rests on lemmas for each pass of the projector, which hold for whatever turn the model proposes: facts that are exact keep the buyer's days, days found are kept by each pass over the years, and reading a year twice changes nothing. `Solo`, while no two turns were in flight together: one turn in flight, its context, its patch. |

**Assumptions.** Each is a named `ASSUME` of the module it is about, evaluated by TLC in a
run.

* `None` or `NULL`, Python's None, is no value of the field it may stand in. Clock bounds, bus
  limits, attempts and deadlines are numbers; intents are numbers in UnitOfWork, whose locks
  are sorted.
* Ranking: the scale is a positive multiple of 100, as 1,000,000 is (weights and
  cancellation values are per cent of it).
* Solicitation: prices, transfer times and distances are natural numbers, add-ons and
  evidence finite, and reliabilities within the scale (`itaa_domain` and `inputs.py` refuse others);
  add-ons asked for are no more than the scale; the collection's deadline is no later than
  the request's expiry, as `golden_path.py` sets it; finitely many requests. The collector
  has three suppliers, as the composed one has, so the theorems are about three.
* AgentSession: the four searchable capabilities are the code's, a chat opens with
  requirements of the model. ModelAdapters: objectives, answers, and outputs are of the shapes
  that the patterns and the schema leave; plans are made, and days answered, in this century.

**What the proofs changed in the models.** Three definitions were written with CASE arms that
overlapped (`ProjectIntentState`, `Overlay`, `PendingGate`). TLA+ does not order the arms, while
TLC takes the first: the checks were right and the definitions ambiguous. They are now IF chains,
as in the code. `Placed` says with one removal what it said with a recursive filter, `Ranked`
says that a ranking is the sorted order instead of computing one, records are written field
by field where they were merged with `@@`, and functions of two arguments are curried. Each
run was made again after its module had changed.

**Only model-checked**: the liveness properties `EveryRequestEnds`, `StreamEnds` and
`EveryCallEnds` (fairness and ENABLED are out of the prover's reach), the pure algorithms of
TripDates, Supply's seeded policies and the pipelines of Extraction over given inputs (their
assumptions enumerate data), and the violations.

## 5. Where code and documentation disagree

* **A replacement cannot be dispatched** (`details`). `_draft_from_requirement`
  (`portfolio.py:294`) rebuilds the payload without the `/disclosure` and
  `/solicitation` sections, which `inspect_parking_v1` requires. The replacement of a
  dispatchable request can be confirmed, but its dispatch raises. The web client
  (`LiveParkingWorkspace.tsx:584`) promises a new draft "created from the same details".
* **A commit is not published together** (`uow_torn`). `_commit_locked`
  (`local_memory.py:540`) publishes five stores one after the other, and snapshot and
  lookup read without the publish lock. The module docstring says that commit "publishes
  every store together".
* **A dispatch can fail because of open streams** (`progress_slots`). A stream on a
  request that is never dispatched keeps its bus slot for ever. When all slots are held,
  the unguarded first emit of a dispatch raises and the dispatch is rolled back.
  `progress_sse.py:90` calls progress "operational only".
* **Old hotel offers pass for current** (`agent_fresh`). A hotel search that fails keeps
  the offers of the search before it but records the new fingerprint
  (`agent_session.py:3330`, `3357`), so the next turn sets `stale` to False. The web client
  (`ClarifyPlanScreen.tsx:805`) says "Hotel results are stale after a stay requirement
  change."

Met while modelling, with no statement of the repository they contradict; the models have
them as the code does:

* The two ends of a range without a year are moved to their next occurrence one by one
  (`projector.py:381`, `765`, `agent_session.py:2562`): "9 to 15 October" said on 10
  October 2026 becomes 9 October 2027 to 15 October 2026. The same happens to nights counted over
  an anniversary of today. `RewriteAssumption` and `PlanAssumption` say exactly when.
* "29 February" said after that day in a leap year is not found; "31 April" without a year
  raises an uncaught ValueError (`calendar_resolve.py:125`); "30 to 31 February 2028" falls
  through to the reader of bare days and becomes days of the current month. A parking window
  "from 30 October to the 2nd" is read with its end in October.
* "don't need a car" sets `rentalStated` (`projector.py:366`, `1081`): the rental task is
  accepted although the answer recorded is no.
* A snapshot holds an offer's validity against the time the request last moved
  (`golden_path.py:905`): an offer that has run out is shown as valid. An offer that was
  mapped but not ranked can be accepted; the snapshot then shows no offer as authorized
  although there is a receipt, and the ledger, which looks for it among the ranked ones
  (`orchestration.py:211`), shows the recommended offer's price as authorized, or none.
* A sync writes parking and flight dates in place (`agent_session.py:786`, `976`, `977`, `1167`):
  the parking request made from the old ones stays attached and its offers are not marked.
* An answered day keeps its year only if the objective names one (`projector.py:381`, `765`): an
  answer for next October becomes this October. A single answered day in ISO form has no
  reader: its month and day are taken for two days of the present month
  (`calendar_resolve.py:143`), so that "2026-10-14" becomes the 10th to the 14th.
* A receipt may be issued after the terms it is for have run out, if an acceptance was given
  a later end than they have; the facade gives none (`golden_path.py:598`).
* A supplier's acquisition budget is for one offer and its discount for each day
  (`engine.py:106`): ParkDirect sells no stay of eleven days or more, SkyShield none of
  seventeen. An offer of the demonstration costs the same for any stay and runs for a day,
  past the deadline and the envelope (`canonical.py:329`).
* `SimulatorPolicyPort` (`composition.py:184`) looks for the service window in the offer,
  which carries none, so its floor is always that of six days: offers for shorter stays are
  dropped, and those for longer ones are held to less than they were sold for.
* The envelopes of a request open 48 hours before it expires (`composition.py:123`): one that
  lives longer cannot be dispatched earlier, and the refusal is an exception, not a denial.
* Leaving the `with` of the planner's thread pool waits for the thread (AWS `live.py:288`),
  so its timeout bounds the answer and not the wait. A provider's exception whose class name
  contains "cancel" is reported as the caller's cancellation (Google `live.py:47`).

## 6. What is not modelled

* *Facade, session, routes*: serialisation, header and schema validation, listing.
* *Approvals*: which of several failing checks names the reason of a denial. *Envelopes*:
  the syntax of values and the classification of withheld fields by their names; hashes are
  collision-free. *Offer boundary*: identifiers and hashes. *Ranking*: the documents that
  explain it.
* *Audit*: the hash of a record and the chain of a stream, which the application does not use.
* *Clock of GoldenPath*: it only advances. A clock that steps back is in Solicitation and
  Aggregates; in the facade it makes transitions raise until it has caught up.
* *Chat*: the recognisers of texts (a message is what they make of it), copy, transcript,
  rate references, the budget filter, held and dropped parking kinds, the handoff tools; a
  grant of A1 in the chat is unreachable. Handlers interleave where they leave the process;
  threads may also be switched between two statements, which the model does not do.
* *Calendar and planner*: the patterns, time zones, answered days of other centuries. *Adapters*: the
  SDKs; the hotel, flight and experience clients, which the chat sees as answers that come,
  are empty or fail.
* *Web client, contracts, UI kit, tools, placeholders*: screens, generated types, build
  tools. What the screens promise is the subject of two findings.
* Nothing is persisted, so there is no crash recovery.

## 7. Plan

Done: GoldenPath, UnitOfWork with AtomicStore, ProgressBus, Idempotency, Approvals, Envelopes,
Supply, Ranking, Solicitation, Aggregates and Events, Views, AgentSession, TripDates, Planning,
Extraction, ModelAdapters; proofs of all safety properties of the runs. Left, the most useful
first:

1. GoldenPath's session fields as a refinement of Aggregates: each handler drives the
   library's transitions in the order of its statements.
2. Idempotency inside a transaction: the records of GoldenPath as a refinement of
   Idempotency with callers that never overlap.
3. `DisclosureAssumption` and `VocabularyAssumption` as theorems about every payload and
   every table, instead of evaluations.
4. The calendar: that `next_occurrence` is the nearest day, for every year.
5. DispatchStream: ProgressBus composed with a dispatch inside UnitOfWork.
   STREAM_COMPLETED is emitted before the commit, so a client that fetches the snapshot on
   it may still read the state before.
6. The chat with threads switched between statements, held parking kinds and the budget
   filter; the search clients' own retries; the audit hash chain, once it is used.
