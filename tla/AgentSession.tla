---------------------------- MODULE AgentSession ----------------------------
(***************************************************************************)
(* The booking chat (apps/api/src/itaa_api/agent_session.py) as the        *)
(* search gate it is: what the buyer needs, which searches have been       *)
(* offered, answered and run, and which parking request the chat holds.    *)
(*                                                                         *)
(* A session is one record, changed by HTTP handlers that FastAPI runs on  *)
(* threads without a lock.  A handler runs undivided between two calls     *)
(* that leave the process or wait for suppliers (the planner, a search     *)
(* provider, a parking dispatch), so that is where requests interleave.    *)
(* Texts are abstract: a message is what the recognisers make of it, and a *)
(* requirement (dates, place, budget: what a search fingerprint is made    *)
(* of) is a member of Needs.                                               *)
(***************************************************************************)
EXTENDS Naturals, Sequences

CONSTANTS Requests,     \* request threads that may work on the session
          Needs,        \* values a requirement can take
          Inventory,    \* the provider searches modelled
          Unknown,      \* a requirement that is not complete yet
          NULL,
          Openings,     \* requirements the opening turn may leave
          Replanned,    \* bound: capabilities whose requirement the planner may patch
          Redated,      \* bound: capabilities whose dates a sync may rewrite
          MaxTurns,     \* bound: requests the client sends
          MaxIntents    \* bound: parking requests the chat creates

ASSUME InventoryAssumption ==
    /\ Inventory \subseteq {"stay", "experience", "flight"}
    /\ Replanned \subseteq Inventory \cup {"parking"}
    /\ Redated \subseteq Inventory \cup {"parking"} /\ "parking" \in Redated
    /\ Openings \subseteq [Inventory \cup {"parking"} -> Needs \cup {Unknown}]
    /\ NULL \notin Needs

VARIABLES session,   \* the AgentSession record
          intents,   \* the facade's parking requests: need and stage
          req,       \* what each request thread is doing
          turns,     \* requests sent so far
          offered    \* every capability a prompt named or an A2 grant covered

vars == <<session, intents, req, turns, offered>>

Capabilities == Inventory \cup {"parking"}
\* the order in which _dispatch_capability_searches works
SearchRank == [stay |-> 1, experience |-> 2, flight |-> 3, parking |-> 4]

-----------------------------------------------------------------------------
(* What the session says of its searches.                                  *)

\* the set of capabilities a pending authorization names
Asked(pending) == DOMAIN pending
NoPending == [c \in {} |-> NULL]

ParkingFresh(s) == /\ s.shown # NULL
                   /\ s.shown.stage # "empty"
                   /\ ~s.stale

SearchReady(s, c) == /\ s.need[c] # Unknown
                     /\ c = "parking" => ~ParkingFresh(s)

FreshResult(s, c) ==
    IF c = "parking"
    THEN ParkingFresh(s)
    ELSE /\ s.search[c] # NULL
         /\ s.search[c].print = s.need[c]
         /\ ~s.search[c].stale
         /\ c # "experience" => s.search[c].ok

SearchBlocked(s) ==
    \E c \in Capabilities \cap {"stay", "parking"} : s.need[c] = Unknown

\* the A3 or A4 gate the session waits at
PendingGate(s) ==
    IF s.need["parking"] = Unknown \/ s.shown = NULL \/ s.stale THEN NULL
    ELSE CASE s.shown.stage = "accepted" -> [gate |-> "A4", intent |-> s.shown.intent]
           [] s.shown.stage = "offers" -> [gate |-> "A3", intent |-> s.shown.intent]
           [] OTHER -> NULL

RefreshPending(s) == [s EXCEPT !.gate = PendingGate(s)]

-----------------------------------------------------------------------------
(* Requirement changes.                                                    *)

\* mutant of MarkStale: the old parking request stays attached
MarkStaleKeepsIntent(s) == IF s.shown # NULL \/ s.intent # NULL
                           THEN [s EXCEPT !.stale = TRUE]
                           ELSE s

MarkStale(s) == IF s.shown # NULL \/ s.intent # NULL
                THEN [s EXCEPT !.stale = TRUE, !.intent = NULL]
                ELSE s

\* new dates complete nothing: a window without clock times stays unknown
WithParking(s, to) == IF s.need["parking"] = Unknown
                      THEN s
                      ELSE [s EXCEPT !.need["parking"] = to]

OverlayParkingDates(s, to) == MarkStale([WithParking(s, to) EXCEPT !.lock = to])

\* mutant of InventorySearchCaps: searches kinds that were never searched
InventorySearchCapsAll(s, kinds) == kinds \cap Capabilities

InventorySearchCaps(s, kinds) ==
    {c \in kinds \cap Inventory : s.search[c] # NULL}
        \cup {c \in kinds \cap {"parking"} : s.shown # NULL /\ s.shown.stage # "empty"}

\* the dates of the trip, of the stay, of parking or of the flight are moved
MoveDates(s, scope, to) ==
    LET searchedFlight == "flight" \in Inventory /\ s.search["flight"] # NULL
        moved == IF scope = "all"
                 THEN Inventory \cap ({"stay"} \cup (IF searchedFlight THEN {"flight"} ELSE {}))
                 ELSE Inventory \cap {scope}
        next == [s EXCEPT !.need = [c \in Capabilities |->
                                        IF c \in moved THEN to ELSE s.need[c]],
                          !.pending = NoPending,
                          !.cascade = IF scope = "flight" THEN to ELSE @,
                          !.auto = CASE scope = "all" ->
                                          InventorySearchCaps(s, {"flight", "stay", "parking"})
                                     [] scope = "stay" -> InventorySearchCaps(s, {"stay"})
                                     [] OTHER -> {}]
    IN  IF scope \in {"all", "parking"} THEN OverlayParkingDates(next, to) ELSE next

FollowCascade(s) ==
    LET next == [s EXCEPT !.need = [c \in Capabilities |->
                                        IF c = "stay" THEN s.cascade ELSE s.need[c]],
                          !.cascade = NULL,
                          !.pending = NoPending]
        moved == OverlayParkingDates(next, s.cascade)
    IN  [moved EXCEPT !.auto = InventorySearchCaps(moved, {"flight", "stay", "parking"})]

HoldCascade(s) == [s EXCEPT !.cascade = NULL,
                            !.pending = NoPending,
                            !.auto = InventorySearchCaps(s, {"flight"})]

\* _apply_conversation_refinements: what a message changes before planning
Refine(s, m) ==
    CASE m.kind = "follow" /\ s.cascade # NULL -> FollowCascade(s)
      [] m.kind = "hold" /\ s.cascade # NULL -> HoldCascade(s)
      [] m.kind = "move" -> MoveDates(s, m.scope, m.to)
      [] m.kind = "revise" -> [s EXCEPT !.need[m.cap] = m.to,
                                        !.pending = NoPending,
                                        !.auto = {}]
      [] OTHER -> s

-----------------------------------------------------------------------------
(* The planner's answer.                                                   *)

\* the planner's requirement patches, and those read off the conversation again;
\* a parking patch counts as a change even when only its source is new
Patched(s, patch) ==
    IF patch = NULL
    THEN s
    ELSE LET next == [s EXCEPT !.need[patch.cap] = patch.to]
         IN  IF patch.cap = "parking" THEN MarkStale(next) ELSE next

\* a parking window in the last message is written over the fields, unmarked
SeedParking(s) == IF s.last.kind = "window"
                  THEN [s EXCEPT !.need["parking"] = s.last.to, !.lock = s.last.to]
                  ELSE s

\* the last date message again, and then the locked dates, unmarked
ReapplyLastDates(s) ==
    LET again == IF s.last.kind = "move" /\ s.last.scope \in {"all", "parking"}
                 THEN OverlayParkingDates(s, s.last.to)
                 ELSE s
    IN  IF again.lock = NULL THEN again ELSE WithParking(again, again.lock)

\* clock times found in the conversation are laid over a parking window that has
\* placeholders for them, unmarked
EnsureParkingClocks(s, dates) ==
    IF dates["parking"] = NULL THEN s ELSE [s EXCEPT !.need["parking"] = dates["parking"]]

\* the days held, parking's and the flight's among them, become those that their
\* month and day name today unless the objective gives a year, unmarked
CanonicalizeDates(s, dates) ==
    [s EXCEPT !.need = [c \in Capabilities |->
        IF c \in Redated /\ s.need[c] # Unknown /\ dates[c] # NULL THEN dates[c] ELSE s.need[c]]]

SyncDomains(s, patch, dates) ==
    EnsureParkingClocks(ReapplyLastDates(SeedParking(Patched(s, patch))), dates)

ApplyPlan(s, patch, dates) ==
    RefreshPending(CanonicalizeDates(SyncDomains(s, patch, dates), dates))

\* results whose requirement has moved since are marked stale
InvalidateStaleSearches(s) ==
    [s EXCEPT !.search = [c \in Inventory |->
        LET held == s.search[c]
        IN  IF held # NULL /\ held.print # s.need[c] /\ held.of # NULL
            THEN [held EXCEPT !.stale = TRUE]
            ELSE held]]

FingerprintsMatch(s) == /\ Asked(s.pending) # {}
                        /\ \A c \in Asked(s.pending) : s.need[c] = s.pending[c]

\* the capabilities the last message confirms: a yes names all or some of them
MatchConfirmation(s) == IF s.last.kind = "yes" THEN s.last.caps \cap Asked(s.pending) ELSE {}

BuildPending(s) ==
    LET needed == {c \in Capabilities : /\ SearchReady(s, c) \/ (c = "parking" /\ ParkingFresh(s))
                                        /\ ~FreshResult(s, c)}
    IN  IF needed = {} THEN s.pending ELSE [c \in needed |-> s.need[c]]

\* _reconcile_search_authorization: the session after it, and what it dispatches
Reconcile(s) ==
    LET seen == InvalidateStaleSearches(s)
        quiet == [seen EXCEPT !.auto = {}]
        dropped == [quiet EXCEPT !.pending = NoPending]
        kept == IF FingerprintsMatch(seen) THEN quiet ELSE dropped
        confirmed == MatchConfirmation(kept)
    IN  IF seen.cascade # NULL THEN [session |-> dropped, todo |-> {}]
        ELSE IF seen.auto # {} THEN [session |-> dropped, todo |-> seen.auto]
        ELSE IF confirmed # {} THEN [session |-> kept, todo |-> confirmed]
        ELSE IF SearchBlocked(kept) THEN [session |-> kept, todo |-> {}]
        ELSE [session |-> [kept EXCEPT !.pending = BuildPending(kept)], todo |-> {}]

-----------------------------------------------------------------------------
(* Searches.                                                               *)

\* a search that would repeat the recorded fingerprint is not sent again
Reusable(s, c) == /\ c \in Inventory
                  /\ s.search[c] # NULL
                  /\ s.search[c].print = s.need[c]

Reused(s, c) == [s EXCEPT !.search[c].stale = FALSE]

\* while a hotel or experience search is under way the old offers are stale
Researching(s, c) ==
    IF c # "flight" /\ s.search[c] # NULL /\ s.search[c].of # NULL
    THEN [s EXCEPT !.search[c].stale = TRUE]
    ELSE s

\* mutant of SearchResult: a failed flight search keeps the old offers
SearchResultKeepsFlights(prev, c, asked, outcome) ==
    IF outcome = "failed" /\ prev # NULL
    THEN [prev EXCEPT !.print = asked]
    ELSE [of |-> IF outcome = "offers" THEN asked ELSE NULL,
          stale |-> FALSE, ok |-> outcome # "failed", print |-> asked]

\* a failed hotel or experience search keeps the old offers, marked stale
SearchResult(prev, c, asked, outcome) ==
    IF outcome = "failed" /\ c # "flight" /\ prev # NULL /\ prev.of # NULL
    THEN [prev EXCEPT !.stale = TRUE, !.print = asked]
    ELSE [of |-> IF outcome = "offers" THEN asked ELSE NULL,
          stale |-> FALSE, ok |-> outcome # "failed", print |-> asked]

\* the parking request a dispatch works on: the session's, or a new one
DispatchIntent(s) == IF s.intent # NULL THEN s.intent ELSE Len(intents) + 1

IntentsFor(s) == IF s.intent # NULL
                 THEN intents
                 ELSE Append(intents, [need |-> s.need["parking"], stage |-> "confirmed"])

\* the snapshot an answered gate returns is the one the session now shows
Showing(s, i, stage) == [s EXCEPT !.shown = [intent |-> i, stage |-> stage],
                                  !.stale = FALSE,
                                  !.intent = i]

-----------------------------------------------------------------------------
(* Handlers, one step per stretch between two waits.                       *)

Idle == [at |-> "idle"]
Planning == [at |-> "planning"]
SearchingFor(todo) == [at |-> "searching", todo |-> todo]

Messages ==
    [kind : {"chat", "follow", "hold"}]
        \cup [kind : {"yes"}, caps : {Capabilities} \cup {{c} : c \in Capabilities}]
        \cup [kind : {"move"}, scope : {"all", "parking"} \cup (Inventory \ {"experience"}), to : Needs]
        \cup [kind : {"revise"}, cap : Inventory, to : Needs]
        \cup [kind : {"window"}, to : Needs]

Patches == {NULL} \cup [cap : Replanned, to : Needs]
\* what the calendar and the clock times said make of dates in place: both
\* passes over a window leave it one value, or as it was
Dates == [Redated -> Needs \cup {NULL}]
ClockDates == {dates \in Dates : \A c \in Redated \ {"parking"} : dates[c] = NULL}

\* create_turn with a message: the refinements, then the planner is asked
Turn(r, m) ==
    /\ req[r] = Idle
    /\ turns < MaxTurns
    /\ session' = Refine([session EXCEPT !.last = m], m)
    /\ req' = [req EXCEPT ![r] = Planning]
    /\ turns' = turns + 1
    /\ UNCHANGED <<intents, offered>>

\* what follows planning: dispatch the confirmed searches, or ask for them
Continue(r, s) ==
    LET next == Reconcile(s)
    IN  /\ session' = next.session
        /\ req' = [req EXCEPT ![r] = IF next.todo = {} THEN Idle ELSE SearchingFor(next.todo)]
        /\ offered' = offered \cup Asked(next.session.pending)
        /\ UNCHANGED <<intents, turns>>

PlanReturns(r, patch, dates) ==
    /\ req[r] = Planning
    /\ Continue(r, ApplyPlan(session, patch, dates))

\* the planner fails: the turn fails closed, or goes on with an airport reply
PlanFails(r) ==
    /\ req[r] = Planning
    /\ \/ /\ req' = [req EXCEPT ![r] = Idle]
          /\ UNCHANGED <<session, intents, turns, offered>>
       \/ /\ session.last.kind = "chat"
          /\ Continue(r, session)

\* capability c is the one a dispatch comes to next
ComesTo(r, c) == /\ req[r].at = "searching"
                 /\ c \in req[r].todo
                 /\ \A d \in req[r].todo : SearchRank[c] <= SearchRank[d]

Without(r, c) == req[r].todo \ {c}

\* a capability that is not ready, or whose results are on file, costs no call
SearchAtHand(r, c) ==
    /\ ComesTo(r, c)
    /\ ~SearchReady(session, c) \/ Reusable(session, c)
    /\ session' = IF SearchReady(session, c) THEN Reused(session, c) ELSE session
    /\ req' = [req EXCEPT ![r] = SearchingFor(Without(r, c))]
    /\ UNCHANGED <<intents, turns, offered>>

CallProvider(r, c) ==
    /\ ComesTo(r, c)
    /\ SearchReady(session, c) /\ ~Reusable(session, c)
    /\ session' = Researching(session, c)
    /\ req' = [req EXCEPT ![r] = [at |-> "called", cap |-> c, todo |-> Without(r, c),
                                  asked |-> session.need[c], prev |-> session.search[c]]]
    /\ UNCHANGED <<intents, turns, offered>>

ProviderAnswers(r, outcome) ==
    /\ req[r].at = "called"
    /\ session' = [session EXCEPT !.search[req[r].cap] =
                       SearchResult(req[r].prev, req[r].cap, req[r].asked, outcome)]
    /\ req' = [req EXCEPT ![r] = SearchingFor(req[r].todo)]
    /\ UNCHANGED <<intents, turns, offered>>

\* an exception that is no ApplicationError ends the request where it is
ProviderBreaks(r) ==
    /\ req[r].at = "called"
    /\ req' = [req EXCEPT ![r] = Idle]
    /\ UNCHANGED <<session, intents, turns, offered>>

\* the dispatch loop is over: the prompt is answered and the gate refreshed
EndSearches(r) ==
    /\ req[r] = SearchingFor({})
    /\ session' = RefreshPending([session EXCEPT !.pending = NoPending])
    /\ req' = [req EXCEPT ![r] = Idle]
    /\ UNCHANGED <<intents, turns, offered>>

\* _grant_a2: a parking request is created if none is held, and dispatched
StartDispatch(r, after) ==
    /\ SearchReady(session, "parking")
    /\ session.intent = NULL => Len(intents) < MaxIntents
    /\ intents' = IntentsFor(session)
    /\ session' = [session EXCEPT !.intent = DispatchIntent(session)]
    /\ req' = [req EXCEPT ![r] = [at |-> "dispatched", intent |-> DispatchIntent(session),
                                  after |-> after]]

SearchParking(r) ==
    /\ ComesTo(r, "parking")
    /\ StartDispatch(r, SearchingFor(Without(r, "parking")))
    /\ UNCHANGED <<turns, offered>>

GrantA2(r) ==
    /\ req[r] = Idle /\ turns < MaxTurns
    /\ StartDispatch(r, Idle)
    /\ turns' = turns + 1
    /\ offered' = offered \cup {"parking"}

\* suppliers answered, or the request had been dispatched before
DispatchReturns(r, stage) ==
    /\ req[r].at = "dispatched"
    /\ LET i == req[r].intent
           now == IF intents[i].stage = "confirmed" THEN stage ELSE intents[i].stage
           granted == req[r].after = Idle
       IN  /\ intents' = [intents EXCEPT ![i].stage = now]
           /\ session' = RefreshPending([Showing(session, i, now) EXCEPT !.confirmed = @ \/ granted])
    /\ req' = [req EXCEPT ![r] = req[r].after]
    /\ UNCHANGED <<turns, offered>>

\* the dispatch is refused: the parking request stays with the session
DispatchFails(r) ==
    /\ req[r].at = "dispatched"
    /\ req' = [req EXCEPT ![r] = req[r].after]
    /\ UNCHANGED <<session, intents, turns, offered>>

\* an A3 or A4 grant: the gate must be the pending one, the facade must agree
Grant(gate, from, to) ==
    /\ turns < MaxTurns
    /\ session.gate # NULL /\ session.gate.gate = gate
    /\ session.intent # NULL
    /\ intents[session.intent].stage = from
    /\ gate = "A3" => session.shown.intent = session.intent
    /\ intents' = [intents EXCEPT ![session.intent].stage = to]
    /\ session' = RefreshPending([Showing(session, session.intent, to) EXCEPT !.confirmed = TRUE])
    /\ turns' = turns + 1
    /\ UNCHANGED <<req, offered>>

GrantA3 == Grant("A3", "offers", "accepted")
GrantA4 == Grant("A4", "accepted", "authorized")

\* create_turn with patches only: a direct edit of the parking form
DirectPatch(to) ==
    /\ turns < MaxTurns
    /\ to # session.need["parking"]
    /\ session' = RefreshPending(MarkStale([session EXCEPT !.need["parking"] = to]))
    /\ turns' = turns + 1
    /\ UNCHANGED <<intents, req, offered>>

\* confirm_session: the requirement is read off the conversation once more, and
\* a value whose source is now an earlier turn counts as changed
Confirm(reread, dates) ==
    /\ ~session.confirmed
    /\ LET read == IF reread THEN MarkStale(session) ELSE session
       IN  session' = RefreshPending([SyncDomains(read, NULL, dates) EXCEPT !.confirmed = TRUE])
    /\ UNCHANGED <<intents, req, turns, offered>>

\* the session after its opening turn
Opened(need) ==
    Reconcile([need |-> need, lock |-> NULL, cascade |-> NULL, last |-> [kind |-> "chat"],
               pending |-> NoPending, auto |-> {}, search |-> [c \in Inventory |-> NULL],
               intent |-> NULL, shown |-> NULL, stale |-> FALSE, gate |-> NULL,
               confirmed |-> FALSE]).session

Init ==
    /\ \E need \in Openings : session = Opened(need)
    /\ intents = <<>>
    /\ req = [r \in Requests |-> Idle]
    /\ turns = 0
    /\ offered = Asked(session.pending)

Request(r) ==
    \/ \E m \in Messages : Turn(r, m)
    \/ \E patch \in Patches, dates \in Dates : PlanReturns(r, patch, dates)
    \/ PlanFails(r)
    \/ \E c \in Capabilities : SearchAtHand(r, c)
    \/ \E c \in Inventory : CallProvider(r, c)
    \/ \E outcome \in {"offers", "empty", "failed"} : ProviderAnswers(r, outcome)
    \/ ProviderBreaks(r)
    \/ SearchParking(r)
    \/ GrantA2(r)
    \/ \E stage \in {"offers", "empty"} : DispatchReturns(r, stage)
    \/ DispatchFails(r)
    \/ EndSearches(r)

Next ==
    \/ \E r \in Requests : Request(r)
    \/ GrantA3
    \/ GrantA4
    \/ \E to \in Needs : DirectPatch(to)
    \/ \E reread \in BOOLEAN, dates \in ClockDates : Confirm(reread, dates)

Spec == Init /\ [][Next]_vars

-----------------------------------------------------------------------------
(* Properties.                                                             *)

(***************************************************************************)
(* Flight results the session takes for fresh, and so does not search      *)
(* again, are results for the flight the buyer now needs: every writer of  *)
(* flight_search keeps offers and fingerprint together, under a failure, a *)
(* retry, or a second request that searched meanwhile.                     *)
(***************************************************************************)
FreshFlightIsCurrent ==
    "flight" \in Inventory /\ FreshResult(session, "flight")
        => session.search["flight"].of \in {NULL, session.need["flight"]}

(***************************************************************************)
(* The same of the hotel: results marked stale when the requirement        *)
(* changed do not pass for current again without a search.                 *)
(***************************************************************************)
FreshStayIsCurrent ==
    "stay" \in Inventory /\ FreshResult(session, "stay")
        => session.search["stay"].of \in {NULL, session.need["stay"]}

(***************************************************************************)
(* Nothing is searched that was not asked about: what has been searched,   *)
(* automatic re-searches after moved dates included, had been named in a   *)
(* prompt before, and a parking request exists only if parking had been    *)
(* named or the buyer granted A2.                                          *)
(***************************************************************************)
SearchedWasOffered ==
    /\ \A c \in Inventory : session.search[c] # NULL => c \in offered
    /\ intents # <<>> => "parking" \in offered

\* the parking request a grant would act on was made from the present requirement
HeldIntentIsCurrent(s, made) == s.intent # NULL => made[s.intent].need = s.need["parking"]

\* the planner answers, or the plan is confirmed: the requirement is synced
SyncStep == \/ \E r \in Requests : req[r] = Planning /\ req'[r] # Planning
            \/ req' = req /\ ~session.confirmed /\ session'.confirmed

(***************************************************************************)
(* Whatever the buyer says or edits and whatever the planner patches, a    *)
(* grant still acts on a parking request made from the requirement on      *)
(* display, or finds none.  Two things break that in the code.  A sync     *)
(* writes dates in place without marking anything: a window or the locked  *)
(* dates again, clock times, days whose year the buyer left out; then the  *)
(* request stays attached and is marked no more than it was.  And the      *)
(* answer to a dispatch attaches a request that was withdrawn meanwhile.   *)
(***************************************************************************)
OnlyDatesInPlaceAndLateAnswersMisdate ==
    [][(HeldIntentIsCurrent(session, intents) /\ ~HeldIntentIsCurrent(session', intents')) =>
          \/ /\ SyncStep
             /\ session'.intent = session.intent
             /\ session'.stale = session.stale
          \/ \E r \in Requests : /\ req[r].at = "dispatched"
                                /\ req'[r] # req[r]
                                /\ session.intent # req[r].intent]_vars

=============================================================================
