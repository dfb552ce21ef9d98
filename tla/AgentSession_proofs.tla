------------------------- MODULE AgentSession_proofs -------------------------
(***************************************************************************)
(* Proofs about the booking chat, for any number of request threads, any   *)
(* requirements and any planner: what has been searched had been named,    *)
(* flight offers that pass for fresh are those of the present requirement, *)
(* and which steps alone leave a held parking request behind it.           *)
(*                                                                         *)
(* The handlers are compositions of functions of the session; each of them *)
(* has a lemma that says what it keeps, and the step lemmas put those      *)
(* together.                                                               *)
(***************************************************************************)
EXTENDS AgentSession, SequenceTheorems, TLAPS

(* What the variables hold.                                                *)

Requirement == Needs \cup {Unknown}
Results == [of : Needs \cup {NULL}, stale : BOOLEAN, ok : BOOLEAN, print : Requirement]
Stages == {"confirmed", "offers", "empty", "accepted", "authorized"}
Prompts == UNION {[C -> Requirement] : C \in SUBSET Capabilities}
Sessions ==
    [need : [Capabilities -> Requirement], lock : Needs \cup {NULL}, cascade : Needs \cup {NULL},
     last : Messages, pending : Prompts, auto : SUBSET Capabilities,
     search : [Inventory -> Results \cup {NULL}], intent : Nat \cup {NULL},
     shown : [intent : Nat, stage : Stages] \cup {NULL}, stale : BOOLEAN,
     gate : [gate : {"A3", "A4"}, intent : Nat] \cup {NULL}, confirmed : BOOLEAN]
Searching == [at : {"searching"}, todo : SUBSET Capabilities]
Called == [at : {"called"}, cap : Inventory, todo : SUBSET Capabilities,
           asked : Needs, prev : Results \cup {NULL}]
Dispatched == [at : {"dispatched"}, intent : Nat, after : {Idle} \cup Searching]
Doings == {Idle, Planning} \cup Searching \cup Called \cup Dispatched
Made == [need : Requirement, stage : Stages]

(* The fields of a session.                                                *)
LEMMA SessionFields ==
  ASSUME NEW s \in Sessions
  PROVE  /\ s.need \in [Capabilities -> Requirement]
         /\ s.lock \in Needs \cup {NULL} /\ s.cascade \in Needs \cup {NULL}
         /\ s.last \in Messages /\ s.pending \in Prompts /\ s.auto \in SUBSET Capabilities
         /\ s.search \in [Inventory -> Results \cup {NULL}] /\ s.intent \in Nat \cup {NULL}
         /\ s.shown \in [intent : Nat, stage : Stages] \cup {NULL}
  BY DEF Sessions

(* What a request thread is doing.                                         *)
LEMMA DoingParts ==
  ASSUME NEW q \in Doings
  PROVE  /\ q.at = "searching" => q \in Searching
         /\ q.at = "called" => q \in Called
         /\ q.at = "dispatched" => q \in Dispatched
  BY DEF Doings, Idle, Planning, Searching, Called, Dispatched

(* Parking is no search of a provider.                                     *)
LEMMA ParkingApart == "parking" \in Capabilities /\ "parking" \notin Inventory
  BY InventoryAssumption DEF Capabilities

(* No prompt.                                                              *)
LEMMA NoPrompt == NoPending \in Prompts /\ Asked(NoPending) = {}
  <1>1. NoPending \in [{} -> Requirement] /\ {} \in SUBSET Capabilities
    BY DEF NoPending
  <1>. QED  BY <1>1 DEF Prompts, Asked, NoPending

----------------------------------------------------------------------------
(* What the changes of a requirement leave alone.                          *)

\* The same of what was searched, offered and shown.
SameSearches(s, y) == y.search = s.search /\ y.shown = s.shown /\ y.last = s.last

\* The parking request is let go, or the requirement it was made from stays.
KeptOrLetGo(s, y) == \/ y.intent = NULL
                     \/ y.intent = s.intent /\ y.need["parking"] = s.need["parking"]

\* What has been searched or shown.
Known(s) == {c \in Inventory : s.search[c] # NULL}
              \cup {c \in {"parking"} : s.shown # NULL}

(* A stale mark lets the parking request go and changes nothing else.      *)
LEMMA MarkStaleParts ==
  ASSUME NEW s \in Sessions, NEW y, y = MarkStale(s)
  PROVE  /\ y \in Sessions /\ y.intent = NULL /\ SameSearches(s, y)
         /\ y.need = s.need /\ y.lock = s.lock /\ y.cascade = s.cascade
         /\ y.pending = s.pending /\ y.auto = s.auto
  <1>1. CASE s.shown # NULL \/ s.intent # NULL
    <2>1. y = [[s EXCEPT !.stale = TRUE] EXCEPT !.intent = NULL]
      BY <1>1 DEF MarkStale
    <2>. QED  BY <2>1 DEF Sessions, SameSearches
  <1>2. CASE ~(s.shown # NULL \/ s.intent # NULL)
    BY <1>2 DEF MarkStale, SameSearches
  <1>. QED  BY <1>1, <1>2

(* New dates change the parking window only, and only a known one.         *)
LEMMA WithParkingParts ==
  ASSUME NEW s \in Sessions, NEW to \in Needs, NEW y, y = WithParking(s, to)
  PROVE  /\ y \in Sessions /\ y.intent = s.intent /\ y.stale = s.stale /\ SameSearches(s, y)
         /\ y.lock = s.lock /\ y.cascade = s.cascade
         /\ y.pending = s.pending /\ y.auto = s.auto
  <1>1. CASE s.need["parking"] = Unknown
    BY <1>1 DEF WithParking, SameSearches
  <1>2. CASE s.need["parking"] # Unknown
    <2>. DEFINE need == [s.need EXCEPT !["parking"] = to]
    <2>1. y = [s EXCEPT !.need = need]
      BY <1>2 DEF WithParking
    <2>2. need \in [Capabilities -> Requirement]
      BY ParkingApart, SessionFields DEF Requirement
    <2>. HIDE DEF need
    <2>3. y \in Sessions
      BY <2>1, <2>2 DEF Sessions
    <2>4. /\ y.intent = s.intent /\ y.stale = s.stale /\ SameSearches(s, y) /\ y.lock = s.lock
          /\ y.cascade = s.cascade /\ y.pending = s.pending /\ y.auto = s.auto
      BY <2>1 DEF Sessions, SameSearches
    <2>. QED  BY <2>3, <2>4
  <1>. QED  BY <1>1, <1>2

(* Parking dates laid over the fields let the parking request go.          *)
LEMMA OverlayParts ==
  ASSUME NEW s \in Sessions, NEW to \in Needs, NEW y, y = OverlayParkingDates(s, to)
  PROVE  /\ y \in Sessions /\ y.intent = NULL /\ SameSearches(s, y)
         /\ y.cascade = s.cascade /\ y.pending = s.pending /\ y.auto = s.auto
  <1>. DEFINE x == WithParking(s, to)
              z == [x EXCEPT !.lock = to]
  <1>1. /\ x \in Sessions /\ SameSearches(s, x)
        /\ x.cascade = s.cascade /\ x.pending = s.pending /\ x.auto = s.auto
    BY WithParkingParts
  <1>2. y = MarkStale(z)
    BY DEF OverlayParkingDates
  <1>. HIDE DEF x
  <1>3. /\ z \in Sessions /\ SameSearches(x, z)
        /\ z.cascade = x.cascade /\ z.pending = x.pending /\ z.auto = x.auto
    BY <1>1 DEF Sessions, SameSearches
  <1>. HIDE DEF z
  <1>. QED  BY <1>1, <1>2, <1>3, MarkStaleParts DEF SameSearches

(* What is searched again was searched before.                             *)
LEMMA SearchCapsParts ==
  ASSUME NEW s, NEW kinds
  PROVE  /\ InventorySearchCaps(s, kinds) \subseteq Known(s)
         /\ Known(s) \subseteq Capabilities
  BY DEF InventorySearchCaps, Known, Capabilities

(* Dates are moved.                                                        *)
LEMMA MoveDatesParts ==
  ASSUME NEW s \in Sessions, NEW scope, NEW to \in Needs, NEW y, y = MoveDates(s, scope, to)
  PROVE  /\ y \in Sessions /\ SameSearches(s, y) /\ KeptOrLetGo(s, y)
         /\ Asked(y.pending) = {} /\ y.auto \subseteq Known(s)
  <1>. DEFINE searchedFlight == "flight" \in Inventory /\ s.search["flight"] # NULL
              moved == IF scope = "all"
                       THEN Inventory \cap ({"stay"} \cup (IF searchedFlight THEN {"flight"} ELSE {}))
                       ELSE Inventory \cap {scope}
              need == [c \in Capabilities |-> IF c \in moved THEN to ELSE s.need[c]]
              cascade == IF scope = "flight" THEN to ELSE s.cascade
              auto == CASE scope = "all" -> InventorySearchCaps(s, {"flight", "stay", "parking"})
                        [] scope = "stay" -> InventorySearchCaps(s, {"stay"})
                        [] OTHER -> {}
              next == [[[[s EXCEPT !.need = need] EXCEPT !.pending = NoPending]
                            EXCEPT !.cascade = cascade] EXCEPT !.auto = auto]
  <1>1. y = IF scope \in {"all", "parking"} THEN OverlayParkingDates(next, to) ELSE next
    BY DEF MoveDates
  <1>2. moved \subseteq Inventory
    OBVIOUS
  <1>. HIDE DEF moved
  <1>3. /\ need \in [Capabilities -> Requirement] /\ need["parking"] = s.need["parking"]
        /\ cascade \in Needs \cup {NULL}
    BY <1>2, ParkingApart, SessionFields DEF Requirement
  <1>4. auto \subseteq Known(s) /\ auto \in SUBSET Capabilities
    <2>1. CASE scope = "all"
      BY <2>1, SearchCapsParts
    <2>2. CASE scope = "stay"
      BY <2>2, SearchCapsParts
    <2>3. CASE scope \notin {"all", "stay"}
      BY <2>3, SearchCapsParts
    <2>. QED  BY <2>1, <2>2, <2>3
  <1>. HIDE DEF need, cascade, auto
  <1>5. next \in Sessions
    BY <1>3, <1>4, NoPrompt DEF Sessions
  <1>6. /\ next.need = need /\ next.pending = NoPending /\ next.auto = auto
        /\ next.intent = s.intent /\ SameSearches(s, next)
    BY DEF Sessions, SameSearches
  <1>. HIDE DEF next
  <1>7. CASE scope \in {"all", "parking"}
    <2>1. /\ y \in Sessions /\ y.intent = NULL /\ SameSearches(next, y)
          /\ y.pending = next.pending /\ y.auto = next.auto
      BY <1>1, <1>5, <1>7, OverlayParts
    <2>. QED  BY <1>4, <1>6, <2>1, NoPrompt DEF SameSearches, KeptOrLetGo
  <1>8. CASE scope \notin {"all", "parking"}
    BY <1>1, <1>3, <1>4, <1>5, <1>6, <1>8, NoPrompt DEF KeptOrLetGo
  <1>. QED  BY <1>7, <1>8

(* The stay and parking follow the flight.                                 *)
LEMMA FollowCascadeParts ==
  ASSUME NEW s \in Sessions, s.cascade # NULL, NEW y, y = FollowCascade(s)
  PROVE  /\ y \in Sessions /\ SameSearches(s, y) /\ KeptOrLetGo(s, y)
         /\ Asked(y.pending) = {} /\ y.auto \subseteq Known(s)
  <1>. DEFINE need == [c \in Capabilities |-> IF c = "stay" THEN s.cascade ELSE s.need[c]]
              next == [[[s EXCEPT !.need = need] EXCEPT !.cascade = NULL] EXCEPT !.pending = NoPending]
              moved == OverlayParkingDates(next, s.cascade)
              auto == InventorySearchCaps(moved, {"flight", "stay", "parking"})
  <1>1. y = [moved EXCEPT !.auto = auto]
    BY DEF FollowCascade
  <1>2. need \in [Capabilities -> Requirement] /\ s.cascade \in Needs
    BY SessionFields DEF Requirement
  <1>. HIDE DEF need
  <1>3. next \in Sessions /\ SameSearches(s, next) /\ next.pending = NoPending
    BY <1>2, NoPrompt DEF Sessions, SameSearches
  <1>. HIDE DEF next
  <1>4. /\ moved \in Sessions /\ moved.intent = NULL /\ SameSearches(next, moved)
        /\ moved.pending = NoPending
    BY <1>2, <1>3, OverlayParts
  <1>. HIDE DEF moved
  <1>5. auto \subseteq Known(moved) /\ auto \in SUBSET Capabilities
    BY SearchCapsParts
  <1>6. Known(moved) = Known(s)
    BY <1>3, <1>4 DEF Known, SameSearches
  <1>. HIDE DEF auto
  <1>7. /\ y \in Sessions /\ SameSearches(moved, y) /\ y.intent = NULL
        /\ y.pending = NoPending /\ y.auto = auto
    BY <1>1, <1>4, <1>5 DEF Sessions, SameSearches
  <1>. QED  BY <1>3, <1>4, <1>5, <1>6, <1>7, NoPrompt DEF SameSearches, KeptOrLetGo

(* They stay where they are.                                               *)
LEMMA HoldCascadeParts ==
  ASSUME NEW s \in Sessions, NEW y, y = HoldCascade(s)
  PROVE  /\ y \in Sessions /\ SameSearches(s, y) /\ KeptOrLetGo(s, y)
         /\ Asked(y.pending) = {} /\ y.auto \subseteq Known(s)
  <1>. DEFINE auto == InventorySearchCaps(s, {"flight"})
  <1>1. y = [[[s EXCEPT !.cascade = NULL] EXCEPT !.pending = NoPending] EXCEPT !.auto = auto]
    BY DEF HoldCascade
  <1>2. auto \subseteq Known(s) /\ auto \in SUBSET Capabilities
    BY SearchCapsParts
  <1>. HIDE DEF auto
  <1>3. /\ y \in Sessions /\ SameSearches(s, y) /\ y.intent = s.intent /\ y.need = s.need
        /\ y.pending = NoPending /\ y.auto = auto
    BY <1>1, <1>2, NoPrompt DEF Sessions, SameSearches
  <1>. QED  BY <1>2, <1>3, NoPrompt DEF KeptOrLetGo

(* A message changes requirements before anything is planned.              *)
LEMMA RefineParts ==
  ASSUME NEW s \in Sessions, NEW m \in Messages, NEW y, y = Refine(s, m)
  PROVE  /\ y \in Sessions /\ SameSearches(s, y) /\ KeptOrLetGo(s, y)
         /\ Asked(y.pending) \subseteq Asked(s.pending) /\ y.auto \subseteq s.auto \cup Known(s)
  <1>1. CASE m.kind = "follow" /\ s.cascade # NULL
    <2>1. y = FollowCascade(s)
      BY <1>1 DEF Refine
    <2>. QED  BY <1>1, <2>1, FollowCascadeParts
  <1>2. CASE m.kind = "hold" /\ s.cascade # NULL
    <2>1. y = HoldCascade(s)
      BY <1>2 DEF Refine
    <2>. QED  BY <2>1, HoldCascadeParts
  <1>3. CASE m.kind = "move"
    <2>1. y = MoveDates(s, m.scope, m.to) /\ m.to \in Needs
      BY <1>3 DEF Refine, Messages
    <2>. QED  BY <2>1, MoveDatesParts
  <1>4. CASE m.kind = "revise"
    <2>. DEFINE need == [s.need EXCEPT ![m.cap] = m.to]
    <2>1. y = [[[s EXCEPT !.need = need] EXCEPT !.pending = NoPending] EXCEPT !.auto = {}]
      BY <1>4 DEF Refine
    <2>2. m.cap \in Inventory /\ m.to \in Needs
      BY <1>4 DEF Messages
    <2>3. need \in [Capabilities -> Requirement] /\ need["parking"] = s.need["parking"]
      BY <2>2, ParkingApart, SessionFields DEF Requirement, Capabilities
    <2>. HIDE DEF need
    <2>4. /\ y \in Sessions /\ SameSearches(s, y) /\ y.intent = s.intent /\ y.need = need
          /\ y.pending = NoPending /\ y.auto = {}
      BY <2>1, <2>3, NoPrompt DEF Sessions, SameSearches
    <2>. QED  BY <2>3, <2>4, NoPrompt DEF KeptOrLetGo
  <1>5. CASE /\ m.kind \notin {"move", "revise"}
             /\ ~(m.kind = "follow" /\ s.cascade # NULL)
             /\ ~(m.kind = "hold" /\ s.cascade # NULL)
    <2>1. y = s
      BY <1>5 DEF Refine
    <2>. QED  BY <2>1 DEF SameSearches, KeptOrLetGo
  <1>. QED  BY <1>1, <1>2, <1>3, <1>4, <1>5

----------------------------------------------------------------------------
(* Dates that are synced: nothing is searched, and a parking request that  *)
(* stays attached is marked no more than it was.                           *)

\* The parking request and its mark are what they were.
Unmarked(s, y) == y.intent = s.intent /\ y.stale = s.stale

DatedAgain(s, y) ==
  /\ y \in Sessions /\ SameSearches(s, y) /\ y.pending = s.pending /\ y.auto = s.auto
  /\ y.intent = NULL \/ Unmarked(s, y)

(* Two such changes in a row are one.                                      *)
LEMMA DatedTwice ==
  ASSUME NEW s, NEW x, NEW y, DatedAgain(s, x), DatedAgain(x, y)
  PROVE  DatedAgain(s, y)
  BY DEF DatedAgain, SameSearches, Unmarked

(* Nothing changes.                                                        *)
LEMMA NotDated == \A s \in Sessions : DatedAgain(s, s)
  BY DEF DatedAgain, SameSearches, Unmarked

(* Other requirements alone, and other locked dates.                       *)
LEMMA NeedWritten ==
  ASSUME NEW s \in Sessions, NEW need \in [Capabilities -> Requirement],
         NEW lock \in Needs \cup {NULL}, NEW y,
         y = [s EXCEPT !.need = need] \/ y = [s EXCEPT !.need = need, !.lock = lock]
  PROVE  DatedAgain(s, y)
  <1>1. y \in Sessions
    BY DEF Sessions
  <1>. QED  BY <1>1 DEF Sessions, DatedAgain, SameSearches, Unmarked

(* A mark lets the parking request go.                                     *)
LEMMA MarkedIsDated ==
  ASSUME NEW s \in Sessions, NEW y, y = MarkStale(s)
  PROVE  DatedAgain(s, y)
  BY MarkStaleParts DEF DatedAgain

(* The planner's patch: one of parking marks the session.                  *)
LEMMA PatchedParts ==
  ASSUME NEW s \in Sessions, NEW patch \in Patches, NEW y, y = Patched(s, patch)
  PROVE  DatedAgain(s, y)
  <1>1. CASE patch = NULL
    BY <1>1, NotDated DEF Patched
  <1>2. CASE patch # NULL
    <2>. DEFINE need == [s.need EXCEPT ![patch.cap] = patch.to]
                next == [s EXCEPT !.need = need]
    <2>1. y = IF patch.cap = "parking" THEN MarkStale(next) ELSE next
      BY <1>2 DEF Patched
    <2>2. patch.cap \in Capabilities /\ patch.to \in Needs
      BY <1>2, InventoryAssumption DEF Patches, Capabilities
    <2>3. need \in [Capabilities -> Requirement]
      BY <2>2, SessionFields DEF Requirement
    <2>. HIDE DEF need
    <2>4. DatedAgain(s, next)
      BY <2>3, NeedWritten, SessionFields
    <2>. HIDE DEF next
    <2>5. DatedAgain(next, MarkStale(next))
      BY <2>4, MarkedIsDated DEF DatedAgain
    <2>. QED  BY <2>1, <2>4, <2>5, DatedTwice
  <1>. QED  BY <1>1, <1>2

(* A window in the last message becomes the parking window and the lock.   *)
LEMMA SeedParkingParts ==
  ASSUME NEW s \in Sessions, NEW y, y = SeedParking(s)
  PROVE  DatedAgain(s, y)
  <1>1. CASE s.last.kind = "window"
    <2>. DEFINE to == s.last.to
                need == [s.need EXCEPT !["parking"] = to]
    <2>1. y = [s EXCEPT !.need = need, !.lock = to]
      BY <1>1 DEF SeedParking
    <2>2. to \in Needs
      BY <1>1, SessionFields DEF Messages
    <2>3. need \in [Capabilities -> Requirement]
      BY <2>2, ParkingApart, SessionFields DEF Requirement
    <2>. HIDE DEF need, to
    <2>. QED  BY <2>1, <2>2, <2>3, NeedWritten
  <1>2. CASE s.last.kind # "window"
    BY <1>2, NotDated DEF SeedParking
  <1>. QED  BY <1>1, <1>2

(* The last dates again let the request go, the locked ones do not.        *)
LEMMA ReapplyParts ==
  ASSUME NEW s \in Sessions, NEW y, y = ReapplyLastDates(s)
  PROVE  DatedAgain(s, y)
  <1>. DEFINE again == IF s.last.kind = "move" /\ s.last.scope \in {"all", "parking"}
                       THEN OverlayParkingDates(s, s.last.to)
                       ELSE s
  <1>1. y = IF again.lock = NULL THEN again ELSE WithParking(again, again.lock)
    BY DEF ReapplyLastDates
  <1>2. DatedAgain(s, again)
    <2>1. CASE s.last.kind = "move" /\ s.last.scope \in {"all", "parking"}
      <3>1. again = OverlayParkingDates(s, s.last.to) /\ s.last.to \in Needs
        BY <2>1, SessionFields DEF Messages
      <3>. QED  BY <3>1, OverlayParts DEF DatedAgain
    <2>2. CASE ~(s.last.kind = "move" /\ s.last.scope \in {"all", "parking"})
      BY <2>2, NotDated
    <2>. QED  BY <2>1, <2>2
  <1>. HIDE DEF again
  <1>3. CASE again.lock = NULL
    BY <1>1, <1>2, <1>3
  <1>4. CASE again.lock # NULL
    <2>1. again \in Sessions
      BY <1>2 DEF DatedAgain
    <2>2. again.lock \in Needs /\ y = WithParking(again, again.lock)
      BY <1>1, <1>4, <2>1, SessionFields
    <2>3. DatedAgain(again, y)
      BY <2>1, <2>2, WithParkingParts DEF DatedAgain, Unmarked
    <2>. QED  BY <1>2, <2>3, DatedTwice
  <1>. QED  BY <1>3, <1>4

(* Dates written in place are requirements like any other.                 *)
LEMMA DatesParts ==
  ASSUME NEW dates \in Dates
  PROVE  /\ \A c \in Redated : dates[c] \in Needs \cup {NULL}
         /\ "parking" \in Redated
  BY InventoryAssumption DEF Dates

(* Clock times said earlier are laid over the parking window.              *)
LEMMA ClocksParts ==
  ASSUME NEW s \in Sessions, NEW dates \in Dates, NEW y, y = EnsureParkingClocks(s, dates)
  PROVE  DatedAgain(s, y)
  <1>1. CASE dates["parking"] = NULL
    BY <1>1, NotDated DEF EnsureParkingClocks
  <1>2. CASE dates["parking"] # NULL
    <2>. DEFINE need == [s.need EXCEPT !["parking"] = dates["parking"]]
    <2>1. y = [s EXCEPT !.need = need]
      BY <1>2 DEF EnsureParkingClocks
    <2>2. need \in [Capabilities -> Requirement]
      BY <1>2, DatesParts, SessionFields DEF Requirement
    <2>. HIDE DEF need
    <2>. QED  BY <2>1, <2>2, NeedWritten, SessionFields
  <1>. QED  BY <1>1, <1>2

(* Days whose year was left out become those they name today.              *)
LEMMA CanonicalizeParts ==
  ASSUME NEW s \in Sessions, NEW dates \in Dates, NEW y, y = CanonicalizeDates(s, dates)
  PROVE  DatedAgain(s, y)
  <1>. DEFINE need == [c \in Capabilities |->
                         IF c \in Redated /\ s.need[c] # Unknown /\ dates[c] # NULL
                         THEN dates[c] ELSE s.need[c]]
  <1>1. y = [s EXCEPT !.need = need]
    BY DEF CanonicalizeDates
  <1>2. need \in [Capabilities -> Requirement]
    BY DatesParts, SessionFields DEF Requirement
  <1>. HIDE DEF need
  <1>. QED  BY <1>1, <1>2, NeedWritten, SessionFields

(* A sync does the one after the other.                                    *)
LEMMA SyncParts ==
  ASSUME NEW s \in Sessions, NEW patch \in Patches, NEW dates \in Dates,
         NEW y, y = SyncDomains(s, patch, dates)
  PROVE  DatedAgain(s, y)
  <1>. DEFINE a == Patched(s, patch)
              b == SeedParking(a)
              c == ReapplyLastDates(b)
  <1>1. y = EnsureParkingClocks(c, dates)
    BY DEF SyncDomains
  <1>2. DatedAgain(s, a)
    BY PatchedParts
  <1>3. DatedAgain(a, b)
    BY <1>2, SeedParkingParts DEF DatedAgain
  <1>4. DatedAgain(b, c)
    BY <1>3, ReapplyParts DEF DatedAgain
  <1>. HIDE DEF a, b, c
  <1>5. DatedAgain(c, y)
    BY <1>1, <1>4, ClocksParts DEF DatedAgain
  <1>. QED  BY <1>2, <1>3, <1>4, <1>5, DatedTwice

(* The gate is read off what is shown.                                     *)
LEMMA RefreshParts ==
  ASSUME NEW s \in Sessions, NEW y, y = RefreshPending(s)
  PROVE  /\ y \in Sessions /\ SameSearches(s, y) /\ y.pending = s.pending /\ y.auto = s.auto
         /\ y.need = s.need /\ y.lock = s.lock /\ y.intent = s.intent
         /\ y.stale = s.stale /\ y.confirmed = s.confirmed
  <1>1. PendingGate(s) \in [gate : {"A3", "A4"}, intent : Nat] \cup {NULL}
    <2>1. s.shown # NULL => s.shown.intent \in Nat
      BY SessionFields
    <2>. QED  BY <2>1 DEF PendingGate
  <1>. DEFINE gate == PendingGate(s)
  <1>2. y = [s EXCEPT !.gate = gate]
    BY DEF RefreshPending
  <1>. HIDE DEF gate
  <1>3. gate \in [gate : {"A3", "A4"}, intent : Nat] \cup {NULL}
    BY <1>1 DEF gate
  <1>. QED  BY <1>2, <1>3 DEF Sessions, SameSearches

(* The planner's answer.                                                   *)
LEMMA ApplyPlanParts ==
  ASSUME NEW s \in Sessions, NEW patch \in Patches, NEW dates \in Dates,
         NEW y, y = ApplyPlan(s, patch, dates)
  PROVE  DatedAgain(s, y)
  <1>. DEFINE a == SyncDomains(s, patch, dates)
              b == CanonicalizeDates(a, dates)
  <1>1. y = RefreshPending(b)
    BY DEF ApplyPlan
  <1>2. DatedAgain(s, a)
    BY SyncParts
  <1>3. DatedAgain(a, b)
    BY <1>2, CanonicalizeParts DEF DatedAgain
  <1>. HIDE DEF a, b
  <1>4. DatedAgain(b, y)
    BY <1>1, <1>3, RefreshParts DEF DatedAgain, Unmarked
  <1>. QED  BY <1>2, <1>3, <1>4, DatedTwice

----------------------------------------------------------------------------
(* Searches and their results.                                             *)

(* A search that was made keeps its offers and its fingerprint together.   *)
Printed(held) == held # NULL => held.of \in {NULL, held.print}

(* The results on file are those of before, some of them stale now.        *)
SameResults(s, y) ==
  \A c \in Inventory : y.search[c] # NULL => /\ s.search[c] # NULL
                                             /\ y.search[c].of = s.search[c].of
                                             /\ y.search[c].print = s.search[c].print

(* No more than the results is different.                                  *)
OnlyResults(s, y) ==
  /\ y.need = s.need /\ y.lock = s.lock /\ y.intent = s.intent /\ y.stale = s.stale /\ y.shown = s.shown
  /\ y.pending = s.pending /\ y.auto = s.auto

(* New results on file change nothing else.                                *)
LEMMA SearchUpdated ==
  ASSUME NEW s \in Sessions, NEW search \in [Inventory -> Results \cup {NULL}],
         NEW y, y = [s EXCEPT !.search = search]
  PROVE  y \in Sessions /\ y.search = search /\ OnlyResults(s, y)
  BY DEF Sessions, OnlyResults

(* Results whose requirement has moved are marked.                         *)
LEMMA InvalidateParts ==
  ASSUME NEW s \in Sessions, NEW y, y = InvalidateStaleSearches(s)
  PROVE  y \in Sessions /\ SameResults(s, y) /\ OnlyResults(s, y)
  <1>. DEFINE Mark(c) == IF s.search[c] # NULL /\ s.search[c].print # s.need[c]
                              /\ s.search[c].of # NULL
                         THEN [s.search[c] EXCEPT !.stale = TRUE]
                         ELSE s.search[c]
              search == [c \in Inventory |-> Mark(c)]
  <1>1. y = [s EXCEPT !.search = search]
    BY DEF InvalidateStaleSearches
  <1>2. ASSUME NEW c \in Inventory
        PROVE  /\ Mark(c) \in Results \cup {NULL}
               /\ Mark(c) # NULL => /\ s.search[c] # NULL
                                    /\ Mark(c).of = s.search[c].of
                                    /\ Mark(c).print = s.search[c].print
    <2>1. s.search[c] \in Results \cup {NULL}
      BY SessionFields
    <2>2. CASE s.search[c] # NULL /\ s.search[c].print # s.need[c] /\ s.search[c].of # NULL
      <3>. DEFINE m == [s.search[c] EXCEPT !.stale = TRUE]
      <3>1. m \in Results /\ m.of = s.search[c].of /\ m.print = s.search[c].print
        BY <2>1, <2>2 DEF Results
      <3>. QED  BY <2>2, <3>1
    <2>3. CASE ~(s.search[c] # NULL /\ s.search[c].print # s.need[c] /\ s.search[c].of # NULL)
      BY <2>1, <2>3
    <2>. QED  BY <2>2, <2>3
  <1>. HIDE DEF Mark
  <1>3. search \in [Inventory -> Results \cup {NULL}] /\ \A c \in Inventory : search[c] = Mark(c)
    BY <1>2
  <1>. HIDE DEF search
  <1>4. y \in Sessions /\ y.search = search /\ OnlyResults(s, y)
    BY <1>1, <1>3, SearchUpdated
  <1>. QED  BY <1>2, <1>3, <1>4 DEF SameResults

(* A prompt names capabilities.                                            *)
LEMMA BuildPendingParts ==
  ASSUME NEW s \in Sessions
  PROVE  BuildPending(s) \in Prompts
  <1>. DEFINE needed == {c \in Capabilities :
                           /\ SearchReady(s, c) \/ (c = "parking" /\ ParkingFresh(s))
                           /\ ~FreshResult(s, c)}
              prompt == [c \in needed |-> s.need[c]]
  <1>1. BuildPending(s) = IF needed = {} THEN s.pending ELSE prompt
    BY DEF BuildPending
  <1>2. needed \in SUBSET Capabilities
    OBVIOUS
  <1>. HIDE DEF needed
  <1>3. prompt \in [needed -> Requirement]
    BY <1>2, SessionFields
  <1>. HIDE DEF prompt
  <1>4. prompt \in Prompts
    BY <1>2, <1>3 DEF Prompts
  <1>. QED  BY <1>1, <1>4, SessionFields

(* What is searched was named in the prompt, or is searched again.         *)
Reconciled(s, y, todo) ==
  /\ y \in Sessions /\ SameResults(s, y)
  /\ y.need = s.need /\ y.lock = s.lock /\ y.intent = s.intent /\ y.stale = s.stale /\ y.shown = s.shown
  /\ y.auto = {} /\ Asked(y.pending) \subseteq Capabilities
  /\ todo \subseteq s.auto \cup Asked(s.pending) /\ todo \subseteq Capabilities

(* Reconciling the authorization changes the prompt and the marks only.    *)
LEMMA ReconcileParts ==
  ASSUME NEW s \in Sessions, NEW x, x = Reconcile(s)
  PROVE  Reconciled(s, x.session, x.todo)
  <1>. DEFINE y == x.session
              todo == x.todo
  <1>. DEFINE seen == InvalidateStaleSearches(s)
              quiet == [seen EXCEPT !.auto = {}]
              dropped == [quiet EXCEPT !.pending = NoPending]
              kept == IF FingerprintsMatch(seen) THEN quiet ELSE dropped
              confirmed == MatchConfirmation(kept)
              asked == [kept EXCEPT !.pending = BuildPending(kept)]
              Fine(z) == /\ z \in Sessions /\ SameResults(s, z)
                         /\ z.need = s.need /\ z.lock = s.lock /\ z.intent = s.intent /\ z.stale = s.stale
                         /\ z.shown = s.shown /\ z.auto = {}
  <1>1. seen \in Sessions /\ SameResults(s, seen) /\ OnlyResults(s, seen)
    BY InvalidateParts
  <1>2. /\ y = IF seen.cascade # NULL \/ seen.auto # {} THEN dropped
               ELSE IF confirmed # {} \/ SearchBlocked(kept) THEN kept ELSE asked
        /\ todo = IF seen.cascade # NULL THEN {}
                  ELSE IF seen.auto # {} THEN seen.auto ELSE confirmed
    BY DEF Reconcile
  <1>. HIDE DEF seen
  <1>3. Fine(quiet) /\ quiet.pending = s.pending
    BY <1>1 DEF Sessions, SameResults, OnlyResults
  <1>. HIDE DEF quiet
  <1>4. Fine(dropped) /\ dropped.pending = NoPending
    BY <1>3, NoPrompt DEF Sessions, SameResults
  <1>. HIDE DEF dropped
  <1>5. Fine(kept) /\ Asked(kept.pending) \subseteq Asked(s.pending)
    BY <1>3, <1>4, NoPrompt
  <1>. HIDE DEF kept
  <1>6. confirmed \subseteq Asked(s.pending)
    BY <1>5 DEF MatchConfirmation
  <1>. DEFINE prompt == BuildPending(kept)
  <1>7. prompt \in Prompts /\ asked = [kept EXCEPT !.pending = prompt]
    BY <1>5, BuildPendingParts
  <1>. HIDE DEF prompt
  <1>8. Fine(asked)
    BY <1>5, <1>7 DEF Sessions, SameResults
  <1>. HIDE DEF asked, confirmed
  <1>9. Fine(y)
    BY <1>2, <1>4, <1>5, <1>8
  <1>10. \A z \in Sessions : Asked(z.pending) \subseteq Capabilities
    <2>. SUFFICES ASSUME NEW z \in Sessions
                  PROVE  Asked(z.pending) \subseteq Capabilities
      OBVIOUS
    <2>. QED  BY SessionFields DEF Prompts, Asked
  <1>11. todo \subseteq s.auto \cup Asked(s.pending)
    BY <1>1, <1>2, <1>6 DEF OnlyResults
  <1>12. s.auto \subseteq Capabilities
    BY SessionFields
  <1>. HIDE DEF Fine
  <1>13. y \in Sessions /\ SameResults(s, y)
         /\ y.need = s.need /\ y.lock = s.lock /\ y.intent = s.intent /\ y.stale = s.stale /\ y.shown = s.shown
         /\ y.auto = {}
    BY <1>9 DEF Fine
  <1>. QED  BY <1>10, <1>11, <1>12, <1>13 DEF Reconciled

(* What a search leaves on file.                                           *)
LEMMA ResultParts ==
  ASSUME NEW prev \in Results \cup {NULL}, NEW c, NEW asked \in Needs,
         NEW outcome \in {"offers", "empty", "failed"},
         NEW y, y = SearchResult(prev, c, asked, outcome)
  PROVE  y \in Results /\ (c = "flight" => Printed(y))
  <1>1. CASE outcome = "failed" /\ c # "flight" /\ prev # NULL /\ prev.of # NULL
    <2>1. y = [[prev EXCEPT !.stale = TRUE] EXCEPT !.print = asked]
      BY <1>1 DEF SearchResult
    <2>. QED  BY <1>1, <2>1 DEF Results, Requirement
  <1>2. CASE ~(outcome = "failed" /\ c # "flight" /\ prev # NULL /\ prev.of # NULL)
    <2>. DEFINE of == IF outcome = "offers" THEN asked ELSE NULL
                ok == outcome # "failed"
    <2>1. y = [of |-> of, stale |-> FALSE, ok |-> ok, print |-> asked]
      BY <1>2 DEF SearchResult
    <2>2. of \in Needs \cup {NULL} /\ ok \in BOOLEAN /\ of \in {NULL, asked}
      OBVIOUS
    <2>. HIDE DEF of, ok
    <2>. QED  BY <2>1, <2>2 DEF Results, Requirement, Printed
  <1>. QED  BY <1>1, <1>2

----------------------------------------------------------------------------
(* The inductive invariant: what the variables hold, that the parking      *)
(* requests the session and its dispatches name exist, that every search   *)
(* that was made or is on its way has been named, and that what is on file *)
(* of a flight was found for its fingerprint.                              *)

ChatTypes ==
  /\ session \in Sessions /\ intents \in Seq(Made)
  /\ req \in [Requests -> Doings] /\ offered \in SUBSET Capabilities

Exists(i) == i \in 1..Len(intents)

RequestsExist ==
  /\ session.intent # NULL => Exists(session.intent)
  /\ \A r \in Requests : req[r].at = "dispatched" => Exists(req[r].intent)

(* A thread works on what has been named.                                  *)
WorksOn(q, names) ==
  /\ q.at = "searching" => q.todo \subseteq names
  /\ q.at = "called" => q.cap \in names /\ q.todo \subseteq names
  /\ q.at = "dispatched" => /\ "parking" \in names
                            /\ q.after.at = "searching" => q.after.todo \subseteq names

(* What a session has searched, will search, and asks about is named.      *)
Names(s, names) ==
  /\ Asked(s.pending) \subseteq names /\ s.auto \subseteq names
  /\ \A c \in Inventory : s.search[c] # NULL => c \in names
  /\ s.shown # NULL \/ s.intent # NULL => "parking" \in names

Named == /\ Names(session, offered)
         /\ intents # <<>> => "parking" \in offered
         /\ \A r \in Requests : WorksOn(req[r], offered)

FlightPrinted == "flight" \in Inventory => Printed(session.search["flight"])

ChatInv == ChatTypes /\ RequestsExist /\ Named /\ FlightPrinted

(* A session without a word yet.                                           *)
LEMMA OpenedParts ==
  ASSUME NEW need \in Openings, NEW y, y = Opened(need)
  PROVE  /\ y \in Sessions /\ y.intent = NULL /\ y.shown = NULL /\ y.auto = {}
         /\ \A c \in Inventory : y.search[c] = NULL
         /\ Asked(y.pending) \subseteq Capabilities
  <1>. DEFINE none == [c \in Inventory |-> NULL]
              s == [need |-> need, lock |-> NULL, cascade |-> NULL, last |-> [kind |-> "chat"],
                    pending |-> NoPending, auto |-> {}, search |-> none,
                    intent |-> NULL, shown |-> NULL, stale |-> FALSE, gate |-> NULL,
                    confirmed |-> FALSE]
  <1>1. y = Reconcile(s).session
    BY DEF Opened
  <1>2. none \in [Inventory -> Results \cup {NULL}] /\ \A c \in Inventory : none[c] = NULL
    OBVIOUS
  <1>3. need \in [Capabilities -> Requirement]
    BY InventoryAssumption DEF Capabilities, Requirement
  <1>4. [kind |-> "chat"] \in Messages
    BY DEF Messages
  <1>. HIDE DEF none
  <1>5. s \in Sessions
    BY <1>2, <1>3, <1>4, NoPrompt DEF Sessions
  <1>6. s.intent = NULL /\ s.shown = NULL /\ s.search = none
    OBVIOUS
  <1>. HIDE DEF s
  <1>7. /\ y \in Sessions /\ SameResults(s, y) /\ y.intent = s.intent /\ y.shown = s.shown
        /\ y.auto = {} /\ Asked(y.pending) \subseteq Capabilities
    BY <1>1, <1>5, ReconcileParts DEF Reconciled
  <1>. QED  BY <1>2, <1>6, <1>7 DEF SameResults

(* The opening turn.                                                       *)
LEMMA ChatStarts == Init => ChatInv
  <1>. SUFFICES ASSUME Init
                PROVE  ChatInv
    OBVIOUS
  <1>1. PICK need \in Openings : session = Opened(need)
    BY DEF Init
  <1>2. /\ session \in Sessions /\ session.intent = NULL /\ session.shown = NULL
        /\ session.auto = {} /\ \A c \in Inventory : session.search[c] = NULL
        /\ Asked(session.pending) \subseteq Capabilities
    BY <1>1, OpenedParts
  <1>3. /\ intents = <<>> /\ offered = Asked(session.pending)
        /\ \A r \in Requests : req[r] = Idle
        /\ req = [r \in Requests |-> Idle]
    BY DEF Init
  <1>4. Idle.at = "idle" /\ Idle \in Doings
    BY DEF Idle, Doings
  <1>5. ChatTypes
    BY <1>2, <1>3, <1>4 DEF ChatTypes
  <1>6. RequestsExist
    BY <1>2, <1>3, <1>4 DEF RequestsExist
  <1>7. Named
    BY <1>2, <1>3, <1>4 DEF Named, Names, WorksOn
  <1>8. FlightPrinted
    BY <1>2 DEF FlightPrinted, Printed
  <1>. QED  BY <1>5, <1>6, <1>7, <1>8 DEF ChatInv

(* More names do no harm.                                                  *)
LEMMA MoreNames ==
  ASSUME NEW names, NEW more, names \subseteq more
  PROVE  /\ \A q : WorksOn(q, names) => WorksOn(q, more)
         /\ \A s : Names(s, names) => Names(s, more)
  BY DEF WorksOn, Names

(* A thread goes on to something that has been named.                      *)
LEMMA ThreadGoesOn ==
  ASSUME ChatInv, NEW r \in Requests, NEW q \in Doings, req' = [req EXCEPT ![r] = q],
         WorksOn(q, offered'), offered \subseteq offered',
         q.at = "dispatched" => q.intent \in 1..Len(intents'),
         Len(intents) <= Len(intents'), Len(intents') \in Nat
  PROVE  /\ req' \in [Requests -> Doings]
         /\ \A p \in Requests : WorksOn(req'[p], offered')
         /\ \A p \in Requests : req'[p].at = "dispatched" => req'[p].intent \in 1..Len(intents')
  <1>1. req \in [Requests -> Doings]
    BY DEF ChatInv, ChatTypes
  <1>2. \A p \in Requests : req'[p] = IF p = r THEN q ELSE req[p]
    BY <1>1
  <1>3. \A p \in Requests : WorksOn(req[p], offered')
    BY MoreNames DEF ChatInv, Named
  <1>4. \A p \in Requests : req[p].at = "dispatched" => req[p].intent \in 1..Len(intents')
    <2>1. Len(intents) \in Nat
      BY LenProperties DEF ChatInv, ChatTypes
    <2>. QED  BY <2>1 DEF ChatInv, RequestsExist, Exists
  <1>. QED  BY <1>1, <1>2, <1>3, <1>4

(* What is searched or shown has been named.                               *)
LEMMA KnownIsNamed ==
  ASSUME NEW s, NEW names, Names(s, names)
  PROVE  Known(s) \subseteq names
  BY DEF Names, Known

(* A session that changed its requirements only is as good as before.      *)
LEMMA NamesKept ==
  ASSUME NEW s, NEW y, NEW names, Names(s, names), y.search = s.search, y.shown = s.shown,
         Asked(y.pending) \subseteq names, y.auto \subseteq names,
         y.intent = NULL \/ y.intent = s.intent
  PROVE  Names(y, names)
  BY DEF Names

(* A message.                                                              *)
LEMMA TurnStep ==
  ASSUME ChatInv, NEW r \in Requests, NEW m \in Messages, Turn(r, m)
  PROVE  ChatInv'
  <1>. DEFINE s == [session EXCEPT !.last = m]
  <1>1. /\ session' = Refine(s, m) /\ req' = [req EXCEPT ![r] = Planning]
        /\ intents' = intents /\ offered' = offered
    BY DEF Turn
  <1>2. ChatTypes /\ RequestsExist /\ Named /\ FlightPrinted
    BY DEF ChatInv
  <1>3. /\ s \in Sessions /\ s.search = session.search /\ s.shown = session.shown
        /\ s.pending = session.pending /\ s.auto = session.auto /\ s.intent = session.intent
    BY <1>2 DEF ChatTypes, Sessions
  <1>. HIDE DEF s
  <1>4. Names(s, offered)
    BY <1>2, <1>3 DEF Named, Names
  <1>5. /\ session' \in Sessions /\ SameSearches(s, session') /\ KeptOrLetGo(s, session')
        /\ Asked(session'.pending) \subseteq Asked(s.pending)
        /\ session'.auto \subseteq s.auto \cup Known(s)
    BY <1>1, <1>3, RefineParts
  <1>6. Names(session', offered)
    <2>1. /\ session'.search = s.search /\ session'.shown = s.shown
          /\ session'.intent = NULL \/ session'.intent = s.intent
      BY <1>5 DEF SameSearches, KeptOrLetGo
    <2>2. Asked(session'.pending) \subseteq offered /\ session'.auto \subseteq offered
      BY <1>4, <1>5, KnownIsNamed DEF Names
    <2>. QED  BY <1>4, <2>1, <2>2, NamesKept
  <1>7. Planning.at = "planning" /\ Planning \in Doings
    BY DEF Planning, Doings
  <1>8. Len(intents) \in Nat
    BY <1>2, LenProperties DEF ChatTypes
  <1>9. WorksOn(Planning, offered')
    BY <1>7 DEF WorksOn
  <1>10. /\ req' \in [Requests -> Doings]
         /\ \A p \in Requests : WorksOn(req'[p], offered')
         /\ \A p \in Requests : req'[p].at = "dispatched" => req'[p].intent \in 1..Len(intents')
    <2>1. offered \subseteq offered' /\ Planning.at # "dispatched"
      BY <1>1, <1>7
    <2>2. Len(intents) <= Len(intents') /\ Len(intents') \in Nat
      BY <1>1, <1>8
    <2>. QED  BY <1>1, <1>7, <1>9, <2>1, <2>2, ThreadGoesOn
  <1>11. ChatTypes'
    BY <1>1, <1>2, <1>5, <1>10 DEF ChatTypes
  <1>12. RequestsExist'
    BY <1>1, <1>2, <1>3, <1>5, <1>10 DEF RequestsExist, KeptOrLetGo, Exists
  <1>13. Named'
    BY <1>1, <1>2, <1>6, <1>10 DEF Named
  <1>14. FlightPrinted'
    BY <1>2, <1>3, <1>5 DEF FlightPrinted, SameSearches
  <1>. QED  BY <1>11, <1>12, <1>13, <1>14 DEF ChatInv

(* A session whose dates were read again.                                  *)
LEMMA DatedNames ==
  ASSUME NEW s, NEW y, NEW names, Names(s, names), DatedAgain(s, y)
  PROVE  /\ y \in Sessions /\ Names(y, names) /\ y.search = s.search
         /\ y.intent = NULL \/ y.intent = s.intent
  <1>1. /\ y \in Sessions /\ y.search = s.search /\ y.shown = s.shown
        /\ y.pending = s.pending /\ y.auto = s.auto
        /\ y.intent = NULL \/ y.intent = s.intent
    BY DEF DatedAgain, SameSearches, Unmarked
  <1>2. Asked(y.pending) \subseteq names /\ y.auto \subseteq names
    BY <1>1 DEF Names
  <1>. QED  BY <1>1, <1>2, NamesKept

(* What is planned is asked for, or searched if it had been asked for.     *)
LEMMA ContinueStep ==
  ASSUME ChatInv, NEW r \in Requests, NEW s \in Sessions, Continue(r, s),
         Names(s, offered), s.search = session.search,
         s.intent = NULL \/ s.intent = session.intent
  PROVE  ChatInv'
  <1>. DEFINE todo == Reconcile(s).todo
              y == Reconcile(s).session
              q == IF todo = {} THEN Idle ELSE SearchingFor(todo)
  <1>1. /\ session' = y /\ req' = [req EXCEPT ![r] = q]
        /\ offered' = offered \cup Asked(session'.pending) /\ intents' = intents
    BY DEF Continue
  <1>2. ChatTypes /\ RequestsExist /\ Named /\ FlightPrinted
    BY DEF ChatInv
  <1>3. /\ y \in Sessions /\ SameResults(s, y)
        /\ y.intent = s.intent /\ y.shown = s.shown
        /\ y.auto = {} /\ Asked(y.pending) \subseteq Capabilities
        /\ todo \subseteq s.auto \cup Asked(s.pending) /\ todo \subseteq Capabilities
    BY ReconcileParts DEF Reconciled
  <1>. HIDE DEF todo, y
  <1>4. todo \subseteq offered
    BY <1>3 DEF Names
  <1>5. q \in Doings /\ WorksOn(q, offered') /\ q.at # "dispatched"
    <2>1. CASE todo = {}
      BY <2>1 DEF Idle, Doings, WorksOn
    <2>2. CASE todo # {}
      <3>1. q = [at |-> "searching", todo |-> todo]
        BY <2>2 DEF SearchingFor
      <3>. QED  BY <1>1, <1>3, <1>4, <3>1 DEF Searching, Doings, WorksOn
    <2>. QED  BY <2>1, <2>2
  <1>. HIDE DEF q
  <1>6. Len(intents) \in Nat
    BY <1>2, LenProperties DEF ChatTypes
  <1>7. /\ req' \in [Requests -> Doings]
        /\ \A p \in Requests : WorksOn(req'[p], offered')
        /\ \A p \in Requests : req'[p].at = "dispatched" => req'[p].intent \in 1..Len(intents')
    <2>1. offered \subseteq offered'
      BY <1>1
    <2>2. Len(intents) <= Len(intents') /\ Len(intents') \in Nat
      BY <1>1, <1>6
    <2>. QED  BY <1>1, <1>5, <2>1, <2>2, ThreadGoesOn
  <1>8. ChatTypes'
    BY <1>1, <1>2, <1>3, <1>7 DEF ChatTypes
  <1>9. RequestsExist'
    BY <1>1, <1>2, <1>3, <1>7 DEF RequestsExist, Exists
  <1>10. Named'
    <2>1. Names(session', offered')
      BY <1>1, <1>3 DEF Names, SameResults
    <2>. QED  BY <1>1, <1>2, <1>7, <2>1 DEF Named
  <1>11. FlightPrinted'
    BY <1>1, <1>2, <1>3 DEF FlightPrinted, SameResults, Printed
  <1>. QED  BY <1>8, <1>9, <1>10, <1>11 DEF ChatInv

(* The planner answers.                                                    *)
LEMMA PlanReturnsStep ==
  ASSUME ChatInv, NEW r \in Requests, NEW patch \in Patches, NEW dates \in Dates,
         PlanReturns(r, patch, dates)
  PROVE  ChatInv'
  <1>. DEFINE s == ApplyPlan(session, patch, dates)
  <1>1. Continue(r, s)
    BY DEF PlanReturns
  <1>2. session \in Sessions /\ Names(session, offered)
    BY DEF ChatInv, ChatTypes, Named
  <1>3. DatedAgain(session, s)
    BY <1>2, ApplyPlanParts
  <1>. HIDE DEF s
  <1>4. /\ s \in Sessions /\ Names(s, offered) /\ s.search = session.search
        /\ s.intent = NULL \/ s.intent = session.intent
    BY <1>2, <1>3, DatedNames
  <1>. QED  BY <1>1, <1>4, ContinueStep

(* A thread stops or goes on, and nothing else happens.                    *)
LEMMA ThreadOnly ==
  ASSUME ChatInv, NEW r \in Requests, NEW q \in Doings, req' = [req EXCEPT ![r] = q],
         WorksOn(q, offered), q.at # "dispatched", UNCHANGED <<session, intents, offered>>
  PROVE  ChatInv'
  <1>1. ChatTypes /\ RequestsExist /\ Named /\ FlightPrinted
    BY DEF ChatInv
  <1>2. Len(intents) \in Nat
    BY <1>1, LenProperties DEF ChatTypes
  <1>3. /\ req' \in [Requests -> Doings]
        /\ \A p \in Requests : WorksOn(req'[p], offered')
        /\ \A p \in Requests : req'[p].at = "dispatched" => req'[p].intent \in 1..Len(intents')
    <2>1. offered \subseteq offered' /\ WorksOn(q, offered')
      OBVIOUS
    <2>2. Len(intents) <= Len(intents') /\ Len(intents') \in Nat
      BY <1>2
    <2>. QED  BY <2>1, <2>2, ThreadGoesOn
  <1>. QED  BY <1>1, <1>3 DEF ChatInv, ChatTypes, RequestsExist, Named, FlightPrinted, Exists

(* An idle thread works on nothing.                                        *)
LEMMA IdleParts == \A names : Idle \in Doings /\ WorksOn(Idle, names) /\ Idle.at = "idle"
  BY DEF Idle, Doings, WorksOn

(* The planner fails.                                                      *)
LEMMA PlanFailsStep ==
  ASSUME ChatInv, NEW r \in Requests, PlanFails(r)
  PROVE  ChatInv'
  <1>1. session \in Sessions /\ Names(session, offered)
    BY DEF ChatInv, ChatTypes, Named
  <1>2. CASE /\ req' = [req EXCEPT ![r] = Idle]
             /\ UNCHANGED <<session, intents, turns, offered>>
    BY <1>2, IdleParts, ThreadOnly
  <1>3. CASE Continue(r, session)
    BY <1>1, <1>3, ContinueStep
  <1>. QED  BY <1>2, <1>3 DEF PlanFails

(* A search changes the results on file and what its thread does.          *)
LEMMA ResultsMove ==
  ASSUME ChatInv, NEW r \in Requests, NEW q \in Doings, req' = [req EXCEPT ![r] = q],
         WorksOn(q, offered), q.at # "dispatched", UNCHANGED <<intents, offered>>,
         session' \in Sessions, OnlyResults(session, session'),
         \A c \in Inventory : session'.search[c] # NULL => c \in offered,
         FlightPrinted'
  PROVE  ChatInv'
  <1>1. ChatTypes /\ RequestsExist /\ Named
    BY DEF ChatInv
  <1>2. Len(intents) \in Nat
    BY <1>1, LenProperties DEF ChatTypes
  <1>3. /\ req' \in [Requests -> Doings]
        /\ \A p \in Requests : WorksOn(req'[p], offered')
        /\ \A p \in Requests : req'[p].at = "dispatched" => req'[p].intent \in 1..Len(intents')
    <2>1. offered \subseteq offered' /\ WorksOn(q, offered')
      OBVIOUS
    <2>2. Len(intents) <= Len(intents') /\ Len(intents') \in Nat
      BY <1>2
    <2>. QED  BY <2>1, <2>2, ThreadGoesOn
  <1>4. Names(session', offered)
    BY <1>1 DEF Named, Names, OnlyResults
  <1>5. ChatTypes' /\ Named'
    BY <1>1, <1>3, <1>4 DEF ChatTypes, Named
  <1>6. RequestsExist'
    BY <1>1, <1>3 DEF RequestsExist, OnlyResults, Exists
  <1>. QED  BY <1>5, <1>6 DEF ChatInv

(* The dispatch comes to a capability that was named.                      *)
LEMMA ComesToParts ==
  ASSUME ChatInv, NEW r \in Requests, NEW c, ComesTo(r, c)
  PROVE  /\ c \in offered /\ c \in Capabilities
         /\ SearchingFor(Without(r, c)) \in Searching
         /\ SearchingFor(Without(r, c)) \in Doings
         /\ WorksOn(SearchingFor(Without(r, c)), offered)
         /\ SearchingFor(Without(r, c)).at = "searching"
         /\ Without(r, c) \subseteq offered /\ Without(r, c) \in SUBSET Capabilities
  <1>1. req[r] \in Doings /\ WorksOn(req[r], offered) /\ offered \subseteq Capabilities
    BY DEF ChatInv, ChatTypes, Named
  <1>2. req[r].todo \subseteq offered /\ c \in req[r].todo
    BY <1>1 DEF ComesTo, WorksOn
  <1>3. Without(r, c) \subseteq offered
    BY <1>2 DEF Without
  <1>. DEFINE todo == Without(r, c)
  <1>. HIDE DEF todo
  <1>4. todo = Without(r, c)
    BY DEF todo
  <1>5. SearchingFor(todo) = [at |-> "searching", todo |-> todo]
    BY DEF SearchingFor
  <1>6. SearchingFor(todo) \in Searching
    BY <1>1, <1>3, <1>4, <1>5 DEF Searching
  <1>7. WorksOn(SearchingFor(todo), offered) /\ SearchingFor(todo).at = "searching"
    BY <1>3, <1>4, <1>5 DEF WorksOn
  <1>. QED  BY <1>1, <1>2, <1>3, <1>4, <1>6, <1>7 DEF Doings

(* The result on file for one search is another one.                       *)
OneResult(s, y, c, x) == /\ y \in Sessions /\ OnlyResults(s, y)
                         /\ \A d \in Inventory : y.search[d] = IF d = c THEN x ELSE s.search[d]

(* Replacing it changes nothing else.                                      *)
LEMMA ResultReplaced ==
  ASSUME NEW s \in Sessions, NEW c \in Inventory, NEW x \in Results,
         NEW search, search = [s.search EXCEPT ![c] = x],
         NEW y, y = [s EXCEPT !.search = search]
  PROVE  OneResult(s, y, c, x)
  <1>1. y = [s EXCEPT !.search = search]
    OBVIOUS
  <1>2. /\ search \in [Inventory -> Results \cup {NULL}]
        /\ \A d \in Inventory : search[d] = IF d = c THEN x ELSE s.search[d]
    BY SessionFields
  <1>3. y \in Sessions /\ y.search = search /\ OnlyResults(s, y)
    BY <1>1, <1>2, SearchUpdated
  <1>. QED  BY <1>2, <1>3 DEF OneResult

(* A search that a session has on file keeps its offers and fingerprint.   *)
LEMMA MarkedResult ==
  ASSUME NEW x \in Results, NEW b \in BOOLEAN, NEW y, y = [x EXCEPT !.stale = b]
  PROVE  y \in Results /\ y.of = x.of /\ y.print = x.print
  BY DEF Results

(* The results of a search are on file, or it cannot be made.              *)
LEMMA SearchAtHandStep ==
  ASSUME ChatInv, NEW r \in Requests, NEW c \in Capabilities, SearchAtHand(r, c)
  PROVE  ChatInv'
  <1>. DEFINE q == SearchingFor(Without(r, c))
  <1>1. ComesTo(r, c) /\ req' = [req EXCEPT ![r] = q] /\ UNCHANGED <<intents, offered>>
    BY DEF SearchAtHand
  <1>2. c \in offered /\ q \in Doings /\ WorksOn(q, offered) /\ q.at # "dispatched"
    <2>1. q.at = "searching" /\ "searching" # "dispatched"
      BY <1>1, ComesToParts
    <2>. QED  BY <1>1, <2>1, ComesToParts
  <1>. HIDE DEF q
  <1>3. ChatTypes /\ Named /\ FlightPrinted
    BY DEF ChatInv
  <1>4. CASE ~SearchReady(session, c)
    <2>1. session' = session
      BY <1>4 DEF SearchAtHand
    <2>. QED  BY <1>1, <1>2, <2>1, ThreadOnly
  <1>5. CASE SearchReady(session, c)
    <2>. DEFINE x == session.search[c]
                z == [x EXCEPT !.stale = FALSE]
    <2>1. c \in Inventory /\ x # NULL /\ session' = [session EXCEPT !.search[c].stale = FALSE]
      BY <1>5 DEF SearchAtHand, Reusable, Reused
    <2>2. session \in Sessions /\ x \in Results
      BY <1>3, <2>1, SessionFields DEF ChatTypes
    <2>3. session' = [session EXCEPT !.search[c] = z]
      BY <2>1
    <2>4. z \in Results /\ z.of = x.of /\ z.print = x.print
      BY <2>2, MarkedResult
    <2>. HIDE DEF x, z
    <2>5. OneResult(session, session', c, z)
      <3>. DEFINE search == [session.search EXCEPT ![c] = z]
      <3>1. /\ c \in Inventory /\ session \in Sessions /\ z \in Results
            /\ search = [session.search EXCEPT ![c] = z]
        BY <2>1, <2>2, <2>4
      <3>2. session' = [session EXCEPT !.search = search]
        BY <2>3
      <3>. HIDE DEF search
      <3>. QED  BY <3>1, <3>2, ResultReplaced
    <2>6. \A d \in Inventory : session'.search[d] # NULL => d \in offered
      BY <1>2, <1>3, <2>5 DEF Named, Names, OneResult
    <2>7. FlightPrinted'
      BY <1>3, <2>1, <2>4, <2>5 DEF FlightPrinted, Printed, OneResult, x
    <2>. QED  BY <1>1, <1>2, <2>5, <2>6, <2>7, ResultsMove DEF OneResult
  <1>. QED  BY <1>4, <1>5

(* A provider is asked.                                                    *)
LEMMA CallProviderStep ==
  ASSUME ChatInv, NEW r \in Requests, NEW c \in Inventory, CallProvider(r, c)
  PROVE  ChatInv'
  <1>. DEFINE todo == Without(r, c)
              q == [at |-> "called", cap |-> c, todo |-> todo,
                    asked |-> session.need[c], prev |-> session.search[c]]
  <1>1. /\ ComesTo(r, c) /\ req' = [req EXCEPT ![r] = q] /\ UNCHANGED <<intents, offered>>
        /\ session' = Researching(session, c) /\ SearchReady(session, c)
    BY DEF CallProvider
  <1>2. c \in offered /\ todo \subseteq offered /\ todo \in SUBSET Capabilities
    BY <1>1, ComesToParts
  <1>3. ChatTypes /\ Named /\ FlightPrinted
    BY DEF ChatInv
  <1>. HIDE DEF todo
  <1>4. session.need[c] \in Needs /\ session.search[c] \in Results \cup {NULL}
    BY <1>1, <1>3, SessionFields DEF ChatTypes, SearchReady, Requirement, Capabilities
  <1>5. q \in Called /\ q.at = "called" /\ q.cap = c /\ q.todo = todo
    BY <1>2, <1>4 DEF Called
  <1>. HIDE DEF q
  <1>6. q \in Doings /\ WorksOn(q, offered) /\ q.at # "dispatched"
    BY <1>2, <1>5 DEF Doings, WorksOn
  <1>7. CASE c # "flight" /\ session.search[c] # NULL /\ session.search[c].of # NULL
    <2>. DEFINE x == session.search[c]
                z == [x EXCEPT !.stale = TRUE]
    <2>1. session' = [session EXCEPT !.search[c] = z]
      BY <1>1, <1>7 DEF Researching
    <2>2. x \in Results /\ session \in Sessions
      BY <1>3, <1>4, <1>7 DEF ChatTypes
    <2>3. z \in Results
      BY <2>2, MarkedResult
    <2>. HIDE DEF z
    <2>4. OneResult(session, session', c, z)
      <3>. DEFINE search == [session.search EXCEPT ![c] = z]
      <3>1. /\ session' = [session EXCEPT !.search = search]
            /\ search = [session.search EXCEPT ![c] = z]
        BY <2>1
      <3>. HIDE DEF search
      <3>. QED  BY <2>2, <2>3, <3>1, ResultReplaced
    <2>5. \A d \in Inventory : session'.search[d] # NULL => d \in offered
      BY <1>2, <1>3, <2>4 DEF Named, Names, OneResult
    <2>6. FlightPrinted'
      BY <1>3, <1>7, <2>4 DEF FlightPrinted, Printed, OneResult
    <2>. QED  BY <1>1, <1>6, <2>4, <2>5, <2>6, ResultsMove DEF OneResult
  <1>8. CASE ~(c # "flight" /\ session.search[c] # NULL /\ session.search[c].of # NULL)
    <2>1. session' = session
      BY <1>1, <1>8 DEF Researching
    <2>. QED  BY <1>1, <1>6, <2>1, ThreadOnly
  <1>. QED  BY <1>7, <1>8

(* What a thread that waits for a provider goes on with.                   *)
LEMMA CalledParts ==
  ASSUME ChatInv, NEW r \in Requests, req[r].at = "called"
  PROVE  /\ req[r].cap \in Inventory /\ req[r].asked \in Needs
         /\ req[r].prev \in Results \cup {NULL} /\ req[r].cap \in offered
         /\ SearchingFor(req[r].todo) \in Doings /\ WorksOn(SearchingFor(req[r].todo), offered)
         /\ SearchingFor(req[r].todo).at # "dispatched"
  <1>. DEFINE todo == req[r].todo
  <1>1. req[r] \in Called
    BY DoingParts DEF ChatInv, ChatTypes
  <1>2. req[r].cap \in offered /\ todo \subseteq offered
    BY DEF ChatInv, Named, WorksOn
  <1>3. todo \in SUBSET Capabilities
    BY <1>1 DEF Called
  <1>. HIDE DEF todo
  <1>4. SearchingFor(todo) = [at |-> "searching", todo |-> todo]
    BY DEF SearchingFor
  <1>5. /\ SearchingFor(todo) \in Doings /\ WorksOn(SearchingFor(todo), offered)
        /\ SearchingFor(todo).at # "dispatched"
    BY <1>2, <1>3, <1>4 DEF Doings, Searching, WorksOn
  <1>. QED  BY <1>1, <1>2, <1>5 DEF Called, todo

(* The provider answers, or failed.                                        *)
LEMMA ProviderAnswersStep ==
  ASSUME ChatInv, NEW r \in Requests, NEW outcome \in {"offers", "empty", "failed"},
         ProviderAnswers(r, outcome)
  PROVE  ChatInv'
  <1>. DEFINE c == req[r].cap
              q == SearchingFor(req[r].todo)
              x == SearchResult(req[r].prev, c, req[r].asked, outcome)
  <1>1. /\ req[r].at = "called" /\ req' = [req EXCEPT ![r] = q]
        /\ UNCHANGED <<intents, offered>> /\ session' = [session EXCEPT !.search[c] = x]
    BY DEF ProviderAnswers
  <1>2. /\ c \in Inventory /\ c \in offered /\ q \in Doings /\ WorksOn(q, offered)
        /\ q.at # "dispatched"
    BY <1>1, CalledParts
  <1>3. x \in Results /\ (c = "flight" => Printed(x))
    BY <1>1, CalledParts, ResultParts
  <1>. HIDE DEF c, q, x
  <1>4. ChatTypes /\ Named /\ FlightPrinted
    BY DEF ChatInv
  <1>5. OneResult(session, session', c, x)
    <2>1. session \in Sessions
      BY <1>4 DEF ChatTypes
    <2>. DEFINE search == [session.search EXCEPT ![c] = x]
    <2>2. session' = [session EXCEPT !.search = search]
      BY <1>1
    <2>3. c \in Inventory /\ x \in Results /\ search = [session.search EXCEPT ![c] = x]
      BY <1>2, <1>3
    <2>. HIDE DEF search
    <2>. QED  BY <2>1, <2>2, <2>3, ResultReplaced
  <1>6. \A d \in Inventory : session'.search[d] # NULL => d \in offered
    BY <1>2, <1>4, <1>5 DEF Named, Names, OneResult
  <1>7. FlightPrinted'
    BY <1>3, <1>4, <1>5 DEF FlightPrinted, Printed, OneResult
  <1>. QED  BY <1>1, <1>2, <1>5, <1>6, <1>7, ResultsMove DEF OneResult

(* The request ends where it is.                                           *)
LEMMA ProviderBreaksStep ==
  ASSUME ChatInv, NEW r \in Requests, ProviderBreaks(r)
  PROVE  ChatInv'
  BY IdleParts, ThreadOnly DEF ProviderBreaks

(* The prompt has been answered.                                           *)
LEMMA EndSearchesStep ==
  ASSUME ChatInv, NEW r \in Requests, EndSearches(r)
  PROVE  ChatInv'
  <1>. DEFINE s == [session EXCEPT !.pending = NoPending]
  <1>1. /\ session' = RefreshPending(s) /\ req' = [req EXCEPT ![r] = Idle]
        /\ UNCHANGED <<intents, offered>>
    BY DEF EndSearches
  <1>2. ChatTypes /\ RequestsExist /\ Named /\ FlightPrinted
    BY DEF ChatInv
  <1>3. /\ s \in Sessions /\ SameSearches(session, s) /\ s.auto = session.auto
        /\ s.intent = session.intent /\ s.pending = NoPending
    BY <1>2, NoPrompt DEF ChatTypes, Sessions, SameSearches
  <1>. HIDE DEF s
  <1>4. /\ session' \in Sessions /\ SameSearches(s, session') /\ session'.pending = s.pending
        /\ session'.auto = s.auto /\ session'.intent = s.intent
    BY <1>1, <1>3, RefreshParts
  <1>5. Len(intents) \in Nat
    BY <1>2, LenProperties DEF ChatTypes
  <1>6. /\ req' \in [Requests -> Doings]
        /\ \A p \in Requests : WorksOn(req'[p], offered')
        /\ \A p \in Requests : req'[p].at = "dispatched" => req'[p].intent \in 1..Len(intents')
    <2>1. offered \subseteq offered' /\ WorksOn(Idle, offered') /\ Idle \in Doings
      BY <1>1, IdleParts
    <2>2. Len(intents) <= Len(intents') /\ Len(intents') \in Nat
      BY <1>1, <1>5
    <2>3. Idle.at # "dispatched"
      BY IdleParts
    <2>. QED  BY <1>1, <2>1, <2>2, <2>3, ThreadGoesOn
  <1>7. Names(session', offered)
    BY <1>2, <1>3, <1>4, NoPrompt DEF Named, Names, SameSearches
  <1>8. ChatTypes' /\ Named'
    BY <1>1, <1>2, <1>4, <1>6, <1>7 DEF ChatTypes, Named
  <1>9. RequestsExist'
    BY <1>1, <1>2, <1>3, <1>4, <1>6 DEF RequestsExist, Exists
  <1>10. FlightPrinted'
    BY <1>2, <1>3, <1>4 DEF FlightPrinted, SameSearches
  <1>. QED  BY <1>8, <1>9, <1>10 DEF ChatInv

----------------------------------------------------------------------------
(* Parking requests.                                                       *)

(* The requests made so far stay, and the one a dispatch works on exists.  *)
Grown(made, i) ==
  /\ made \in Seq(Made) /\ Len(intents) <= Len(made) /\ Len(made) \in Nat
  /\ i \in Nat /\ i \in 1..Len(made)
  /\ \A j \in 1..Len(intents) : made[j] = intents[j]
  /\ session.intent = NULL => made[i].need = session.need["parking"]
  /\ session.intent # NULL => i = session.intent /\ made = intents

(* A dispatch takes the request of the session, or makes one.              *)
LEMMA RequestMade ==
  ASSUME ChatInv, NEW made, made = IntentsFor(session), NEW i, i = DispatchIntent(session)
  PROVE  Grown(made, i)
  <1>1. session \in Sessions /\ intents \in Seq(Made) /\ Len(intents) \in Nat
    BY LenProperties DEF ChatInv, ChatTypes
  <1>2. CASE session.intent # NULL
    <2>1. made = intents /\ i = session.intent /\ i \in 1..Len(intents)
      BY <1>2 DEF IntentsFor, DispatchIntent, ChatInv, RequestsExist, Exists
    <2>. QED  BY <1>1, <1>2, <2>1 DEF Grown
  <1>3. CASE session.intent = NULL
    <2>. DEFINE x == [need |-> session.need["parking"], stage |-> "confirmed"]
    <2>1. made = Append(intents, x) /\ i = Len(intents) + 1
      BY <1>3 DEF IntentsFor, DispatchIntent
    <2>2. x \in Made /\ x.need = session.need["parking"]
      BY <1>1, ParkingApart, SessionFields DEF Made, Stages
    <2>. HIDE DEF x
    <2>3. /\ made \in Seq(Made) /\ Len(made) = Len(intents) + 1
          /\ \A j \in 1..Len(intents) : made[j] = intents[j]
          /\ made[Len(intents) + 1] = x
      BY <1>1, <2>1, <2>2, AppendProperties
    <2>. QED  BY <1>1, <1>3, <2>1, <2>2, <2>3 DEF Grown
  <1>. QED  BY <1>2, <1>3

(* A request whose stage changed is still the request for what it was.     *)
LEMMA RequestMoved ==
  ASSUME intents \in Seq(Made), NEW i \in 1..Len(intents), NEW stage \in Stages,
         NEW made, made = [intents EXCEPT ![i].stage = stage]
  PROVE  /\ made \in Seq(Made) /\ Len(made) = Len(intents)
         /\ \A j \in 1..Len(intents) : made[j].need = intents[j].need
  <1>. DEFINE x == [intents[i] EXCEPT !.stage = stage]
  <1>1. Len(intents) \in Nat /\ intents[i] \in Made
    BY LenProperties, ElementOfSeq
  <1>2. x \in Made /\ x.need = intents[i].need
    BY <1>1 DEF Made
  <1>3. made = [intents EXCEPT ![i] = x]
    OBVIOUS
  <1>. HIDE DEF x
  <1>. QED  BY <1>1, <1>2, <1>3, ExceptSeq

(* The session shows request i, and kept what it needs and searched.       *)
Turned(s, y, i) == /\ y \in Sessions /\ y.intent = i /\ y.need = s.need /\ y.lock = s.lock
                   /\ y.search = s.search /\ y.pending = s.pending /\ y.auto = s.auto

(* The snapshot of a request is shown.                                     *)
LEMMA ShowingParts ==
  ASSUME NEW s \in Sessions, NEW i \in Nat, NEW stage \in Stages, NEW b \in BOOLEAN,
         NEW x, x = [Showing(s, i, stage) EXCEPT !.confirmed = b],
         NEW y, y = RefreshPending(x)
  PROVE  Turned(s, y, i)
  <1>. DEFINE shown == [intent |-> i, stage |-> stage]
  <1>1. x = [[[[s EXCEPT !.shown = shown] EXCEPT !.stale = FALSE] EXCEPT !.intent = i]
                       EXCEPT !.confirmed = b]
    BY DEF Showing
  <1>2. shown \in [intent : Nat, stage : Stages]
    OBVIOUS
  <1>. HIDE DEF shown
  <1>3. /\ x \in Sessions /\ x.intent = i /\ x.need = s.need /\ x.lock = s.lock
        /\ x.search = s.search /\ x.pending = s.pending /\ x.auto = s.auto
    BY <1>1, <1>2 DEF Sessions
  <1>. QED  BY <1>3, RefreshParts DEF SameSearches, Turned

(* What a session that shows or forgets a parking request keeps.           *)
LEMMA NamesStay ==
  ASSUME NEW s, NEW y, NEW names, Names(s, names), y.search = s.search,
         y.pending = s.pending, y.auto = s.auto,
         "parking" \in names
  PROVE  Names(y, names)
  BY DEF Names

(* The session, the requests and a thread move on.                         *)
LEMMA SessionMoves ==
  ASSUME ChatInv, session' \in Sessions, intents' \in Seq(Made),
         offered \subseteq offered', offered' \subseteq Capabilities,
         Names(session', offered'), session'.search = session.search,
         session'.intent # NULL => session'.intent \in 1..Len(intents'),
         intents' = <<>> \/ "parking" \in offered',
         req' \in [Requests -> Doings],
         \A p \in Requests : WorksOn(req'[p], offered'),
         \A p \in Requests : req'[p].at = "dispatched" => req'[p].intent \in 1..Len(intents')
  PROVE  ChatInv'
  <1>1. ChatTypes'
    BY DEF ChatTypes
  <1>2. RequestsExist'
    BY DEF RequestsExist, Exists
  <1>3. Named'
    BY DEF Named
  <1>4. FlightPrinted'
    BY DEF ChatInv, FlightPrinted
  <1>. QED  BY <1>1, <1>2, <1>3, <1>4 DEF ChatInv

(* A dispatch starts.                                                      *)
LEMMA DispatchStarts ==
  ASSUME ChatInv, NEW r \in Requests, NEW after \in {Idle} \cup Searching, StartDispatch(r, after),
         offered \subseteq offered', offered' \subseteq Capabilities, "parking" \in offered',
         after.at = "searching" => after.todo \subseteq offered'
  PROVE  ChatInv'
  <1>. DEFINE i == DispatchIntent(session)
              made == IntentsFor(session)
              q == [at |-> "dispatched", intent |-> i, after |-> after]
  <1>1. /\ session' = [session EXCEPT !.intent = i] /\ intents' = made
        /\ req' = [req EXCEPT ![r] = q]
    BY DEF StartDispatch
  <1>2. Grown(made, i)
    BY RequestMade
  <1>. HIDE DEF i, made
  <1>3. q \in Dispatched /\ q.at = "dispatched" /\ q.intent = i /\ q.after = after
    BY <1>2 DEF Dispatched, Grown
  <1>. HIDE DEF q
  <1>4. q \in Doings /\ WorksOn(q, offered')
    BY <1>3 DEF Doings, WorksOn
  <1>5. session \in Sessions /\ Names(session, offered)
    BY DEF ChatInv, ChatTypes, Named
  <1>6. /\ session' \in Sessions /\ session'.intent = i /\ session'.search = session.search
        /\ session'.pending = session.pending /\ session'.auto = session.auto
    BY <1>1, <1>2, <1>5 DEF Sessions, Grown
  <1>7. Names(session', offered')
    <2>1. Names(session, offered')
      BY <1>5, MoreNames
    <2>. QED  BY <1>6, <2>1, NamesStay
  <1>8. /\ intents' \in Seq(Made) /\ Len(intents) <= Len(intents') /\ Len(intents') \in Nat
        /\ i \in 1..Len(intents')
    BY <1>1, <1>2 DEF Grown
  <1>9. /\ req' \in [Requests -> Doings]
        /\ \A p \in Requests : WorksOn(req'[p], offered')
        /\ \A p \in Requests : req'[p].at = "dispatched" => req'[p].intent \in 1..Len(intents')
    <2>1. q.at = "dispatched" => q.intent \in 1..Len(intents')
      BY <1>3, <1>8
    <2>. QED  BY <1>1, <1>4, <1>8, <2>1, ThreadGoesOn
  <1>. QED  BY <1>6, <1>7, <1>8, <1>9, SessionMoves

(* The dispatch of a turn comes to parking.                                *)
LEMMA SearchParkingStep ==
  ASSUME ChatInv, NEW r \in Requests, SearchParking(r)
  PROVE  ChatInv'
  <1>. DEFINE after == SearchingFor(Without(r, "parking"))
  <1>1. ComesTo(r, "parking") /\ StartDispatch(r, after) /\ offered' = offered
    BY DEF SearchParking
  <1>2. /\ "parking" \in offered /\ after \in Searching /\ after.at = "searching"
        /\ WorksOn(after, offered)
    BY <1>1, ComesToParts
  <1>. HIDE DEF after
  <1>3. /\ offered \subseteq offered' /\ offered' \subseteq Capabilities
        /\ after.at = "searching" => after.todo \subseteq offered'
        /\ after \in {Idle} \cup Searching /\ "parking" \in offered'
    BY <1>1, <1>2 DEF ChatInv, ChatTypes, WorksOn
  <1>. QED  BY <1>1, <1>3, DispatchStarts

(* The buyer grants A2.                                                    *)
LEMMA GrantA2Step ==
  ASSUME ChatInv, NEW r \in Requests, GrantA2(r)
  PROVE  ChatInv'
  <1>1. StartDispatch(r, Idle) /\ offered' = offered \cup {"parking"}
    BY DEF GrantA2
  <1>2. /\ offered \subseteq offered' /\ offered' \subseteq Capabilities
        /\ Idle.at = "searching" => Idle.todo \subseteq offered'
        /\ Idle \in {Idle} \cup Searching /\ "parking" \in offered'
    BY <1>1, ParkingApart, IdleParts DEF ChatInv, ChatTypes
  <1>. QED  BY <1>1, <1>2, DispatchStarts

(* What a thread that waits for suppliers goes on with.                    *)
LEMMA DispatchedParts ==
  ASSUME ChatInv, NEW r \in Requests, req[r].at = "dispatched"
  PROVE  /\ req[r].after \in Doings /\ WorksOn(req[r].after, offered)
         /\ req[r].after.at # "dispatched" /\ req[r].after.at \in {"idle", "searching"}
         /\ "parking" \in offered
         /\ req[r].intent \in 1..Len(intents) /\ req[r].intent \in Nat
  <1>. DEFINE after == req[r].after
  <1>1. req[r] \in Dispatched
    BY DoingParts DEF ChatInv, ChatTypes
  <1>2. after \in {Idle} \cup Searching /\ req[r].intent \in Nat
    BY <1>1 DEF Dispatched
  <1>3. /\ "parking" \in offered
        /\ after.at = "searching" => after.todo \subseteq offered
    BY DEF ChatInv, Named, WorksOn
  <1>4. req[r].intent \in 1..Len(intents)
    BY DEF ChatInv, RequestsExist, Exists
  <1>. HIDE DEF after
  <1>5. /\ after \in Doings /\ WorksOn(after, offered)
        /\ after.at # "dispatched" /\ after.at \in {"idle", "searching"}
    BY <1>2, <1>3, IdleParts DEF Doings, Searching, WorksOn
  <1>. QED  BY <1>2, <1>3, <1>4, <1>5 DEF after

(* Suppliers answered.                                                     *)
LEMMA DispatchReturnsStep ==
  ASSUME ChatInv, NEW r \in Requests, NEW stage \in {"offers", "empty"}, DispatchReturns(r, stage)
  PROVE  ChatInv'
  <1>. DEFINE i == req[r].intent
              now == IF intents[i].stage = "confirmed" THEN stage ELSE intents[i].stage
              granted == req[r].after = Idle
              b == Showing(session, i, now).confirmed \/ granted
              x == [Showing(session, i, now) EXCEPT !.confirmed = b]
              q == req[r].after
  <1>1. /\ req[r].at = "dispatched" /\ intents' = [intents EXCEPT ![i].stage = now]
        /\ session' = RefreshPending(x)
        /\ req' = [req EXCEPT ![r] = q] /\ offered' = offered
    BY DEF DispatchReturns
  <1>2. /\ q \in Doings /\ WorksOn(q, offered) /\ q.at # "dispatched" /\ "parking" \in offered
        /\ i \in 1..Len(intents) /\ i \in Nat
    BY <1>1, DispatchedParts
  <1>. HIDE DEF i, q
  <1>3. /\ session \in Sessions /\ Names(session, offered) /\ intents \in Seq(Made)
        /\ offered \subseteq Capabilities
    BY DEF ChatInv, ChatTypes, Named
  <1>4. Len(intents) \in Nat /\ intents[i] \in Made
    BY <1>2, <1>3, LenProperties, ElementOfSeq
  <1>5. now \in Stages /\ b \in BOOLEAN
    BY <1>4 DEF Made, Stages
  <1>. HIDE DEF now, b
  <1>11. x = [Showing(session, i, now) EXCEPT !.confirmed = b]
    OBVIOUS
  <1>. HIDE DEF x
  <1>6. intents' \in Seq(Made) /\ Len(intents') = Len(intents)
    BY <1>1, <1>2, <1>3, <1>5, RequestMoved
  <1>12. Turned(session, session', i)
    BY <1>1, <1>2, <1>3, <1>5, <1>11, ShowingParts
  <1>7. /\ session' \in Sessions /\ session'.intent = i
        /\ session'.search = session.search /\ session'.pending = session.pending
        /\ session'.auto = session.auto
    BY <1>12 DEF Turned
  <1>8. Names(session', offered)
    BY <1>2, <1>3, <1>7, NamesStay
  <1>9. /\ req' \in [Requests -> Doings]
        /\ \A p \in Requests : WorksOn(req'[p], offered')
        /\ \A p \in Requests : req'[p].at = "dispatched" => req'[p].intent \in 1..Len(intents')
    <2>1. offered \subseteq offered' /\ WorksOn(q, offered')
      BY <1>1, <1>2
    <2>2. Len(intents) <= Len(intents') /\ Len(intents') \in Nat
      BY <1>4, <1>6
    <2>. QED  BY <1>1, <1>2, <2>1, <2>2, ThreadGoesOn
  <1>10. /\ offered \subseteq offered' /\ offered' \subseteq Capabilities
         /\ Names(session', offered') /\ "parking" \in offered'
         /\ session'.intent # NULL => session'.intent \in 1..Len(intents')
    BY <1>1, <1>2, <1>3, <1>6, <1>7, <1>8
  <1>. QED  BY <1>6, <1>7, <1>9, <1>10, SessionMoves

(* The dispatch is refused.                                                *)
LEMMA DispatchFailsStep ==
  ASSUME ChatInv, NEW r \in Requests, DispatchFails(r)
  PROVE  ChatInv'
  <1>. DEFINE q == req[r].after
  <1>1. /\ req[r].at = "dispatched" /\ req' = [req EXCEPT ![r] = q]
        /\ UNCHANGED <<session, intents, offered>>
    BY DEF DispatchFails
  <1>2. q \in Doings /\ WorksOn(q, offered) /\ q.at # "dispatched"
    BY <1>1, DispatchedParts
  <1>. HIDE DEF q
  <1>. QED  BY <1>1, <1>2, ThreadOnly

(* Threads that do nothing stay as good as they were.                      *)
LEMMA ThreadsRest ==
  ASSUME ChatInv, req' = req, offered' = offered, Len(intents') = Len(intents)
  PROVE  /\ req' \in [Requests -> Doings]
         /\ \A p \in Requests : WorksOn(req'[p], offered')
         /\ \A p \in Requests : req'[p].at = "dispatched" => req'[p].intent \in 1..Len(intents')
  BY DEF ChatInv, ChatTypes, Named, RequestsExist, Exists

(* The buyer grants A3 or A4.                                              *)
LEMMA GrantStep ==
  ASSUME ChatInv, NEW gate, NEW from, NEW to \in Stages, Grant(gate, from, to)
  PROVE  ChatInv'
  <1>. DEFINE i == session.intent
              x == [Showing(session, i, to) EXCEPT !.confirmed = TRUE]
  <1>1. /\ i # NULL /\ intents' = [intents EXCEPT ![i].stage = to]
        /\ session' = RefreshPending(x)
        /\ req' = req /\ offered' = offered
    BY DEF Grant
  <1>2. /\ session \in Sessions /\ Names(session, offered) /\ intents \in Seq(Made)
        /\ offered \subseteq Capabilities
    BY DEF ChatInv, ChatTypes, Named
  <1>3. i \in 1..Len(intents) /\ i \in Nat /\ "parking" \in offered
    <2>1. i \in Nat
      BY <1>1, <1>2, SessionFields
    <2>. QED  BY <1>1, <1>2, <2>1 DEF ChatInv, RequestsExist, Exists, Names
  <1>. HIDE DEF i
  <1>4. intents' \in Seq(Made) /\ Len(intents') = Len(intents)
    BY <1>1, <1>2, <1>3, RequestMoved
  <1>9. x = [Showing(session, i, to) EXCEPT !.confirmed = TRUE]
    OBVIOUS
  <1>. HIDE DEF x
  <1>10. Turned(session, session', i)
    BY <1>1, <1>2, <1>3, <1>9, ShowingParts
  <1>5. /\ session' \in Sessions /\ session'.intent = i
        /\ session'.search = session.search /\ session'.pending = session.pending
        /\ session'.auto = session.auto
    BY <1>10 DEF Turned
  <1>6. Names(session', offered)
    BY <1>2, <1>3, <1>5, NamesStay
  <1>7. /\ offered \subseteq offered' /\ offered' \subseteq Capabilities
        /\ Names(session', offered') /\ "parking" \in offered'
        /\ session'.intent # NULL => session'.intent \in 1..Len(intents')
    BY <1>1, <1>2, <1>3, <1>4, <1>5, <1>6
  <1>8. /\ req' \in [Requests -> Doings]
        /\ \A p \in Requests : WorksOn(req'[p], offered')
        /\ \A p \in Requests : req'[p].at = "dispatched" => req'[p].intent \in 1..Len(intents')
    BY <1>1, <1>4, ThreadsRest
  <1>. QED  BY <1>4, <1>5, <1>7, <1>8, SessionMoves

(* The session alone moves on: its requirements and its gate.              *)
LEMMA TalkOnly ==
  ASSUME ChatInv, UNCHANGED <<intents, req, offered>>, session' \in Sessions,
         Names(session', offered), session'.search = session.search,
         session'.intent = NULL \/ session'.intent = session.intent
  PROVE  ChatInv'
  <1>1. /\ intents \in Seq(Made) /\ offered \subseteq Capabilities
        /\ intents = <<>> \/ "parking" \in offered
        /\ session.intent # NULL => session.intent \in 1..Len(intents)
    BY DEF ChatInv, ChatTypes, Named, RequestsExist, Exists
  <1>2. /\ intents' \in Seq(Made) /\ offered \subseteq offered' /\ offered' \subseteq Capabilities
        /\ intents' = <<>> \/ "parking" \in offered'
        /\ session'.intent # NULL => session'.intent \in 1..Len(intents')
        /\ Names(session', offered')
    BY <1>1
  <1>3. /\ req' \in [Requests -> Doings]
        /\ \A p \in Requests : WorksOn(req'[p], offered')
        /\ \A p \in Requests : req'[p].at = "dispatched" => req'[p].intent \in 1..Len(intents')
    BY ThreadsRest
  <1>. QED  BY <1>2, <1>3, SessionMoves

(* The parking form is edited.                                             *)
LEMMA DirectPatchStep ==
  ASSUME ChatInv, NEW to \in Needs, DirectPatch(to)
  PROVE  ChatInv' /\ session'.intent = NULL
  <1>. DEFINE need == [session.need EXCEPT !["parking"] = to]
              s == [session EXCEPT !.need = need]
              x == MarkStale(s)
  <1>1. session' = RefreshPending(x) /\ UNCHANGED <<intents, req, offered>>
    BY DEF DirectPatch
  <1>2. session \in Sessions /\ Names(session, offered)
    BY DEF ChatInv, ChatTypes, Named
  <1>3. need \in [Capabilities -> Requirement]
    BY <1>2, SessionFields DEF Requirement
  <1>. HIDE DEF need
  <1>4. /\ s \in Sessions /\ SameSearches(session, s) /\ s.pending = session.pending
        /\ s.auto = session.auto
    BY <1>2, <1>3 DEF Sessions, SameSearches
  <1>. HIDE DEF s
  <1>5. /\ x \in Sessions /\ x.intent = NULL /\ SameSearches(s, x) /\ x.pending = s.pending
        /\ x.auto = s.auto
    BY <1>4, MarkStaleParts
  <1>. HIDE DEF x
  <1>6. /\ session' \in Sessions /\ SameSearches(x, session') /\ session'.pending = x.pending
        /\ session'.auto = x.auto /\ session'.intent = x.intent
    BY <1>1, <1>5, RefreshParts
  <1>7. Names(session', offered) /\ session'.search = session.search /\ session'.intent = NULL
    <2>1. /\ session'.search = session.search /\ session'.shown = session.shown
          /\ session'.pending = session.pending /\ session'.auto = session.auto
          /\ session'.intent = NULL
      BY <1>4, <1>5, <1>6 DEF SameSearches
    <2>2. Asked(session'.pending) \subseteq offered /\ session'.auto \subseteq offered
      BY <1>2, <2>1 DEF Names
    <2>. QED  BY <1>2, <2>1, <2>2, NamesKept
  <1>. QED  BY <1>1, <1>6, <1>7, TalkOnly

(* The buyer confirms.                                                     *)
LEMMA ConfirmStep ==
  ASSUME ChatInv, NEW reread \in BOOLEAN, NEW dates \in ClockDates, Confirm(reread, dates)
  PROVE  ChatInv' /\ DatedAgain(session, session') /\ SyncStep
  <1>. DEFINE s == IF reread THEN MarkStale(session) ELSE session
              synced == SyncDomains(s, NULL, dates)
              x == [synced EXCEPT !.confirmed = TRUE]
  <1>1. /\ ~session.confirmed
        /\ session' = RefreshPending(x) /\ UNCHANGED <<intents, req, offered>>
    BY DEF Confirm
  <1>2. session \in Sessions /\ Names(session, offered)
    BY DEF ChatInv, ChatTypes, Named
  <1>3. DatedAgain(session, s)
    BY <1>2, MarkedIsDated, NotDated
  <1>4. DatedAgain(s, synced)
    <2>1. NULL \in Patches /\ dates \in Dates
      BY DEF Patches, ClockDates
    <2>. QED  BY <1>3, <2>1, SyncParts DEF DatedAgain
  <1>. HIDE DEF s, synced
  <1>5. DatedAgain(synced, x) /\ x.confirmed = TRUE
    BY <1>4 DEF DatedAgain, Sessions, SameSearches, Unmarked
  <1>. HIDE DEF x
  <1>6. DatedAgain(x, session') /\ session'.confirmed = TRUE
    BY <1>1, <1>5, RefreshParts DEF DatedAgain, Unmarked
  <1>7. DatedAgain(session, session')
    BY <1>3, <1>4, <1>5, <1>6, DatedTwice
  <1>8. /\ Names(session', offered) /\ session'.search = session.search
        /\ session'.intent = NULL \/ session'.intent = session.intent
    BY <1>2, <1>7, DatedNames
  <1>9. ChatInv'
    BY <1>1, <1>7, <1>8, TalkOnly DEF DatedAgain
  <1>. QED  BY <1>1, <1>6, <1>7, <1>9 DEF SyncStep

(* Every step keeps the invariant.                                         *)
LEMMA ChatGoesOn ==
  ASSUME ChatInv, [Next]_vars
  PROVE  ChatInv'
  <1>1. ASSUME NEW r \in Requests, Request(r)
        PROVE  ChatInv'
    <2>1. CASE \E m \in Messages : Turn(r, m)
      BY <2>1, TurnStep
    <2>2. CASE \E patch \in Patches, dates \in Dates : PlanReturns(r, patch, dates)
      BY <2>2, PlanReturnsStep
    <2>3. CASE PlanFails(r)
      BY <2>3, PlanFailsStep
    <2>4. CASE \E c \in Capabilities : SearchAtHand(r, c)
      BY <2>4, SearchAtHandStep
    <2>5. CASE \E c \in Inventory : CallProvider(r, c)
      BY <2>5, CallProviderStep
    <2>6. CASE \E outcome \in {"offers", "empty", "failed"} : ProviderAnswers(r, outcome)
      BY <2>6, ProviderAnswersStep
    <2>7. CASE ProviderBreaks(r)
      BY <2>7, ProviderBreaksStep
    <2>8. CASE SearchParking(r)
      BY <2>8, SearchParkingStep
    <2>9. CASE GrantA2(r)
      BY <2>9, GrantA2Step
    <2>10. CASE \E stage \in {"offers", "empty"} : DispatchReturns(r, stage)
      BY <2>10, DispatchReturnsStep
    <2>11. CASE DispatchFails(r)
      BY <2>11, DispatchFailsStep
    <2>12. CASE EndSearches(r)
      BY <2>12, EndSearchesStep
    <2>. QED  BY <1>1, <2>1, <2>2, <2>3, <2>4, <2>5, <2>6, <2>7, <2>8, <2>9, <2>10, <2>11,
                 <2>12 DEF Request
  <1>2. CASE GrantA3 \/ GrantA4
    <2>1. "accepted" \in Stages /\ "authorized" \in Stages
      BY DEF Stages
    <2>. QED  BY <1>2, <2>1, GrantStep DEF GrantA3, GrantA4
  <1>3. CASE \E to \in Needs : DirectPatch(to)
    BY <1>3, DirectPatchStep
  <1>4. CASE \E reread \in BOOLEAN, dates \in ClockDates : Confirm(reread, dates)
    BY <1>4, ConfirmStep
  <1>5. CASE UNCHANGED vars
    BY <1>5 DEF vars, ChatInv, ChatTypes, RequestsExist, Exists, Named, FlightPrinted
  <1>. QED  BY <1>1, <1>2, <1>3, <1>4, <1>5 DEF Next

(***************************************************************************)
(* However many requests work on one chat at once, the session, its        *)
(* parking requests and the threads keep their shape: what the session and *)
(* a waiting dispatch name exists, what a dispatch loop still has to do    *)
(* had been named in a prompt or granted, and flight offers lie beside the *)
(* fingerprint they were found for.                                        *)
(***************************************************************************)
THEOREM ChatInvariance == Spec => []ChatInv
  <1>1. Init => ChatInv
    BY ChatStarts
  <1>2. ChatInv /\ [Next]_vars => ChatInv'
    BY ChatGoesOn
  <1>. QED  BY <1>1, <1>2, PTL DEF Spec

(***************************************************************************)
(* Flight results the session takes for fresh, so that the dispatch loop   *)
(* does not search again, are results for the flight the buyer now needs   *)
(* (agent_session.py:2258, 3228-3278).                                     *)
(***************************************************************************)
THEOREM FreshFlights == Spec => []FreshFlightIsCurrent
  <1>1. ChatInv => FreshFlightIsCurrent
    <2>1. "flight" # "parking"
      OBVIOUS
    <2>. QED  BY <2>1 DEF ChatInv, FlightPrinted, Printed, FreshFlightIsCurrent, FreshResult
  <1>. QED  BY <1>1, ChatInvariance, PTL

(***************************************************************************)
(* Nothing is searched that was not asked about, automatic searches after  *)
(* moved dates included, and a parking request is created only once        *)
(* parking had been named or A2 granted (agent_session.py:2407, 1914).     *)
(***************************************************************************)
THEOREM SearchesWereOffered == Spec => []SearchedWasOffered
  <1>1. ChatInv => SearchedWasOffered
    BY DEF ChatInv, Named, Names, SearchedWasOffered
  <1>. QED  BY <1>1, ChatInvariance, PTL

----------------------------------------------------------------------------
(* Which steps may leave a held parking request behind the requirement.    *)

\* What OnlyDatesInPlaceAndLateAnswersMisdate says of one step.
Excused ==
  (HeldIntentIsCurrent(session, intents) /\ ~HeldIntentIsCurrent(session', intents')) =>
     \/ /\ SyncStep
        /\ session'.intent = session.intent
        /\ session'.stale = session.stale
     \/ \E r \in Requests : /\ req[r].at = "dispatched"
                           /\ req'[r] # req[r]
                           /\ session.intent # req[r].intent

(* A request let go, or a requirement that stays, needs no excuse.         *)
LEMMA KeptIsExcused ==
  ASSUME KeptOrLetGo(session, session'), intents' = intents
  PROVE  Excused
  BY DEF KeptOrLetGo, Excused, HeldIntentIsCurrent

(* Dates written in place are excused when a sync wrote them.              *)
LEMMA DatedIsExcused ==
  ASSUME DatedAgain(session, session'), SyncStep
  PROVE  Excused
  BY DEF DatedAgain, Unmarked, Excused, HeldIntentIsCurrent

(* What is reconciled was dated before.                                    *)
LEMMA ContinueIsExcused ==
  ASSUME NEW r, NEW s \in Sessions, Continue(r, s)
  PROVE  /\ KeptOrLetGo(session, s) => Excused
         /\ DatedAgain(session, s) /\ SyncStep => Excused
  <1>. DEFINE x == Reconcile(s)
              y == x.session
  <1>1. session' = y /\ intents' = intents
    BY DEF Continue
  <1>2. Reconciled(s, y, x.todo)
    BY ReconcileParts
  <1>. HIDE DEF y
  <1>3. y.need = s.need /\ y.intent = s.intent /\ y.stale = s.stale
    BY <1>2 DEF Reconciled
  <1>4. KeptOrLetGo(session, s) => KeptOrLetGo(session, session')
    BY <1>1, <1>3 DEF KeptOrLetGo
  <1>5. DatedAgain(session, s) /\ SyncStep => Excused
    BY <1>1, <1>3 DEF DatedAgain, Unmarked, Excused, HeldIntentIsCurrent
  <1>. QED  BY <1>1, <1>4, <1>5, KeptIsExcused

(* A message.                                                              *)
LEMMA TurnIsExcused ==
  ASSUME ChatInv, NEW r, NEW m \in Messages, Turn(r, m)
  PROVE  Excused
  <1>. DEFINE s == [session EXCEPT !.last = m]
  <1>1. session' = Refine(s, m) /\ intents' = intents
    BY DEF Turn
  <1>2. s \in Sessions /\ s.intent = session.intent /\ s.need = session.need
    BY DEF ChatInv, ChatTypes, Sessions
  <1>. HIDE DEF s
  <1>3. KeptOrLetGo(s, session')
    BY <1>1, <1>2, RefineParts
  <1>4. KeptOrLetGo(session, session')
    BY <1>2, <1>3 DEF KeptOrLetGo
  <1>. QED  BY <1>1, <1>4, KeptIsExcused

(* The planner returns.                                                    *)
LEMMA PlanIsExcused ==
  ASSUME ChatInv, NEW r \in Requests, NEW patch \in Patches, NEW dates \in Dates,
         PlanReturns(r, patch, dates)
  PROVE  Excused
  <1>1. session \in Sessions /\ req \in [Requests -> Doings]
    BY DEF ChatInv, ChatTypes
  <1>. DEFINE s == ApplyPlan(session, patch, dates)
              q == IF Reconcile(s).todo = {} THEN Idle ELSE SearchingFor(Reconcile(s).todo)
  <1>2. Continue(r, s) /\ req[r] = Planning /\ req' = [req EXCEPT ![r] = q]
    BY DEF PlanReturns, Continue
  <1>3. q.at # Planning.at
    BY DEF Planning, Idle, SearchingFor
  <1>4. DatedAgain(session, s)
    BY <1>1, ApplyPlanParts
  <1>. HIDE DEF s, q
  <1>5. req'[r] = q
    BY <1>1, <1>2
  <1>6. SyncStep
    BY <1>2, <1>3, <1>5 DEF SyncStep
  <1>. QED  BY <1>2, <1>4, <1>6, ContinueIsExcused DEF DatedAgain

(* The planner fails.                                                      *)
LEMMA PlanFailureIsExcused ==
  ASSUME ChatInv, NEW r, PlanFails(r)
  PROVE  Excused
  <1>1. session \in Sessions
    BY DEF ChatInv, ChatTypes
  <1>2. CASE Continue(r, session)
    BY <1>1, <1>2, ContinueIsExcused DEF KeptOrLetGo
  <1>3. CASE UNCHANGED <<session, intents>>
    BY <1>3, KeptIsExcused DEF KeptOrLetGo
  <1>. QED  BY <1>2, <1>3 DEF PlanFails

(* A search changes no requirement.                                        *)
LEMMA SearchIsExcused ==
  ASSUME ChatInv, NEW r, NEW c \in Capabilities, NEW outcome,
         \/ SearchAtHand(r, c)
         \/ CallProvider(r, c)
         \/ ProviderAnswers(r, outcome)
         \/ ProviderBreaks(r)
         \/ EndSearches(r)
  PROVE  Excused
  <1>1. session \in Sessions
    BY DEF ChatInv, ChatTypes
  <1>3. CASE SearchAtHand(r, c)
    BY <1>1, <1>3, KeptIsExcused DEF SearchAtHand, Reused, KeptOrLetGo, Sessions
  <1>4. CASE CallProvider(r, c)
    BY <1>1, <1>4, KeptIsExcused DEF CallProvider, Researching, KeptOrLetGo, Sessions
  <1>5. CASE ProviderAnswers(r, outcome)
    BY <1>1, <1>5, KeptIsExcused DEF ProviderAnswers, KeptOrLetGo, Sessions
  <1>6. CASE ProviderBreaks(r)
    BY <1>6, KeptIsExcused DEF ProviderBreaks, KeptOrLetGo
  <1>7. CASE EndSearches(r)
    BY <1>1, <1>7, KeptIsExcused DEF EndSearches, RefreshPending, KeptOrLetGo, Sessions
  <1>. QED  BY <1>3, <1>4, <1>5, <1>6, <1>7

(* A dispatch takes the request it has, or makes one for what is needed.   *)
LEMMA DispatchIsExcused ==
  ASSUME ChatInv, NEW r, NEW after, StartDispatch(r, after)
  PROVE  Excused
  <1>. DEFINE i == DispatchIntent(session)
              made == IntentsFor(session)
  <1>1. session' = [session EXCEPT !.intent = i] /\ intents' = made
    BY DEF StartDispatch
  <1>2. Grown(made, i)
    BY RequestMade
  <1>. HIDE DEF i, made
  <1>3. session'.need = session.need /\ session'.intent = i
    BY <1>1 DEF ChatInv, ChatTypes, Sessions
  <1>. QED  BY <1>1, <1>2, <1>3 DEF Grown, Excused, HeldIntentIsCurrent

(* An answer is excused when its request was withdrawn meanwhile.          *)
LEMMA ReturnIsExcused ==
  ASSUME ChatInv, NEW r \in Requests, NEW stage \in {"offers", "empty"}, DispatchReturns(r, stage)
  PROVE  Excused
  <1>. DEFINE i == req[r].intent
              now == IF intents[i].stage = "confirmed" THEN stage ELSE intents[i].stage
              granted == req[r].after = Idle
              b == Showing(session, i, now).confirmed \/ granted
              x == [Showing(session, i, now) EXCEPT !.confirmed = b]
              q == req[r].after
  <1>1. /\ req[r].at = "dispatched" /\ intents' = [intents EXCEPT ![i].stage = now]
        /\ session' = RefreshPending(x) /\ req' = [req EXCEPT ![r] = q]
    BY DEF DispatchReturns
  <1>2. q.at # "dispatched" /\ i \in 1..Len(intents) /\ i \in Nat
    BY <1>1, DispatchedParts
  <1>. HIDE DEF q
  <1>3. /\ session \in Sessions /\ intents \in Seq(Made) /\ req \in [Requests -> Doings]
    BY DEF ChatInv, ChatTypes
  <1>4. req'[r] # req[r]
    BY <1>1, <1>2, <1>3
  <1>5. CASE session.intent # i
    BY <1>1, <1>4, <1>5 DEF Excused
  <1>6. CASE session.intent = i
    <2>1. intents[i] \in Made
      BY <1>2, <1>3, ElementOfSeq
    <2>2. now \in Stages /\ b \in BOOLEAN
      BY <1>3, <2>1 DEF Made, Stages, Showing, Sessions
    <2>. HIDE DEF i, now, b
    <2>3. x = [Showing(session, i, now) EXCEPT !.confirmed = b]
      OBVIOUS
    <2>. HIDE DEF x
    <2>4. Turned(session, session', i)
      BY <1>1, <1>2, <1>3, <2>2, <2>3, ShowingParts
    <2>5. intents'[i].need = intents[i].need
      BY <1>1, <1>2, <1>3, <2>2, RequestMoved
    <2>6. session'.intent = i /\ session'.need = session.need
      BY <2>4 DEF Turned
    <2>. QED  BY <1>6, <2>5, <2>6 DEF Excused, HeldIntentIsCurrent
  <1>. QED  BY <1>5, <1>6

(* A grant acts on the request that is held.                               *)
LEMMA GrantIsExcused ==
  ASSUME ChatInv, NEW gate, NEW from, NEW to \in Stages, Grant(gate, from, to)
  PROVE  Excused
  <1>. DEFINE i == session.intent
              x == [Showing(session, i, to) EXCEPT !.confirmed = TRUE]
  <1>1. /\ i # NULL /\ intents' = [intents EXCEPT ![i].stage = to]
        /\ session' = RefreshPending(x)
    BY DEF Grant
  <1>2. session \in Sessions /\ intents \in Seq(Made)
    BY DEF ChatInv, ChatTypes
  <1>3. i \in 1..Len(intents) /\ i \in Nat
    <2>1. i \in Nat
      BY <1>1, <1>2, SessionFields
    <2>. QED  BY <1>1, <2>1 DEF ChatInv, RequestsExist, Exists
  <1>7. i = session.intent
    OBVIOUS
  <1>. HIDE DEF i
  <1>4. x = [Showing(session, i, to) EXCEPT !.confirmed = TRUE]
    OBVIOUS
  <1>. HIDE DEF x
  <1>5. Turned(session, session', i)
    BY <1>1, <1>2, <1>3, <1>4, ShowingParts
  <1>6. intents'[i].need = intents[i].need
    BY <1>1, <1>2, <1>3, RequestMoved
  <1>8. session'.intent = i /\ session'.need = session.need
    BY <1>5 DEF Turned
  <1>. QED  BY <1>6, <1>7, <1>8 DEF Excused, HeldIntentIsCurrent

(* Every step is excused.                                                  *)
LEMMA StepIsExcused ==
  ASSUME ChatInv, Next
  PROVE  Excused
  <1>1. ASSUME NEW r \in Requests, Request(r)
        PROVE  Excused
    <2>1. CASE \E m \in Messages : Turn(r, m)
      BY <2>1, TurnIsExcused
    <2>2. CASE \E patch \in Patches, dates \in Dates : PlanReturns(r, patch, dates)
      BY <2>2, PlanIsExcused
    <2>7. CASE PlanFails(r)
      BY <2>7, PlanFailureIsExcused
    <2>3. CASE \/ \E c \in Capabilities : SearchAtHand(r, c)
               \/ \E c \in Inventory : CallProvider(r, c)
               \/ \E outcome \in {"offers", "empty", "failed"} : ProviderAnswers(r, outcome)
               \/ ProviderBreaks(r)
               \/ EndSearches(r)
      <3>1. "parking" \in Capabilities /\ Inventory \subseteq Capabilities
        BY ParkingApart DEF Capabilities
      <3>. QED  BY <2>3, <3>1, SearchIsExcused
    <2>4. CASE SearchParking(r) \/ GrantA2(r)
      BY <2>4, DispatchIsExcused DEF SearchParking, GrantA2
    <2>5. CASE \E stage \in {"offers", "empty"} : DispatchReturns(r, stage)
      BY <2>5, ReturnIsExcused
    <2>6. CASE DispatchFails(r)
      BY <2>6, KeptIsExcused DEF DispatchFails, KeptOrLetGo
    <2>. QED  BY <1>1, <2>1, <2>2, <2>3, <2>4, <2>5, <2>6, <2>7 DEF Request
  <1>2. CASE GrantA3 \/ GrantA4
    <2>1. "accepted" \in Stages /\ "authorized" \in Stages
      BY DEF Stages
    <2>. QED  BY <1>2, <2>1, GrantIsExcused DEF GrantA3, GrantA4
  <1>3. CASE \E to \in Needs : DirectPatch(to)
    <2>1. session'.intent = NULL /\ intents' = intents
      BY <1>3, DirectPatchStep DEF DirectPatch
    <2>. QED  BY <2>1, KeptIsExcused DEF KeptOrLetGo
  <1>4. CASE \E reread \in BOOLEAN, dates \in ClockDates : Confirm(reread, dates)
    BY <1>4, ConfirmStep, DatedIsExcused
  <1>. QED  BY <1>1, <1>2, <1>3, <1>4 DEF Next

(***************************************************************************)
(* A grant acts on a parking request made from the requirement on display, *)
(* unless a sync (the planner's answer, the confirmation of the plan)      *)
(* wrote dates in place, which leaves the request attached and marks       *)
(* nothing, or the answer to a dispatch came after its request had been    *)
(* withdrawn; the buyer's own words and edits, the searches and the grants *)
(* never misdate it (agent_session.py:761-799, 957-1011, 1126-1180,        *)
(* 1557-1584, 2562-2613, 3846-3865).                                       *)
(***************************************************************************)
THEOREM HeldIntentsStayCurrent == Spec => OnlyDatesInPlaceAndLateAnswersMisdate
  <1>1. ChatInv /\ [Next]_vars => [Excused]_vars
    <2>1. CASE Next
      BY <2>1, StepIsExcused
    <2>. QED  BY <2>1
  <1>2. [Excused]_vars =>
        [(HeldIntentIsCurrent(session, intents) /\ ~HeldIntentIsCurrent(session', intents')) =>
          \/ /\ SyncStep
             /\ session'.intent = session.intent
             /\ session'.stale = session.stale
          \/ \E r \in Requests : /\ req[r].at = "dispatched"
                                /\ req'[r] # req[r]
                                /\ session.intent # req[r].intent]_vars
    BY DEF Excused
  <1>. QED  BY <1>1, <1>2, ChatInvariance, PTL DEF Spec, OnlyDatesInPlaceAndLateAnswersMisdate

=============================================================================
