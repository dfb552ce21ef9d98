------------------------------ MODULE ProgressBus ------------------------------
(***************************************************************************)
(* InMemoryProgressBus (itaa_application.local_progress), the dispatches   *)
(* that publish on it (GoldenPathFacade._approve_and_dispatch) and the     *)
(* event streams that read it (itaa_api.progress_sse).                     *)
(*                                                                         *)
(* Each intent has a few generations, one per dispatch attempt, each a     *)
(* bounded buffer of events.  The bus works under one condition, so each   *)
(* of its calls is atomic; what happens between the calls of a dispatch,   *)
(* of a watcher and of its stream is not.  Dispatches run one at a time:   *)
(* the whole attempt holds the publish lock of UnitOfWork.                 *)
(*                                                                         *)
(* Generation ids are numbered as they are minted: the greatest of an      *)
(* intent is the active one and the order of an OrderedDict is numeric.    *)
(***************************************************************************)
EXTENDS Naturals, Sequences, FiniteSets, SequencesExt

CONSTANTS
    Intent,          \* intent ids
    Subscriber,      \* clients that follow a stream
    MaxEvents,       \* events kept per generation (64)
    MaxIntents,      \* intents tracked (128)
    MaxGenerations,  \* generations kept per intent (2)
    Steps,           \* bound: events of an attempt before its last one
    Attempts,        \* bound: dispatch attempts
    Opened,          \* bound: generations ever opened
    None             \* no intent

ASSUME BoundAssumption ==
    {MaxEvents, MaxIntents, MaxGenerations, Steps, Attempts, Opened} \subseteq Nat \ {0}
ASSUME NoneAssumption == None \notin Intent

Generation == 1..Opened

\* An event is the attempt that emitted it; its sequence number is its place.
Event == [attempt : 1..Attempts, terminal : BOOLEAN]

VARIABLES
    order,      \* _streams: the tracked intents, least recently used first
    gens,       \* intent -> ids of the generations it keeps
    buf,        \* generation -> its buffer
    minted,     \* generations opened so far
    server,     \* the dispatch that holds the publish lock
    attempts,   \* dispatch attempts so far
    dispatched, \* intents whose dispatch succeeded
    conn        \* subscriber -> its connection and what it received

bus == <<order, gens, buf, minted>>
dispatcher == <<server, attempts, dispatched>>
vars == <<bus, dispatcher, conn>>

---------------------------------------------------------------------------
Fresh == [dropped |-> 0, events |-> <<>>, completed |-> FALSE]

Active(i) == CHOOSE g \in gens[i] : \A h \in gens[i] : h <= g

Live(i) == gens[i] # {} /\ ~buf[Active(i)].completed

OldestIntent == {1} \cap DOMAIN order   \* mutant of Evictable: an intent is evicted by age alone

\* _intent_completed: the places in `order` of intents with no live generation.
Evictable == {n \in DOMAIN order : \A g \in gens[order[n]] : buf[g].completed}

\* The intents _open_generation evicts to make room for i: the least recently
\* used of the evictable ones, if there is no room.
Evicted(i) == IF gens[i] # {} \/ Len(order) < MaxIntents THEN {}
              ELSE {order[n] : n \in {n \in Evictable : \A m \in Evictable : n <= m}}

\* _evict_old_generations: the oldest completed generation of i goes.
Discarded(i) ==
    LET old == {g \in gens[i] : buf[g].completed}
    IN IF Cardinality(gens[i]) < MaxGenerations THEN {}
       ELSE {g \in old : \A h \in old : g <= h}

CanOpen(i) == IF gens[i] # {}
              THEN Cardinality(gens[i] \ Discarded(i)) < MaxGenerations
              ELSE Len(order) < MaxIntents \/ Evictable # {}

\* The places in `order` of the intents in gone.
Places(gone) == {n \in DOMAIN order : order[n] \in gone}

\* `order` without its one place in leaving, if there is one.
Without(leaving) == IF leaving = {} THEN order
                    ELSE RemoveAt(order, CHOOSE n \in leaving : TRUE)

\* mutant of Placed: the old place of i is not given up
PlacedTwice(i, gone) == Append(Without(Places(gone)), i)

\* i becomes the most recently used intent. Either it was tracked and gives up its place, or it
\* is new, and the evicted intent does: one place at most is left.
Placed(i, gone) == Append(Without(Places(gone \cup {i})), i)

\* _open_generation, with b in the buffer of the new generation.
Open(i, b) ==
    /\ minted < Opened
    /\ CanOpen(i)
    /\ minted' = minted + 1
    /\ order' = Placed(i, Evicted(i))
    /\ gens' = [j \in Intent |-> IF j = i THEN (gens[i] \ Discarded(i)) \cup {minted + 1}
                                ELSE IF j \in Evicted(i) THEN {} ELSE gens[j]]
    /\ buf' = [buf EXCEPT ![minted + 1] = b]

\* The event joins the buffer, which drops its oldest one when it is full.
Added(b, e) ==
    LET full == Len(b.events) >= MaxEvents
    IN [dropped |-> IF full THEN b.dropped + 1 ELSE b.dropped,
        events |-> Append(IF full THEN Tail(b.events) ELSE b.events, e),
        completed |-> b.completed \/ e.terminal]

Emit(i, e) == IF Live(i)
              THEN /\ buf' = [buf EXCEPT ![Active(i)] = Added(@, e)]
                   /\ UNCHANGED <<order, gens, minted>>
              ELSE Open(i, Added(Fresh, e))

---------------------------------------------------------------------------
(***************************************************************************)
(* One dispatch attempt, inside its transaction.                           *)
(***************************************************************************)
Idle == [phase |-> "free", intent |-> None, sent |-> 0]

Phase(p) == server' = [server EXCEPT !.phase = p]

\* A dispatch POST enters the transaction.
BeginAttempt(i) == /\ server = Idle /\ attempts < Attempts
                   /\ attempts' = attempts + 1
                   /\ server' = [phase |-> "serving", intent |-> i, sent |-> 0]
                   /\ UNCHANGED <<bus, dispatched, conn>>

\* One of the progress events of _solicit_and_rank.
Report == /\ server.phase = "serving" /\ server.sent < Steps
          /\ server.intent \notin dispatched
          /\ Emit(server.intent, [attempt |-> attempts, terminal |-> FALSE])
          /\ server' = [server EXCEPT !.sent = @ + 1]
          /\ UNCHANGED <<attempts, dispatched, conn>>

\* The offers are ranked and saved: STREAM_COMPLETED, and the transaction ends.
Complete == /\ server.phase = "serving" /\ server.sent > 0
            /\ Emit(server.intent, [attempt |-> attempts, terminal |-> TRUE])
            /\ dispatched' = dispatched \cup {server.intent}
            /\ server' = Idle
            /\ UNCHANGED <<attempts, conn>>

\* It raises: a refused state check, no buffer for the first event, any failure on the way.
Fail == /\ server.phase = "serving"
        /\ Phase("failing")
        /\ UNCHANGED <<bus, attempts, dispatched, conn>>

NeverStarted(i) == FALSE   \* mutant of Started: a failed attempt leaves its generation open

\* has_started: the live generation holds an event.
Started(i) == Live(i) /\ \E n \in DOMAIN buf[Active(i)].events :
                              ~buf[Active(i)].events[n].terminal

HasStarted == /\ server.phase = "failing"
              /\ Phase(IF Started(server.intent) THEN "closing" ELSE "abandoning")
              /\ UNCHANGED <<bus, attempts, dispatched, conn>>

\* STREAM_COMPLETED/unavailable, and the transaction rolls back.
Close == /\ server.phase = "closing"
         /\ Emit(server.intent, [attempt |-> attempts, terminal |-> TRUE])
         /\ server' = Idle
         /\ UNCHANGED <<attempts, dispatched, conn>>

\* mutant of Abandoned: a watcher of an attempt that never started is left waiting
AbandonedNone(i) == {}

\* abandon_empty: the generation it completes.
Abandoned(i) == IF Live(i) /\ buf[Active(i)].events = <<>> THEN {Active(i)} ELSE {}

AbandonEmpty == /\ server.phase = "abandoning"
                /\ buf' = [g \in Generation |-> IF g \in Abandoned(server.intent)
                                                THEN [buf[g] EXCEPT !.completed = TRUE]
                                                ELSE buf[g]]
                /\ server' = Idle
                /\ UNCHANGED <<order, gens, minted, attempts, dispatched, conn>>

Serve == Report \/ Complete \/ Fail \/ HasStarted \/ Close \/ AbandonEmpty

---------------------------------------------------------------------------
(***************************************************************************)
(* A client and its event stream.  `got` is what the client received on    *)
(* the generation of its connection, as [seq, terminal] pairs; the server  *)
(* keeps no more than the last of them (Last-Event-ID) and the batch it is *)
(* sending.                                                                *)
(***************************************************************************)
NoConnection == [phase |-> "off", intent |-> None, gen |-> 0, batch |-> <<>>, got |-> <<>>]

Streaming == {"watched", "polling", "sending"}

Move(u, p) == conn' = [conn EXCEPT ![u].phase = p]

\* GET .../events by a new client: watch() returns the live generation or opens one.
Watch(u, i) ==
    /\ conn[u].phase \notin Streaming
    /\ IF Live(i) THEN /\ order' = Placed(i, {})
                       /\ UNCHANGED <<gens, buf, minted>>
                  ELSE Open(i, Fresh)
    /\ conn' = [conn EXCEPT ![u] = [NoConnection EXCEPT
                  !.phase = "watched", !.intent = i,
                  !.gen = IF Live(i) THEN Active(i) ELSE minted + 1]]
    /\ UNCHANGED dispatcher

Kept(u) == conn[u].gen \in gens[conn[u].intent]

\* GET .../events?generationId=g with Last-Event-ID, as the contract of the route asks.
Reconnect(u) ==
    /\ conn[u].phase \notin Streaming /\ conn[u].got # <<>>
    /\ IF Kept(u) THEN order' = Placed(conn[u].intent, {}) /\ Move(u, "watched")
                  ELSE UNCHANGED order /\ Move(u, "refused")
    /\ UNCHANGED <<gens, buf, minted, dispatcher>>

Buffer(u) == buf[conn[u].gen]

LastSeen(u) == IF conn[u].got = <<>> THEN 0 ELSE Last(conn[u].got).seq

LostAnyway(u) == ~Kept(u)   \* mutant of Lost: what the buffer dropped is skipped over

\* _resolve_buffer and _replay raise: the generation is gone, or the buffer no
\* longer holds the last event the client saw.
Lost(u) == \/ ~Kept(u)
           \/ /\ LastSeen(u) # 0
              /\ \/ LastSeen(u) <= Buffer(u).dropped
                 \/ LastSeen(u) > Buffer(u).dropped + Len(Buffer(u).events)

\* _replay: every event kept after the last one the client saw.
Replay(u) ==
    LET b == Buffer(u)
        all == [n \in 1..Len(b.events) |->
                  [seq |-> b.dropped + n, terminal |-> b.events[n].terminal]]
        seen == IF LastSeen(u) <= b.dropped THEN 0 ELSE LastSeen(u) - b.dropped
    IN SubSeq(all, seen + 1, Len(all))

\* The route checks that it can replay before it answers 200.
Start(u) == /\ conn[u].phase = "watched"
            /\ Move(u, IF Lost(u) THEN "refused" ELSE "polling")
            /\ UNCHANGED <<bus, dispatcher>>

EndsEarly(u) == ~Lost(u) /\ Buffer(u).completed   \* mutant of Ends: completion is looked at first

Ends(u) == ~Lost(u) /\ Buffer(u).completed /\ Replay(u) = <<>>

Raises(u) == /\ conn[u].phase = "polling" /\ Lost(u)
             /\ Move(u, "lost")
             /\ UNCHANGED <<bus, dispatcher>>

StreamEnd(u) == /\ conn[u].phase = "polling" /\ Ends(u)
                /\ Move(u, "ended")
                /\ UNCHANGED <<bus, dispatcher>>

\* subscribe() takes a batch; with none it waits for a notification.
Poll(u) == /\ conn[u].phase = "polling"
           /\ ~Lost(u) /\ ~Ends(u) /\ Replay(u) # <<>>
           /\ conn' = [conn EXCEPT ![u].phase = "sending", ![u].batch = Replay(u)]
           /\ UNCHANGED <<bus, dispatcher>>

\* One event of the batch is sent, with no lock held; a terminal one ends the stream.
Deliver(u) ==
    LET e == Head(conn[u].batch)
        rest == Tail(conn[u].batch)
        next == IF e.terminal THEN "ended" ELSE IF rest = <<>> THEN "polling" ELSE "sending"
    IN /\ conn[u].phase = "sending"
       /\ conn' = [conn EXCEPT ![u].phase = next,
                               ![u].batch = IF next = "sending" THEN rest ELSE <<>>,
                               ![u].got = Append(@, e)]
       /\ UNCHANGED <<bus, dispatcher>>

\* The client goes away, or the connection breaks.
Disconnect(u) == /\ conn[u].phase \in Streaming
                 /\ conn' = [conn EXCEPT ![u].phase = "off", ![u].batch = <<>>]
                 /\ UNCHANGED <<bus, dispatcher>>

Stream(u) == Start(u) \/ Raises(u) \/ StreamEnd(u) \/ Poll(u) \/ Deliver(u)

---------------------------------------------------------------------------
Init == /\ order = <<>>
        /\ gens = [i \in Intent |-> {}]
        /\ buf = [g \in Generation |-> Fresh]
        /\ minted = 0
        /\ server = Idle
        /\ attempts = 0
        /\ dispatched = {}
        /\ conn = [u \in Subscriber |-> NoConnection]

Next == \/ \E i \in Intent : BeginAttempt(i)
        \/ Serve
        \/ \E u \in Subscriber : \/ Stream(u) \/ Reconnect(u) \/ Disconnect(u)
                                 \/ \E i \in Intent : Watch(u, i)

Spec == Init /\ [][Next]_vars

\* A dispatch that entered its transaction runs to its end, and the server keeps
\* sending what a stream can send.  Nobody has to dispatch, watch or disconnect.
FairSpec == Spec /\ WF_vars(Serve) /\ \A u \in Subscriber : WF_vars(Stream(u))

---------------------------------------------------------------------------
(***************************************************************************)
(* Properties.                                                             *)
(***************************************************************************)
Buf == [dropped : Nat, events : Seq(Event), completed : BOOLEAN]

\* The LRU list names each intent that has generations, once, and no other, so
\* that every intent counts against the limit and can be evicted.
OrderTracks ==
    /\ {order[n] : n \in DOMAIN order} = {i \in Intent : gens[i] # {}}
    /\ \A m, n \in DOMAIN order : order[m] = order[n] => m = n

\* Every variable has its shape, no bound of the bus is exceeded, and its order
\* of use is sound.
TypeOK ==
    /\ OrderTracks
    /\ order \in Seq(Intent) /\ Len(order) <= MaxIntents
    /\ gens \in [Intent -> SUBSET (1..minted)]
    /\ \A i \in Intent : Cardinality(gens[i]) <= MaxGenerations
    /\ buf \in [Generation -> Buf]
    /\ \A g \in Generation : Len(buf[g].events) <= MaxEvents
    /\ minted \in 0..Opened
    /\ server.phase \in {"free", "serving", "failing", "closing", "abandoning"}
    /\ server.intent \in Intent \cup {None} /\ server.sent \in 0..Steps
    /\ attempts \in 0..Attempts
    /\ dispatched \subseteq Intent
    /\ \A u \in Subscriber :
         /\ conn[u].phase \in Streaming \cup {"off", "refused", "lost", "ended"}
         /\ conn[u].intent \in Intent \cup {None} /\ conn[u].gen \in 0..minted

\* Only the active generation of an intent is live: whoever watches, emits or
\* abandons without naming a generation means the same one.
OneLive == \A i \in Intent : \A g \in gens[i] : g # Active(i) => buf[g].completed

\* "Each authorized dispatch attempt uses a distinct opaque generation id": the
\* events of two attempts never meet in one generation, and a terminal event is
\* the last one of its generation.
AttemptIsolation ==
    \A g \in Generation : \A m, n \in DOMAIN buf[g].events :
        /\ buf[g].events[m].attempt = buf[g].events[n].attempt
        /\ buf[g].events[m].terminal => m = Len(buf[g].events) /\ buf[g].completed

\* Across polls, batches sent without the lock, and reconnections, a client sees
\* consecutive events: it is never led over a gap that the bounded buffer left.
NoSilentGap ==
    \A u \in Subscriber : \A n \in 1..(Len(conn[u].got) - 1) :
        conn[u].got[n + 1].seq = conn[u].got[n].seq + 1

\* A stream that ended, and was not refused or lost, has told its client how the
\* attempt went, unless the attempt never emitted anything.
EndedMeansTold ==
    \A u \in Subscriber :
        conn[u].phase = "ended" =>
            IF conn[u].got = <<>> THEN Buffer(u).events = <<>> ELSE Last(conn[u].got).terminal

\* A generation that may still receive events is never evicted, whatever the
\* pressure of other intents.
LiveKept ==
    [][\A i \in Intent : \A g \in gens[i] : ~buf[g].completed => g \in gens'[i]]_vars

\* A completed generation never changes: "a later dispatch retry opens a new
\* generation and does not replay a previous STREAM_COMPLETED/unavailable event".
CompletedFrozen ==
    [][\A g \in Generation : buf[g].completed => buf'[g] = buf[g]]_vars

\* No step takes away what a client may still read, or changes what it has
\* read: live generations stay, and completed ones stay as they are.
GenerationsKept ==
    [][/\ \A i \in Intent : \A g \in gens[i] : ~buf[g].completed => g \in gens'[i]
       /\ \A g \in Generation : buf[g].completed => buf'[g] = buf[g]]_vars

\* A client that follows the attempt in progress does not wait for ever: its
\* stream ends with the attempt, also when the attempt fails before its first event.
StreamEnds ==
    \A u \in Subscriber : \A i \in Intent :
        (/\ server.intent = i
         /\ conn[u].phase \in Streaming /\ conn[u].intent = i
         /\ Live(i) /\ conn[u].gen = Active(i))
        ~> conn[u].phase \notin Streaming

\* intent_events says "Progress is operational only; the dispatch POST snapshot
\* remains authoritative": the lack of a free slot on the bus never fails a dispatch.
NeverRefused ==
    server.phase = "serving" => Live(server.intent) \/ CanOpen(server.intent)
================================================================================
