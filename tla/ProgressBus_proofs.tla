---------------------------- MODULE ProgressBus_proofs ----------------------------
(***************************************************************************)
(* Proofs about ProgressBus, for any number of intents and clients and any *)
(* limits of the bus.                                                      *)
(*                                                                         *)
(* The argument: an intent has at most one live generation, its newest     *)
(* one; a live generation with events belongs to the attempt in progress;  *)
(* what a client received agrees with what its generation still holds; and *)
(* the order of use names the intents that have generations, once each.    *)
(***************************************************************************)
EXTENDS ProgressBus, SequenceTheorems, FiniteSetTheorems, WellFoundedInduction, TLAPS

Shapes ==
    /\ gens \in [Intent -> SUBSET (1..minted)]
    /\ buf \in [Generation -> Buf]
    /\ \A g \in Generation : g > minted => buf[g] = Fresh
    /\ minted \in 0..Opened
    /\ attempts \in 0..Attempts
    /\ server.intent \in Intent \cup {None}
    /\ \/ server = Idle
       \/ server.intent \in Intent /\ attempts \in 1..Attempts
    /\ server = [phase |-> server.phase, intent |-> server.intent, sent |-> server.sent]

\* Generations belong to one intent, the active one is its newest, the rest are completed.
Structure ==
    /\ \A i \in Intent : gens[i] # {} => \E g \in gens[i] : \A h \in gens[i] : h <= g
    /\ \A i, j \in Intent : i # j => gens[i] \cap gens[j] = {}
    /\ OneLive

\* A live generation with events is the one of the attempt in progress.
Quiet ==
    \A i \in Intent : \A g \in gens[i] :
        ~buf[g].completed /\ buf[g].events # <<>> =>
            /\ server.intent = i
            /\ server.phase \in {"serving", "failing", "closing"}
            /\ \A n \in DOMAIN buf[g].events :
                  buf[g].events[n] = [attempt |-> attempts, terminal |-> FALSE]

\* A completed generation is empty or ends with its terminal event.
Sealed ==
    \A g \in Generation :
        buf[g].completed /\ buf[g].events # <<>> => buf[g].events[Len(buf[g].events)].terminal

BusInv == Shapes /\ Structure /\ Quiet /\ Sealed /\ AttemptIsolation

---------------------------------------------------------------------------
\* The active generation of an intent that has one is its newest.
LEMMA ActiveNewest ==
    ASSUME Structure, NEW i \in Intent, gens[i] # {}
    PROVE  Active(i) \in gens[i] /\ \A h \in gens[i] : h <= Active(i)
BY DEF Structure, Active

\* What an added event does to a buffer: it is the last one, and the others were there.
LEMMA AddedFacts ==
    ASSUME NEW b \in Buf, NEW e \in Event
    PROVE  /\ Added(b, e) \in Buf
           /\ Added(b, e).completed <=> b.completed \/ e.terminal
           /\ Added(b, e).events # <<>>
           /\ Added(b, e).events[Len(Added(b, e).events)] = e
           /\ \A n \in DOMAIN Added(b, e).events :
                 n # Len(Added(b, e).events) =>
                     \E m \in DOMAIN b.events : Added(b, e).events[n] = b.events[m]
<1> DEFINE full == Len(b.events) >= MaxEvents
           rest == IF full THEN Tail(b.events) ELSE b.events
<1>1. b.events \in Seq(Event) /\ b.dropped \in Nat /\ b.completed \in BOOLEAN
    BY DEF Buf
<1>2. full => b.events # <<>>
    BY <1>1, BoundAssumption
<1>3. rest \in Seq(Event) /\ \A n \in DOMAIN rest : \E m \in DOMAIN b.events : rest[n] = b.events[m]
  <2>1. CASE full
    <3>1. Tail(b.events) \in Seq(Event) /\ Len(Tail(b.events)) = Len(b.events) - 1
      BY <2>1, <1>1, <1>2
    <3>2. \A n \in 1..(Len(b.events) - 1) : Tail(b.events)[n] = b.events[n + 1]
      BY <2>1, <1>1, <1>2
    <3> QED
      BY <2>1, <1>1, <3>1, <3>2
  <2>2. CASE ~full
    BY <2>2, <1>1
  <2> QED
    BY <2>1, <2>2
<1>4. Added(b, e).events = Append(rest, e)
    BY DEF Added
<1>5. Added(b, e).completed <=> b.completed \/ e.terminal
    BY DEF Added
<1>6. Added(b, e) \in Buf
  <2>1. Append(rest, e) \in Seq(Event)
    BY <1>3
  <2>2. (b.completed \/ e.terminal) \in BOOLEAN
    OBVIOUS
  <2>3. (IF full THEN b.dropped + 1 ELSE b.dropped) \in Nat
    BY <1>1
  <2> QED
    BY <2>1, <2>2, <2>3 DEF Added, Buf
<1>7. /\ Append(rest, e) # <<>>
      /\ Append(rest, e)[Len(Append(rest, e))] = e
      /\ \A n \in DOMAIN Append(rest, e) : n # Len(Append(rest, e)) =>
            n \in DOMAIN rest /\ Append(rest, e)[n] = rest[n]
    BY <1>3
<1> QED
    BY <1>3, <1>4, <1>5, <1>6, <1>7

\* The empty sequence has no elements.
LEMMA EmptyDomain == DOMAIN <<>> = {}
OBVIOUS

\* A sequence that is not empty has a first element.
LEMMA NonEmptyDomain == ASSUME NEW S, NEW s \in Seq(S), s # <<>> PROVE 1 \in DOMAIN s
OBVIOUS

\* A new buffer is a buffer.
LEMMA FreshBuf == Fresh \in Buf /\ ~Fresh.completed /\ Fresh.events = <<>>
BY DEF Fresh, Buf

\* Opening a generation: it is new, it is the newest of its intent, and only
\* completed generations leave.
LEMMA OpenFacts ==
    ASSUME Shapes, Structure, NEW i \in Intent, NEW b \in Buf, Open(i, b)
    PROVE  /\ minted' = minted + 1 /\ minted + 1 \in Generation
           /\ buf' = [buf EXCEPT ![minted + 1] = b]
           /\ gens' \in [Intent -> SUBSET (1..minted')]
           /\ minted + 1 \in gens'[i]
           /\ gens'[i] \ {minted + 1} \subseteq gens[i]
           /\ \A j \in Intent : j # i => gens'[j] \in {gens[j], {}}
           /\ \A j \in Intent : \A g \in gens[j] : ~buf[g].completed => g \in gens'[j]
<1>1. /\ minted' = minted + 1 /\ minted + 1 \in Generation
      /\ buf' = [buf EXCEPT ![minted + 1] = b]
    BY BoundAssumption DEF Open, Shapes, Generation
<1>2. /\ minted + 1 \in gens'[i]
      /\ gens'[i] \ {minted + 1} \subseteq gens[i]
      /\ \A j \in Intent : j # i => gens'[j] \in {gens[j], {}}
    BY DEF Open
<1>3. gens' \in [Intent -> SUBSET (1..minted')]
    BY <1>1, <1>2 DEF Open, Shapes
<1>4. \A g \in Discarded(i) : buf[g].completed
    BY DEF Discarded
<1>5. \A j \in Evicted(i) : \A g \in gens[j] : buf[g].completed
    BY DEF Evicted, Evictable
<1>6. \A j \in Intent : \A g \in gens[j] : ~buf[g].completed => g \in gens'[j]
    BY <1>4, <1>5 DEF Open
<1> QED
    BY <1>1, <1>2, <1>3, <1>6

\* A generation is opened only for an intent without a live one, so that it is
\* the only live one.
LEMMA OpenStructure ==
    ASSUME BusInv, NEW i \in Intent, NEW b \in Buf, Open(i, b), ~Live(i)
    PROVE  Structure'
<1> USE DEF BusInv
<1>1. /\ minted' = minted + 1 /\ minted + 1 \in Generation
      /\ buf' = [buf EXCEPT ![minted + 1] = b]
      /\ minted + 1 \in gens'[i] /\ gens'[i] \ {minted + 1} \subseteq gens[i]
      /\ \A j \in Intent : j # i => gens'[j] \in {gens[j], {}}
    BY OpenFacts
<1>2. minted \in Nat /\ \A j \in Intent : gens[j] \subseteq 1..minted
    BY BoundAssumption DEF Shapes
<1>3. \A j \in Intent : gens'[j] # {} => \E g \in gens'[j] : \A h \in gens'[j] : h <= g
  <2>1. \A h \in gens'[i] : h <= minted + 1
    BY <1>1, <1>2
  <2>2. ASSUME NEW j \in Intent, j # i, gens'[j] # {}
        PROVE  \E g \in gens'[j] : \A h \in gens'[j] : h <= g
    BY <1>1, <2>2 DEF Structure
  <2> QED
    BY <1>1, <2>1, <2>2
<1>4. \A j, k \in Intent : j # k => gens'[j] \cap gens'[k] = {}
    BY <1>1, <1>2 DEF Structure
<1>5. ASSUME NEW j \in Intent, NEW g \in gens'[j], g # Active(j)' PROVE buf'[g].completed
  <2>1. CASE j = i
    <3>1. \A h \in gens'[i] : (\A k \in gens'[i] : k <= h) => h = minted + 1
      BY <1>1, <1>2
    <3>2. \E h \in gens'[i] : \A k \in gens'[i] : k <= h
      BY <1>3, <1>1
    <3>3. Active(i)' = minted + 1
      BY <3>1, <3>2 DEF Active
    <3>4. g \in gens[i] /\ g # minted + 1
      BY <3>3, <2>1, <1>5, <1>1
    <3>5. buf[g].completed
      BY <3>4 DEF Live, Structure, OneLive
    <3> QED
      BY <3>4, <3>5, <1>1, <1>2 DEF Shapes, Generation
  <2>2. CASE j # i
    <3>1. gens'[j] = gens[j]
      BY <2>2, <1>1, <1>5
    <3>2. Active(j)' = Active(j)
      BY <3>1 DEF Active
    <3>3. buf[g].completed /\ g # minted + 1
      BY <3>1, <3>2, <1>2, <1>5 DEF Structure, OneLive
    <3> QED
      BY <3>1, <3>3, <1>1, <1>2 DEF Shapes, Generation
  <2> QED
    BY <2>1, <2>2
<1> QED
    BY <1>3, <1>4, <1>5 DEF Structure, OneLive

\* Event e of the attempt in progress joins generation g of intent i, whose
\* buffer b, new or not, holds only events of this attempt and is not completed.
Joins(g, b, i, e) ==
    /\ g \in gens'[i]
    /\ buf' = [buf EXCEPT ![g] = Added(b, e)]
    /\ ~b.completed
    /\ \A n \in DOMAIN b.events : b.events[n] = [attempt |-> attempts, terminal |-> FALSE]
    /\ \A j \in Intent : gens'[j] \ {g} \subseteq gens[j]
    /\ \A j \in Intent : \A h \in gens[j] : ~buf[h].completed => h \in gens'[j]
    /\ gens' \in [Intent -> SUBSET (1..minted')] /\ minted' \in 0..Opened
    /\ \A h \in Generation : h > minted' => buf'[h] = Fresh
    /\ ~buf[g].completed
    /\ \A h \in gens[i] : h # g => buf[h].completed

\* Every emission of the attempt in progress is of that kind.
LEMMA EmitFacts ==
    ASSUME BusInv, NEW i \in Intent, NEW e \in Event, Emit(i, e), server.intent = i
    PROVE  Structure' /\ \E g \in Generation, b \in Buf : Joins(g, b, i, e)
<1> USE DEF BusInv
<1>1. CASE Live(i)
  <2> DEFINE a == Active(i)
  <2>1. a \in gens[i] /\ ~buf[a].completed /\ gens[i] # {}
    BY <1>1, ActiveNewest DEF Live
  <2>2. /\ buf' = [buf EXCEPT ![a] = Added(buf[a], e)]
        /\ gens' = gens /\ minted' = minted
    BY <1>1 DEF Emit
  <2>3. a \in Generation /\ buf[a] \in Buf
    BY <2>1, BoundAssumption DEF Shapes, Generation
  <2>4. \A n \in DOMAIN buf[a].events :
            buf[a].events[n] = [attempt |-> attempts, terminal |-> FALSE]
    <3>1. CASE buf[a].events = <<>>
      BY <3>1, EmptyDomain
    <3>2. CASE buf[a].events # <<>>
      BY <3>2, <2>1 DEF Quiet
    <3> QED
      BY <3>1, <3>2
  <2>5. Structure'
    <3>1. \A j \in Intent : Active(j)' = Active(j)
      BY <2>2 DEF Active
    <3>2. ASSUME NEW j \in Intent, NEW g \in gens[j], g # Active(j) PROVE buf'[g].completed
      <4>1. buf[g].completed /\ g \in Generation
        BY <3>2, BoundAssumption DEF Structure, OneLive, Shapes, Generation
      <4>2. g # a
        BY <4>1, <2>1
      <4> QED
        BY <4>1, <4>2, <2>2 DEF Shapes
    <3> QED
      BY <2>2, <3>1, <3>2 DEF Structure, OneLive
  <2>6. \A h \in gens[i] : h # a => buf[h].completed
    BY DEF Structure, OneLive
  <2>7. \A h \in Generation : h > minted => buf'[h] = Fresh
    BY <2>1, <2>2, <2>3, BoundAssumption DEF Shapes, Generation
  <2>8. Joins(a, buf[a], i, e)
    BY <2>1, <2>2, <2>3, <2>4, <2>6, <2>7 DEF Joins, Shapes
  <2> QED
    BY <2>3, <2>5, <2>8
<1>2. CASE ~Live(i)
  <2>1. Open(i, Added(Fresh, e)) /\ Added(Fresh, e) \in Buf
    BY <1>2, AddedFacts, FreshBuf DEF Emit
  <2>2. Structure'
    BY <2>1, <1>2, OpenStructure
  <2>3. /\ minted' = minted + 1 /\ minted + 1 \in Generation
        /\ buf' = [buf EXCEPT ![minted + 1] = Added(Fresh, e)]
        /\ gens' \in [Intent -> SUBSET (1..minted')]
        /\ minted + 1 \in gens'[i]
        /\ gens'[i] \ {minted + 1} \subseteq gens[i]
        /\ \A j \in Intent : j # i => gens'[j] \in {gens[j], {}}
        /\ \A j \in Intent : \A g \in gens[j] : ~buf[g].completed => g \in gens'[j]
    BY <2>1, OpenFacts
  <2>4. \A j \in Intent : gens'[j] \ {minted + 1} \subseteq gens[j]
    BY <2>3
  <2>5. minted' \in 0..Opened /\ minted + 1 > minted
    BY <2>3, BoundAssumption DEF Shapes, Generation
  <2>6. DOMAIN Fresh.events = {} /\ Fresh \in Buf /\ ~Fresh.completed
    BY FreshBuf, EmptyDomain
  <2>7. \A n \in DOMAIN Fresh.events :
            Fresh.events[n] = [attempt |-> attempts, terminal |-> FALSE]
    BY <2>6
  <2>8. \A h \in gens[i] : buf[h].completed
    BY <1>2 DEF Live, Structure, OneLive
  <2>9. ~buf[minted + 1].completed
    BY <2>3, <2>5, <2>6 DEF Shapes
  <2>10. \A h \in Generation : h > minted' => buf'[h] = Fresh
    BY <2>3, BoundAssumption DEF Shapes, Generation
  <2>11. Joins(minted + 1, Fresh, i, e)
    BY <2>3, <2>4, <2>5, <2>6, <2>7, <2>8, <2>9, <2>10 DEF Joins
  <2> QED
    BY <2>2, <2>3, <2>6, <2>11
<1> QED
    BY <1>1, <1>2

\* An emission keeps generations apart, quiet and sealed, provided the attempt
\* goes on after an event that is not terminal.
LEMMA EmitBus ==
    ASSUME BusInv, NEW i \in Intent, NEW e \in Event, Emit(i, e), server.intent = i,
           e.attempt = attempts, attempts' = attempts,
           ~e.terminal => server'.intent = i /\ server'.phase \in {"serving", "failing", "closing"}
    PROVE  /\ gens' \in [Intent -> SUBSET (1..minted')] /\ minted' \in 0..Opened
           /\ buf' \in [Generation -> Buf]
           /\ \A g \in Generation : g > minted' => buf'[g] = Fresh
           /\ Structure' /\ Quiet' /\ Sealed' /\ AttemptIsolation'
<1> PICK g \in Generation, b \in Buf : Joins(g, b, i, e)
    BY EmitFacts
<1> Structure'
    BY EmitFacts
<1> USE DEF BusInv, Joins
<1>1. buf \in [Generation -> Buf] /\ Added(b, e) \in Buf
    BY AddedFacts DEF Shapes
<1>2. buf' \in [Generation -> Buf] /\ buf'[g] = Added(b, e)
      /\ \A h \in Generation : h # g => buf'[h] = buf[h]
    BY <1>1
<1> DEFINE ev == Added(b, e).events
<1>3. /\ ev # <<>> /\ ev[Len(ev)] = e
      /\ Added(b, e).completed <=> e.terminal
      /\ \A n \in DOMAIN ev : n # Len(ev) =>
            ev[n] = [attempt |-> attempts, terminal |-> FALSE]
  <2>1. /\ Added(b, e).completed <=> b.completed \/ e.terminal
        /\ ev # <<>> /\ ev[Len(ev)] = e
        /\ \A n \in DOMAIN ev : n # Len(ev) => \E m \in DOMAIN b.events : ev[n] = b.events[m]
    BY AddedFacts
  <2> HIDE DEF ev
  <2> QED
    BY <2>1
<1>4. e = [attempt |-> attempts, terminal |-> e.terminal]
    BY DEF Event
<1>5. Quiet'
  <2> SUFFICES ASSUME NEW j \in Intent, NEW h \in gens'[j],
                      ~buf'[h].completed /\ buf'[h].events # <<>>
               PROVE  /\ server'.intent = j
                      /\ server'.phase \in {"serving", "failing", "closing"}
                      /\ \A n \in DOMAIN buf'[h].events :
                            buf'[h].events[n] = [attempt |-> attempts', terminal |-> FALSE]
    BY Zenon DEF Quiet
  <2>1. CASE h = g
    <3>1. j = i
      BY <2>1 DEF Structure
    <3>2. ~e.terminal
      BY <2>1, <1>2, <1>3
    <3>3. e.terminal = FALSE
      BY <3>2 DEF Event
    <3>4. \A n \in DOMAIN ev : ev[n] = [attempt |-> attempts, terminal |-> FALSE]
      BY <1>3, <1>4, <3>3
    <3> QED
      BY <2>1, <3>1, <3>2, <3>4, <1>2
  <2>2. CASE h # g
    <3>1. h \in gens[j] /\ h \in Generation
      BY <2>2, BoundAssumption DEF Generation
    <3>2. ~buf[h].completed /\ buf[h].events # <<>>
      BY <2>2, <3>1, <1>2
    <3>3. j = i
      BY <3>1, <3>2 DEF Quiet
    <3> QED
      BY <3>1, <3>2, <3>3, <2>2
  <2> QED
    BY <2>1, <2>2
<1>6. Sealed'
    BY <1>2, <1>3 DEF Sealed
<1>7. AttemptIsolation'
  <2> SUFFICES ASSUME NEW h \in Generation, NEW m \in DOMAIN buf'[h].events,
                      NEW n \in DOMAIN buf'[h].events
               PROVE  /\ buf'[h].events[m].attempt = buf'[h].events[n].attempt
                      /\ buf'[h].events[m].terminal => m = Len(buf'[h].events) /\ buf'[h].completed
    BY DEF AttemptIsolation
  <2>1. CASE h = g
    <3>1. \A k \in DOMAIN ev : ev[k].attempt = attempts
      BY <1>3, <1>4
    <3>2. \A k \in DOMAIN ev : ev[k].terminal => k = Len(ev) /\ e.terminal
      BY <1>3
    <3> QED
      BY <2>1, <3>1, <3>2, <1>2, <1>3
  <2>2. CASE h # g
    BY <2>2, <1>2 DEF AttemptIsolation
  <2> QED
    BY <2>1, <2>2
<1> QED
    BY <1>2, <1>5, <1>6, <1>7

---------------------------------------------------------------------------
\* Initially nothing is tracked.
LEMMA InitBus == Init => BusInv
<1> SUFFICES ASSUME Init PROVE BusInv
    OBVIOUS
<1> USE FreshBuf, EmptyDomain, BoundAssumption DEF Init
<1>1. Shapes
  <2>1. gens \in [Intent -> SUBSET (1..minted)] /\ buf \in [Generation -> Buf]
    OBVIOUS
  <2>2. \A g \in Generation : buf[g] = Fresh
    OBVIOUS
  <2>3. minted \in 0..Opened /\ attempts \in 0..Attempts
    OBVIOUS
  <2>4. /\ server = Idle /\ server.intent = None
        /\ server = [phase |-> server.phase, intent |-> server.intent, sent |-> server.sent]
    BY DEF Idle
  <2> QED
    BY ONLY <2>1, <2>2, <2>3, <2>4 DEF Shapes
<1>2. Structure /\ Quiet
    BY DEF Structure, OneLive, Quiet
<1>3. Sealed /\ AttemptIsolation
    BY DEF Sealed, AttemptIsolation
<1> QED
    BY <1>1, <1>2, <1>3 DEF BusInv

\* Steps that leave the generations and the attempt alone.
LEMMA StillBus ==
    ASSUME BusInv, UNCHANGED <<gens, buf, minted, server, attempts>>
    PROVE  BusInv'
<1>0. gens' = gens /\ buf' = buf /\ minted' = minted /\ server' = server /\ attempts' = attempts
    OBVIOUS
<1>1. Shapes'
    BY <1>0 DEF BusInv, Shapes
<1>2. Structure'
    BY <1>0 DEF BusInv, Structure, OneLive, Active
<1>3. Quiet'
  <2> SUFFICES ASSUME NEW i \in Intent, NEW g \in gens'[i],
                      ~buf'[g].completed /\ buf'[g].events # <<>>
               PROVE  /\ server'.intent = i
                      /\ server'.phase \in {"serving", "failing", "closing"}
                      /\ \A n \in DOMAIN buf'[g].events :
                            buf'[g].events[n] = [attempt |-> attempts', terminal |-> FALSE]
    BY Zenon DEF Quiet
  <2>1. g \in gens[i] /\ ~buf[g].completed /\ buf[g].events # <<>>
    BY <1>0
  <2>2. /\ server.intent = i
        /\ server.phase \in {"serving", "failing", "closing"}
        /\ \A n \in DOMAIN buf[g].events :
              buf[g].events[n] = [attempt |-> attempts, terminal |-> FALSE]
    BY <2>1 DEF BusInv, Quiet
  <2> QED
    BY <2>2, <1>0
<1>4. Sealed' /\ AttemptIsolation'
    BY <1>0 DEF BusInv, Sealed, AttemptIsolation
<1> QED
    BY <1>1, <1>2, <1>3, <1>4 DEF BusInv

\* An attempt begins when no attempt is in progress, so no live generation has events.
LEMMA BeginAttemptBus ==
    ASSUME BusInv, NEW i \in Intent, BeginAttempt(i)
    PROVE  BusInv'
<1> USE DEF BusInv, BeginAttempt, bus
<1>1. Shapes'
    BY BoundAssumption DEF Shapes
<1>2. Structure'
    BY DEF Structure, OneLive, Active
<1>3. Quiet'
    BY NoneAssumption DEF Quiet, Idle
<1>4. Sealed' /\ AttemptIsolation'
    BY DEF Sealed, AttemptIsolation
<1> QED
    BY <1>1, <1>2, <1>3, <1>4

\* The attempt in progress has a number, and its events are events.
LEMMA InProgress ==
    ASSUME BusInv, server # Idle
    PROVE  /\ server.intent \in Intent
           /\ [attempt |-> attempts, terminal |-> FALSE] \in Event
           /\ [attempt |-> attempts, terminal |-> TRUE] \in Event
BY DEF BusInv, Shapes, Event

\* A report is an event that is not terminal, and the attempt goes on.
LEMMA ReportBus ==
    ASSUME BusInv, Report
    PROVE  BusInv'
<1> DEFINE e == [attempt |-> attempts, terminal |-> FALSE]
<1>1. server # Idle
    BY DEF Report, Idle
<1>2. server.intent \in Intent /\ e \in Event
    BY <1>1, InProgress
<1>3. /\ Emit(server.intent, e) /\ attempts' = attempts
      /\ e.attempt = attempts /\ ~e.terminal
    BY DEF Report
<1>4. /\ server' = [phase |-> "serving", intent |-> server.intent, sent |-> server.sent + 1]
    BY DEF Report, BusInv, Shapes
<1>5. server'.intent = server.intent /\ server'.phase \in {"serving", "failing", "closing"}
    BY <1>4
<1> HIDE DEF e
<1>6. /\ gens' \in [Intent -> SUBSET (1..minted')] /\ minted' \in 0..Opened
      /\ buf' \in [Generation -> Buf]
      /\ \A g \in Generation : g > minted' => buf'[g] = Fresh
      /\ Structure' /\ Quiet' /\ Sealed' /\ AttemptIsolation'
    BY <1>2, <1>3, <1>5, EmitBus
<1>7. Shapes'
    BY <1>1, <1>3, <1>4, <1>6 DEF BusInv, Shapes
<1> QED
    BY <1>6, <1>7 DEF BusInv

\* A terminal event ends the attempt, whether it succeeded or failed.
LEMMA EndBus ==
    ASSUME BusInv, Complete \/ Close
    PROVE  BusInv'
<1> DEFINE e == [attempt |-> attempts, terminal |-> TRUE]
<1>1. server # Idle
    BY DEF Complete, Close, Idle
<1>2. server.intent \in Intent /\ e \in Event
    BY <1>1, InProgress
<1>3. /\ Emit(server.intent, e) /\ attempts' = attempts /\ server' = Idle
      /\ e.attempt = attempts /\ e.terminal
    BY DEF Complete, Close
<1> HIDE DEF e
<1>4. /\ gens' \in [Intent -> SUBSET (1..minted')] /\ minted' \in 0..Opened
      /\ buf' \in [Generation -> Buf]
      /\ \A g \in Generation : g > minted' => buf'[g] = Fresh
      /\ Structure' /\ Quiet' /\ Sealed' /\ AttemptIsolation'
    BY <1>2, <1>3, EmitBus
<1>5. Shapes'
    BY <1>3, <1>4 DEF BusInv, Shapes, Idle
<1> QED
    BY <1>4, <1>5 DEF BusInv

\* A failing attempt still owns its generation.
LEMMA FailBus ==
    ASSUME BusInv, Fail
    PROVE  BusInv'
<1>1. /\ server' = [phase |-> "failing", intent |-> server.intent, sent |-> server.sent]
      /\ server # Idle /\ server.phase = "serving"
    BY DEF BusInv, Fail, Phase, Shapes, Idle
<1>2. gens' = gens /\ buf' = buf /\ minted' = minted /\ attempts' = attempts
    BY DEF Fail, bus
<1>3. Shapes'
    BY <1>1, <1>2 DEF BusInv, Shapes
<1>4. Structure'
    BY <1>2 DEF BusInv, Structure, OneLive, Active
<1>5. Quiet'
  <2>1. server'.intent = server.intent /\ server'.phase = "failing"
    BY <1>1
  <2> QED
    BY <2>1, <1>1, <1>2 DEF BusInv, Quiet
<1>6. Sealed' /\ AttemptIsolation'
    BY <1>2 DEF BusInv, Sealed, AttemptIsolation
<1> QED
    BY <1>3, <1>4, <1>5, <1>6 DEF BusInv

\* Whoever goes on to abandon found no event in the live generation.
LEMMA HasStartedBus ==
    ASSUME BusInv, HasStarted
    PROVE  BusInv'
<1> DEFINE i == server.intent
<1>1. server # Idle /\ i \in Intent /\ attempts \in 1..Attempts
    BY DEF HasStarted, Idle, BusInv, Shapes
<1>0. gens' = gens /\ buf' = buf /\ minted' = minted /\ attempts' = attempts
    BY DEF HasStarted, bus
<1>2. /\ server'.intent = i /\ server' = [phase |-> server'.phase, intent |-> i, sent |-> server.sent]
      /\ server'.phase = IF Started(i) THEN "closing" ELSE "abandoning"
    BY DEF HasStarted, Phase, BusInv, Shapes
<1>3. Shapes'
    BY <1>0, <1>1, <1>2 DEF BusInv, Shapes
<1>4. Structure'
    BY <1>0 DEF BusInv, Structure, OneLive, Active
<1>5. Quiet'
  <2> SUFFICES ASSUME NEW j \in Intent, NEW g \in gens[j],
                      ~buf[g].completed /\ buf[g].events # <<>>
               PROVE  server'.intent = j /\ server'.phase = "closing"
                      /\ \A n \in DOMAIN buf[g].events :
                            buf[g].events[n] = [attempt |-> attempts, terminal |-> FALSE]
    BY <1>0 DEF Quiet
  <2>1. /\ i = j
        /\ \A n \in DOMAIN buf[g].events :
              buf[g].events[n] = [attempt |-> attempts, terminal |-> FALSE]
    BY DEF BusInv, Quiet
  <2>2. g = Active(j) /\ gens[j] # {}
    BY DEF BusInv, Structure, OneLive
  <2>3. \E n \in DOMAIN buf[g].events : TRUE
    <3>1. buf[g].events \in Seq(Event)
      BY BoundAssumption DEF BusInv, Shapes, Buf, Generation
    <3> QED
      BY <3>1, NonEmptyDomain
  <2>4. Started(j)
    BY <2>1, <2>2, <2>3 DEF Started, Live
  <2> QED
    BY <2>1, <2>4, <1>2
<1>6. Sealed' /\ AttemptIsolation'
    BY <1>0 DEF BusInv, Sealed, AttemptIsolation
<1> QED
    BY <1>3, <1>4, <1>5, <1>6 DEF BusInv

\* An abandoned generation is empty, and no other live one has events.
LEMMA AbandonEmptyBus ==
    ASSUME BusInv, AbandonEmpty
    PROVE  BusInv'
<1> DEFINE i == server.intent
<1>1. server # Idle /\ i \in Intent /\ server.phase = "abandoning"
    BY DEF AbandonEmpty, Idle, BusInv, Shapes
<1>2. /\ gens' = gens /\ minted' = minted /\ attempts' = attempts /\ server' = Idle
      /\ buf' = [g \in Generation |-> IF g \in Abandoned(i)
                                      THEN [buf[g] EXCEPT !.completed = TRUE]
                                      ELSE buf[g]]
    BY DEF AbandonEmpty
<1>3. \A g \in Abandoned(i) : g \in gens[i] /\ buf[g].events = <<>>
    BY <1>1, ActiveNewest DEF BusInv, Abandoned, Live
<1>4. buf \in [Generation -> Buf]
    BY DEF BusInv, Shapes
<1>5. \A g \in Generation :
         /\ buf'[g].events = buf[g].events /\ buf'[g] \in Buf
         /\ buf[g].completed => buf'[g] = buf[g]
         /\ g \notin Abandoned(i) => buf'[g] = buf[g]
    BY <1>2, <1>3, <1>4 DEF Abandoned, Live, Buf
<1>6. \A j \in Intent : gens[j] \subseteq Generation /\ gens[j] \subseteq 1..minted
    BY BoundAssumption DEF BusInv, Shapes, Generation
<1>7. Shapes'
  <2>1. buf' \in [Generation -> Buf]
    BY <1>2, <1>5
  <2>2. \A g \in Generation : g > minted => buf'[g] = Fresh
    BY <1>1, <1>3, <1>5, <1>6, BoundAssumption DEF BusInv, Shapes, Generation
  <2>3. server' = Idle /\ server'.intent = None
        /\ server' = [phase |-> server'.phase, intent |-> server'.intent, sent |-> server'.sent]
    BY <1>2 DEF Idle
  <2> QED
    BY <1>2, <2>1, <2>2, <2>3 DEF BusInv, Shapes
<1>8. Structure'
  <2>1. \A j \in Intent : Active(j)' = Active(j)
    BY <1>2 DEF Active
  <2>2. \A j \in Intent : \A g \in gens[j] : buf[g].completed => buf'[g].completed
    BY <1>5, <1>6
  <2> QED
    BY <1>2, <2>1, <2>2 DEF BusInv, Structure, OneLive
<1>9. \A j \in Intent : \A g \in gens'[j] : ~buf'[g].completed => buf'[g].events = <<>>
  <2>1. \A j \in Intent : \A g \in gens[j] : ~buf[g].completed => buf[g].events = <<>>
    BY <1>1 DEF BusInv, Quiet
  <2> QED
    BY <2>1, <1>2, <1>5, <1>6
<1>10. Quiet'
    BY <1>9 DEF Quiet
<1>11. Sealed'
  <2> SUFFICES ASSUME NEW g \in Generation, buf'[g].completed /\ buf'[g].events # <<>>
               PROVE  buf'[g].events[Len(buf'[g].events)].terminal
    BY DEF Sealed
  <2>1. g \notin Abandoned(i) /\ buf'[g] = buf[g]
    BY <1>3, <1>5
  <2> QED
    BY <2>1 DEF BusInv, Sealed
<1>12. AttemptIsolation'
    BY <1>5 DEF BusInv, AttemptIsolation
<1> QED
    BY <1>7, <1>8, <1>10, <1>11, <1>12 DEF BusInv

\* A watcher opens an empty generation, or none.
LEMMA WatchBus ==
    ASSUME BusInv, NEW u \in Subscriber, NEW i \in Intent, Watch(u, i)
    PROVE  BusInv'
<1>0. server' = server /\ attempts' = attempts
    BY DEF Watch, dispatcher
<1>1. CASE Live(i)
  <2>1. gens' = gens /\ buf' = buf /\ minted' = minted
    BY <1>1 DEF Watch
  <2> QED
    BY <2>1, <1>0, StillBus
<1>2. CASE ~Live(i)
  <2>1. Open(i, Fresh)
    BY <1>2 DEF Watch
  <2>2. /\ minted' = minted + 1 /\ minted + 1 \in Generation
        /\ buf' = [buf EXCEPT ![minted + 1] = Fresh]
        /\ gens' \in [Intent -> SUBSET (1..minted')]
        /\ gens'[i] \ {minted + 1} \subseteq gens[i]
        /\ \A j \in Intent : j # i => gens'[j] \in {gens[j], {}}
    BY <2>1, OpenFacts, FreshBuf DEF BusInv
  <2>3. Structure'
    BY <2>1, <1>2, OpenStructure, FreshBuf
  <2>4. buf \in [Generation -> Buf] /\ minted \in 0..Opened
    BY DEF BusInv, Shapes
  <2>5. \A g \in Generation : buf'[g] = IF g = minted + 1 THEN Fresh ELSE buf[g]
    BY <2>2, <2>4
  <2>6. Shapes'
    <3>1. buf' \in [Generation -> Buf]
      BY <2>2, <2>4, FreshBuf
    <3>2. minted' \in 0..Opened
      BY <2>2, <2>4, BoundAssumption DEF Generation
    <3>3. \A g \in Generation : g > minted' => buf'[g] = Fresh
      BY <2>2, <2>4, <2>5, BoundAssumption DEF BusInv, Shapes, Generation
    <3> QED
      BY <1>0, <2>2, <3>1, <3>2, <3>3 DEF BusInv, Shapes
  <2>7. Quiet'
    <3> SUFFICES ASSUME NEW j \in Intent, NEW g \in gens'[j],
                        ~buf'[g].completed /\ buf'[g].events # <<>>
                 PROVE  /\ server'.intent = j
                        /\ server'.phase \in {"serving", "failing", "closing"}
                        /\ \A n \in DOMAIN buf'[g].events :
                              buf'[g].events[n] = [attempt |-> attempts', terminal |-> FALSE]
      BY Zenon DEF Quiet
    <3>1. g \in Generation
      BY <2>2, <2>4, BoundAssumption DEF Generation
    <3>2. g # minted + 1 /\ buf'[g] = buf[g]
      BY <2>5, <3>1, FreshBuf
    <3>3. g \in gens[j]
      BY <2>2, <3>2
    <3>4. /\ server.intent = j
          /\ server.phase \in {"serving", "failing", "closing"}
          /\ \A n \in DOMAIN buf[g].events :
                buf[g].events[n] = [attempt |-> attempts, terminal |-> FALSE]
      BY <3>2, <3>3 DEF BusInv, Quiet
    <3> QED
      BY <3>2, <3>4, <1>0
  <2>8. Sealed'
    BY <2>5, FreshBuf DEF BusInv, Sealed
  <2>9. AttemptIsolation'
    <3>1. \A g \in Generation : g # minted + 1 => buf'[g] = buf[g]
      BY <2>5
    <3>2. minted + 1 \in Generation => DOMAIN buf'[minted + 1].events = {}
      BY <2>5, FreshBuf, EmptyDomain
    <3> QED
      BY <3>1, <3>2 DEF BusInv, AttemptIsolation
  <2> QED
    BY <2>3, <2>6, <2>7, <2>8, <2>9 DEF BusInv
<1> QED
    BY <1>1, <1>2

\* Every step keeps the invariant of the bus.
LEMMA NextBus == BusInv /\ [Next]_vars => BusInv'
<1> SUFFICES ASSUME BusInv, [Next]_vars PROVE BusInv'
    OBVIOUS
<1>1. CASE UNCHANGED vars
    BY <1>1, StillBus DEF vars, bus, dispatcher
<1>2. ASSUME NEW i \in Intent, BeginAttempt(i) PROVE BusInv'
    BY <1>2, BeginAttemptBus
<1>3. CASE Serve
  <2>1. CASE Report
    BY <2>1, ReportBus
  <2>2. CASE Complete \/ Close
    BY <2>2, EndBus
  <2>3. CASE Fail
    BY <2>3, FailBus
  <2>4. CASE HasStarted
    BY <2>4, HasStartedBus
  <2>5. CASE AbandonEmpty
    BY <2>5, AbandonEmptyBus
  <2> QED
    BY <1>3, <2>1, <2>2, <2>3, <2>4, <2>5 DEF Serve
<1>4. ASSUME NEW u \in Subscriber, Stream(u) \/ Reconnect(u) \/ Disconnect(u)
      PROVE  BusInv'
  <2>1. UNCHANGED <<gens, buf, minted, server, attempts>>
    BY <1>4 DEF Stream, Start, Raises, StreamEnd, Poll, Deliver, Reconnect, Disconnect,
                bus, dispatcher
  <2> QED
    BY <2>1, StillBus
<1>5. ASSUME NEW u \in Subscriber, NEW i \in Intent, Watch(u, i) PROVE BusInv'
    BY <1>5, WatchBus
<1> QED
    BY <1>1, <1>2, <1>3, <1>4, <1>5 DEF Next

---------------------------------------------------------------------------
\* The inductive invariant of the bus.
THEOREM BusInvariance == Spec => []BusInv
<1>1. BusInv /\ [Next]_vars => BusInv'
    BY NextBus
<1> QED
    BY InitBus, <1>1, PTL DEF Spec

\* An intent never has two live generations, whatever watchers, retries and
\* evictions come between its dispatches.
THEOREM OneLiveAlways == Spec => []OneLive
<1>1. BusInv => OneLive
    BY DEF BusInv, Structure
<1> QED
    BY BusInvariance, <1>1, PTL

\* The events of two dispatch attempts never share a generation, and nothing
\* follows a terminal event.
THEOREM AttemptsIsolated == Spec => []AttemptIsolation
<1>1. BusInv => AttemptIsolation
    BY DEF BusInv
<1> QED
    BY BusInvariance, <1>1, PTL

---------------------------------------------------------------------------
\* The kinds of steps that touch a generation: an event joins one, a watcher
\* opens one, or an empty one is abandoned.
LEMMA KindsOfSteps ==
    ASSUME BusInv, [Next]_vars
    PROVE  \/ \E i \in Intent, e \in Event, g \in Generation, b \in Buf : Joins(g, b, i, e)
           \/ \E i \in Intent : Open(i, Fresh)
           \/ AbandonEmpty
           \/ gens' = gens /\ buf' = buf
<1>1. CASE Report \/ Complete \/ Close
  <2>1. server # Idle
    BY <1>1 DEF Report, Complete, Close, Idle
  <2>2. /\ server.intent \in Intent
        /\ [attempt |-> attempts, terminal |-> FALSE] \in Event
        /\ [attempt |-> attempts, terminal |-> TRUE] \in Event
    BY <2>1, InProgress
  <2>3. PICK e \in Event : Emit(server.intent, e)
    BY <1>1, <2>2 DEF Report, Complete, Close
  <2>4. \E g \in Generation, b \in Buf : Joins(g, b, server.intent, e)
    BY <2>2, <2>3, EmitFacts
  <2> QED
    BY <2>2, <2>4
<1>2. ASSUME NEW u \in Subscriber, NEW i \in Intent, Watch(u, i)
      PROVE  (gens' = gens /\ buf' = buf) \/ Open(i, Fresh)
    BY <1>2 DEF Watch
<1>3. ASSUME \/ UNCHANGED vars
             \/ \E i \in Intent : BeginAttempt(i)
             \/ Fail \/ HasStarted
             \/ \E u \in Subscriber : Stream(u) \/ Reconnect(u) \/ Disconnect(u)
      PROVE  gens' = gens /\ buf' = buf
    BY <1>3 DEF vars, bus, BeginAttempt, Fail, HasStarted, Stream, Start, Raises, StreamEnd,
                Poll, Deliver, Reconnect, Disconnect
<1> QED
    BY <1>1, <1>2, <1>3 DEF Next, Serve

\* A generation that may still receive events stays with its intent, for any
\* number of other intents and generations that compete for the bounded bus.
THEOREM LiveGenerationsKept == Spec => LiveKept
<1>1. ASSUME BusInv, [Next]_vars, NEW i \in Intent, NEW g \in gens[i], ~buf[g].completed
      PROVE  g \in gens'[i]
  <2>1. ASSUME NEW j \in Intent, NEW e \in Event, NEW h \in Generation, NEW b \in Buf,
               Joins(h, b, j, e)
        PROVE  g \in gens'[i]
    BY <1>1, <2>1 DEF Joins
  <2>2. ASSUME NEW j \in Intent, Open(j, Fresh) PROVE g \in gens'[i]
    BY <1>1, <2>2, OpenFacts, FreshBuf DEF BusInv
  <2>3. CASE AbandonEmpty
    BY <2>3 DEF AbandonEmpty
  <2> QED
    BY <1>1, <2>1, <2>2, <2>3, KindsOfSteps
<1>2. BusInv /\ [Next]_vars =>
        [\A i \in Intent : \A g \in gens[i] : ~buf[g].completed => g \in gens'[i]]_vars
    BY <1>1
<1> QED
    BY BusInvariance, <1>2, PTL DEF Spec, LiveKept

\* A completed generation is frozen: what it says about its attempt is never
\* taken back, extended or replaced.
THEOREM CompletedGenerationsFrozen == Spec => CompletedFrozen
<1>1. ASSUME BusInv, [Next]_vars, NEW g \in Generation, buf[g].completed
      PROVE  buf'[g] = buf[g]
  <2>0. buf \in [Generation -> Buf]
    BY <1>1 DEF BusInv, Shapes
  <2>1. ASSUME NEW j \in Intent, NEW e \in Event, NEW h \in Generation, NEW b \in Buf,
               Joins(h, b, j, e)
        PROVE  buf'[g] = buf[g]
    BY <1>1, <2>0, <2>1 DEF Joins
  <2>2. ASSUME NEW j \in Intent, Open(j, Fresh) PROVE buf'[g] = buf[g]
    <3>1. buf' = [buf EXCEPT ![minted + 1] = Fresh] /\ minted + 1 \in Generation
      BY <1>1, <2>2, OpenFacts, FreshBuf DEF BusInv
    <3>2. minted + 1 > minted
      BY <1>1, BoundAssumption DEF BusInv, Shapes
    <3>3. ~buf[minted + 1].completed
      BY <1>1, <3>1, <3>2, FreshBuf DEF BusInv, Shapes
    <3> QED
      BY <1>1, <2>0, <3>1, <3>3
  <2>3. CASE AbandonEmpty
    BY <1>1, <2>3 DEF AbandonEmpty, Abandoned, Live
  <2> QED
    BY <1>1, <2>1, <2>2, <2>3, KindsOfSteps
<1>2. BusInv /\ [Next]_vars =>
        [\A g \in Generation : buf[g].completed => buf'[g] = buf[g]]_vars
    BY <1>1
<1> QED
    BY BusInvariance, <1>2, PTL DEF Spec, CompletedFrozen

\* The two together, as the run checks them.
THEOREM GenerationsAlwaysKept == Spec => GenerationsKept
<1>1. [\A i \in Intent : \A g \in gens[i] : ~buf[g].completed => g \in gens'[i]]_vars
      /\ [\A g \in Generation : buf[g].completed => buf'[g] = buf[g]]_vars
      => [/\ \A i \in Intent : \A g \in gens[i] : ~buf[g].completed => g \in gens'[i]
          /\ \A g \in Generation : buf[g].completed => buf'[g] = buf[g]]_vars
  OBVIOUS
<1> QED
  BY LiveGenerationsKept, CompletedGenerationsFrozen, <1>1, PTL
     DEF LiveKept, CompletedFrozen, GenerationsKept

---------------------------------------------------------------------------
(***************************************************************************)
(* The streams.  What a client was sent, and the batch it is being sent,   *)
(* are events its generation held, under the numbers they had there; and   *)
(* the buffer still says of them what was sent, as long as it holds them.  *)
(***************************************************************************)
Item == [seq : Nat \ {0}, terminal : BOOLEAN]

Phases == Streaming \cup {"off", "refused", "lost", "ended"}

Connection == [phase : Phases, intent : Intent \cup {None}, gen : Nat,
               batch : Seq(Item), got : Seq(Item)]

Consecutive(s) == \A n \in 1..(Len(s) - 1) : s[n + 1].seq = s[n].seq + 1

\* The buffer is not behind item x, and agrees with it if it still holds it.
Holds(b, x) == /\ x.seq <= b.dropped + Len(b.events)
               /\ x.seq > b.dropped => b.events[x.seq - b.dropped].terminal = x.terminal

\* A connection was never made, or names one of the m generations opened so far.
Made(c, m) == \/ c.intent \in Intent /\ c.gen \in 1..m
              \/ /\ c.intent = None /\ c.gen = 0
                 /\ c.phase = "off" /\ c.got = <<>> /\ c.batch = <<>>

\* The batch goes on where what the client received ends.
Smooth(c) == /\ Consecutive(c.got)
             /\ Consecutive(c.batch)
             /\ c.batch # <<>> <=> c.phase = "sending"
             /\ c.got # <<>> /\ c.batch # <<>> => c.batch[1].seq = c.got[Len(c.got)].seq + 1

\* The generation of the connection, in buffers f, agrees with what was sent.
Faithful(c, f) == c.intent \in Intent =>
                    /\ c.got # <<>> => Holds(f[c.gen], c.got[Len(c.got)])
                    /\ \A n \in 1..Len(c.batch) : Holds(f[c.gen], c.batch[n])

Told(c, f) == c.phase = "ended" =>
                IF c.got = <<>> THEN f[c.gen].completed /\ f[c.gen].events = <<>>
                ELSE c.got[Len(c.got)].terminal

Sound(c, m, f) == Made(c, m) /\ Smooth(c) /\ Faithful(c, f) /\ Told(c, f)

ConnInv == /\ conn \in [Subscriber -> Connection]
           /\ \A u \in Subscriber : Sound(conn[u], minted, buf)

\* Where the elements of a buffer are after an event was added to it.
LEMMA AddedShift ==
    ASSUME NEW b \in Buf, NEW e \in Event
    PROVE  /\ Added(b, e).dropped \in Nat /\ Added(b, e).dropped >= b.dropped
           /\ Added(b, e).dropped + Len(Added(b, e).events) = b.dropped + Len(b.events) + 1
           /\ \A k \in Nat : Added(b, e).dropped < k /\ k <= b.dropped + Len(b.events) =>
                 Added(b, e).events[k - Added(b, e).dropped] = b.events[k - b.dropped]
<1> DEFINE full == Len(b.events) >= MaxEvents
           rest == IF full THEN Tail(b.events) ELSE b.events
           d == IF full THEN b.dropped + 1 ELSE b.dropped
<1>1. b.events \in Seq(Event) /\ b.dropped \in Nat /\ Len(b.events) \in Nat
    BY DEF Buf
<1>2. Added(b, e).events = Append(rest, e) /\ Added(b, e).dropped = d
    BY DEF Added
<1>3. /\ rest \in Seq(Event) /\ Len(rest) = Len(b.events) - (d - b.dropped)
      /\ \A n \in 1..Len(rest) : rest[n] = b.events[n + (d - b.dropped)]
  <2>1. CASE full
    <3>1. b.events # <<>>
      BY <2>1, <1>1, BoundAssumption
    <3>2. /\ Tail(b.events) \in Seq(Event) /\ Len(Tail(b.events)) = Len(b.events) - 1
          /\ \A n \in 1..Len(Tail(b.events)) : Tail(b.events)[n] = b.events[n + 1]
      BY <3>1, <1>1, HeadTailProperties
    <3>3. d - b.dropped = 1
      BY <2>1, <1>1
    <3> QED
      BY <2>1, <3>2, <3>3
  <2>2. CASE ~full
    <3>1. d - b.dropped = 0
      BY <2>2, <1>1
    <3> QED
      BY <2>2, <3>1, <1>1
  <2> QED
    BY <2>1, <2>2
<1>4. d \in Nat /\ d >= b.dropped
    BY <1>1
<1> HIDE DEF rest, d
<1>5. /\ Len(Append(rest, e)) = Len(rest) + 1
      /\ \A n \in 1..Len(rest) : Append(rest, e)[n] = rest[n]
    BY <1>3, AppendProperties
<1>6. ASSUME NEW k \in Nat, d < k, k <= b.dropped + Len(b.events)
      PROVE  Append(rest, e)[k - d] = b.events[k - b.dropped]
  <2>1. k - d \in 1..Len(rest)
    BY <1>6, <1>1, <1>3, <1>4
  <2>2. rest[k - d] = b.events[(k - d) + (d - b.dropped)]
    BY <2>1, <1>3
  <2>3. (k - d) + (d - b.dropped) = k - b.dropped
    BY <1>1, <1>4
  <2> QED
    BY <2>1, <2>2, <2>3, <1>5
<1>7. Added(b, e).dropped + Len(Added(b, e).events) = b.dropped + Len(b.events) + 1
  <2>1. Len(rest) \in Nat
    BY <1>3
  <2> QED
    BY <2>1, <1>1, <1>2, <1>3, <1>4, <1>5
<1>8. Added(b, e).dropped \in Nat /\ Added(b, e).dropped >= b.dropped
    BY <1>2, <1>4
<1>9. \A k \in Nat : Added(b, e).dropped < k /\ k <= b.dropped + Len(b.events) =>
        Added(b, e).events[k - Added(b, e).dropped] = b.events[k - b.dropped]
    BY <1>2, <1>6
<1> QED
    BY <1>7, <1>8, <1>9

\* What a generation may become in one step, once it was opened.
Became(g) == \/ buf'[g] = buf[g]
             \/ ~buf[g].completed /\ \E e \in Event : buf'[g] = Added(buf[g], e)
             \/ /\ ~buf[g].completed /\ buf[g].events = <<>>
                /\ buf'[g] = [buf[g] EXCEPT !.completed = TRUE]

\* What a generation that was opened may become in one step.
LEMMA BufferSteps ==
    ASSUME BusInv, [Next]_vars
    PROVE  /\ minted' \in Nat /\ minted' >= minted
           /\ \A g \in 1..minted : Became(g)
<1>1. /\ minted \in Nat /\ 1..minted \subseteq Generation /\ buf \in [Generation -> Buf]
      /\ \A i \in Intent : gens[i] \subseteq 1..minted
    BY BoundAssumption DEF BusInv, Shapes, Generation
<1>2. ASSUME NEW i \in Intent, NEW b \in Buf, Open(i, b)
      PROVE  minted' \in Nat /\ minted' >= minted /\ \A g \in 1..minted : Became(g)
  <2>1. minted' = minted + 1 /\ buf' = [buf EXCEPT ![minted + 1] = b]
    BY <1>2, OpenFacts DEF BusInv
  <2>2. \A g \in 1..minted : g # minted + 1 /\ buf'[g] = buf[g]
    BY <2>1, <1>1
  <2> QED
    BY <2>1, <2>2, <1>1 DEF Became
<1>3. CASE Report \/ Complete \/ Close
  <2>1. server # Idle
    BY <1>3 DEF Report, Complete, Close, Idle
  <2>2. /\ server.intent \in Intent
        /\ [attempt |-> attempts, terminal |-> FALSE] \in Event
        /\ [attempt |-> attempts, terminal |-> TRUE] \in Event
    BY <2>1, InProgress
  <2>3. PICK e \in Event : Emit(server.intent, e)
    BY <1>3, <2>2 DEF Report, Complete, Close
  <2> DEFINE i == server.intent
  <2>4. CASE Live(i)
    <3>1. Active(i) \in gens[i] /\ ~buf[Active(i)].completed
      BY <2>2, <2>4, ActiveNewest DEF Live, BusInv
    <3>2. buf' = [buf EXCEPT ![Active(i)] = Added(buf[Active(i)], e)] /\ minted' = minted
      BY <2>3, <2>4 DEF Emit
    <3>3. ASSUME NEW g \in 1..minted PROVE Became(g)
      BY <3>1, <3>2, <1>1 DEF Became
    <3> QED
      BY <3>2, <3>3, <1>1
  <2>5. CASE ~Live(i)
    <3>1. Open(i, Added(Fresh, e)) /\ Added(Fresh, e) \in Buf
      BY <2>3, <2>5, AddedFacts, FreshBuf DEF Emit
    <3> QED
      BY <3>1, <2>2, <1>2
  <2> QED
    BY <2>4, <2>5
<1>4. ASSUME NEW u \in Subscriber, NEW i \in Intent, Watch(u, i)
      PROVE  minted' \in Nat /\ minted' >= minted /\ \A g \in 1..minted : Became(g)
  <2>1. CASE Live(i)
    BY <2>1, <1>4, <1>1 DEF Watch, Became
  <2>2. CASE ~Live(i)
    <3>1. Open(i, Fresh) /\ Fresh \in Buf
      BY <2>2, <1>4, FreshBuf DEF Watch
    <3> QED
      BY <3>1, <1>2
  <2> QED
    BY <2>1, <2>2
<1>5. CASE AbandonEmpty
  <2>1. minted' = minted
    BY <1>5 DEF AbandonEmpty
  <2>2. ASSUME NEW g \in 1..minted PROVE Became(g)
    <3>1. CASE g \in Abandoned(server.intent)
      BY <3>1, <1>1, <1>5 DEF AbandonEmpty, Abandoned, Live, Became
    <3>2. CASE g \notin Abandoned(server.intent)
      BY <3>2, <1>1, <1>5 DEF AbandonEmpty, Became
    <3> QED
      BY <3>1, <3>2
  <2> QED
    BY <2>1, <2>2, <1>1
<1>6. ASSUME \/ UNCHANGED vars
             \/ \E i \in Intent : BeginAttempt(i)
             \/ Fail \/ HasStarted
             \/ \E u \in Subscriber : Stream(u) \/ Reconnect(u) \/ Disconnect(u)
      PROVE  minted' = minted /\ buf' = buf
    BY <1>6 DEF vars, bus, BeginAttempt, Fail, HasStarted, Stream, Start, Raises, StreamEnd,
                Poll, Deliver, Reconnect, Disconnect
<1>7. CASE minted' = minted /\ buf' = buf
    BY <1>1, <1>7 DEF Became
<1> QED
    BY <1>3, <1>4, <1>5, <1>6, <1>7 DEF Next, Serve

\* An event that joins a buffer leaves it in agreement with what was sent.
LEMMA HoldsAdded ==
    ASSUME NEW b \in Buf, NEW e \in Event, NEW x \in Item, Holds(b, x)
    PROVE  Holds(Added(b, e), x)
<1> DEFINE a == Added(b, e)
<1>1. /\ a.dropped \in Nat /\ a.dropped >= b.dropped
      /\ a.dropped + Len(a.events) = b.dropped + Len(b.events) + 1
      /\ \A k \in Nat : a.dropped < k /\ k <= b.dropped + Len(b.events) =>
            a.events[k - a.dropped] = b.events[k - b.dropped]
    BY AddedShift
<1>2. b.dropped \in Nat /\ Len(b.events) \in Nat /\ x.seq \in Nat
    BY DEF Buf, Item
<1> HIDE DEF a
<1>3. x.seq <= a.dropped + Len(a.events)
    BY <1>1, <1>2 DEF Holds
<1>4. ASSUME x.seq > a.dropped PROVE a.events[x.seq - a.dropped].terminal = x.terminal
  <2>1. x.seq > b.dropped /\ x.seq <= b.dropped + Len(b.events)
    BY <1>1, <1>2, <1>4 DEF Holds
  <2>2. b.events[x.seq - b.dropped].terminal = x.terminal
    BY <2>1 DEF Holds
  <2>3. a.events[x.seq - a.dropped] = b.events[x.seq - b.dropped]
    BY <2>1, <1>1, <1>2, <1>4
  <2> QED
    BY <2>2, <2>3
<1>5. Holds(a, x)
    BY <1>3, <1>4 DEF Holds
<1>6. a = Added(b, e)
    BY DEF a
<1> QED
    BY <1>5, <1>6

\* So does any step.
LEMMA HoldsKept ==
    ASSUME BusInv, [Next]_vars, NEW g \in 1..minted, NEW x \in Item, Holds(buf[g], x)
    PROVE  Holds(buf'[g], x)
<1>1. Became(g)
    BY BufferSteps
<1>2. buf[g] \in Buf
    BY BoundAssumption DEF BusInv, Shapes, Generation
<1>3. CASE buf'[g] = buf[g]
    BY <1>3
<1>4. CASE \E e \in Event : buf'[g] = Added(buf[g], e)
    BY <1>2, <1>4, HoldsAdded
<1>5. CASE buf'[g] = [buf[g] EXCEPT !.completed = TRUE]
    BY <1>2, <1>5 DEF Holds, Buf
<1> QED
    BY <1>1, <1>3, <1>4, <1>5 DEF Became

\* A connection that a step leaves alone stays sound.
LEMMA StillSound ==
    ASSUME BusInv, [Next]_vars, NEW c \in Connection, Sound(c, minted, buf)
    PROVE  Sound(c, minted', buf')
<1>1. minted \in Nat /\ minted' \in Nat /\ minted' >= minted /\ \A g \in 1..minted : Became(g)
    BY BufferSteps DEF BusInv, Shapes
<1>2. /\ c.got \in Seq(Item) /\ c.batch \in Seq(Item)
      /\ c.got # <<>> => c.got[Len(c.got)] \in Item
      /\ \A n \in 1..Len(c.batch) : c.batch[n] \in Item
    BY DEF Connection
<1>3. Made(c, minted') /\ Smooth(c)
    BY <1>1 DEF Sound, Made
<1>4. ASSUME c.intent \in Intent
      PROVE  c.gen \in 1..minted /\ buf[c.gen] \in Buf
    BY <1>4, NoneAssumption, BoundAssumption DEF Sound, Made, BusInv, Shapes, Generation
<1>5. Faithful(c, buf')
    BY <1>2, <1>4, HoldsKept DEF Sound, Faithful
<1>6. Told(c, buf')
  <2>1. ASSUME c.phase = "ended", c.got = <<>>
        PROVE  buf'[c.gen].completed /\ buf'[c.gen].events = <<>>
    <3>1. c.intent \in Intent /\ buf[c.gen].completed /\ buf[c.gen].events = <<>>
      BY <2>1 DEF Sound, Made, Told
    <3>2. buf'[c.gen] = buf[c.gen]
      BY <3>1, <1>1, <1>4 DEF Became
    <3> QED
      BY <3>1, <3>2
  <2> QED
    BY <2>1 DEF Sound, Told
<1> QED
    BY <1>3, <1>5, <1>6 DEF Sound

---------------------------------------------------------------------------
\* The facts about the connection of u that its steps rely on.
LEMMA AtConnection ==
    ASSUME BusInv, ConnInv, NEW u \in Subscriber
    PROVE  /\ conn \in [Subscriber -> Connection] /\ conn[u] \in Connection
           /\ Sound(conn[u], minted, buf)
           /\ conn[u].got \in Seq(Item) /\ conn[u].batch \in Seq(Item)
           /\ conn[u].phase # "off" \/ conn[u].got # <<>> =>
                conn[u].intent \in Intent /\ conn[u].gen \in 1..minted
           /\ conn[u].intent \in Intent => buf[conn[u].gen] \in Buf
           /\ conn[u].phase # "sending" => conn[u].batch = <<>>
<1>1. conn \in [Subscriber -> Connection] /\ Sound(conn[u], minted, buf)
    BY DEF ConnInv
<1>2. conn[u].intent \in Intent => conn[u].gen \in 1..minted /\ buf[conn[u].gen] \in Buf
    BY <1>1, NoneAssumption, BoundAssumption DEF Sound, Made, BusInv, Shapes, Generation
<1>3. conn[u].got \in Seq(Item) /\ conn[u].batch \in Seq(Item)
    BY <1>1 DEF Connection
<1> QED
    BY <1>1, <1>2, <1>3 DEF Sound, Made, Smooth

\* A stream that sends nothing and has not ended is as sound as it was.
LEMMA Paused ==
    ASSUME NEW c \in Connection, NEW d \in Connection, NEW m \in Nat, NEW f,
           Sound(c, m, f), c.intent \in Intent,
           d.intent = c.intent, d.gen = c.gen, d.got = c.got, d.batch = <<>>,
           d.phase \notin {"sending", "ended"}
    PROVE  Sound(d, m, f)
<1>1. Made(d, m)
    BY NoneAssumption DEF Sound, Made
<1>2. Smooth(d)
    BY DEF Sound, Smooth, Consecutive
<1>3. Faithful(d, f)
    BY DEF Sound, Faithful
<1>4. Told(d, f)
    BY DEF Told
<1> QED
    BY <1>1, <1>2, <1>3, <1>4 DEF Sound

\* Start, Raises, Disconnect and Reconnect: only the phase moves, or a batch is given up.
LEMMA PausingSteps ==
    ASSUME BusInv, ConnInv, NEW u \in Subscriber,
           Start(u) \/ Raises(u) \/ Disconnect(u) \/ Reconnect(u)
    PROVE  conn'[u] \in Connection /\ Sound(conn'[u], minted', buf')
<1> DEFINE c == conn[u]
<1>1. minted' = minted /\ buf' = buf /\ minted \in Nat
    BY BoundAssumption DEF BusInv, Shapes, Start, Raises, Disconnect, Reconnect, bus
<1>2. c \in Connection /\ Sound(c, minted, buf) /\ c.intent \in Intent
    BY AtConnection DEF Start, Raises, Disconnect, Reconnect, Streaming
<1>3. PICK p \in {"polling", "refused", "lost", "watched", "off"} :
        \/ conn' = [conn EXCEPT ![u].phase = p] /\ c.batch = <<>>
        \/ conn' = [conn EXCEPT ![u].phase = p, ![u].batch = <<>>]
  <2>1. CASE Start(u)
    BY <2>1, AtConnection DEF Start, Move
  <2>2. CASE Raises(u)
    BY <2>2, AtConnection DEF Raises, Move
  <2>3. CASE Reconnect(u)
    BY <2>3, AtConnection DEF Reconnect, Move, Streaming
  <2>4. CASE Disconnect(u)
    BY <2>4 DEF Disconnect
  <2> QED
    BY <2>1, <2>2, <2>3, <2>4
<1>4. /\ conn'[u] \in Connection /\ conn'[u].batch = <<>> /\ conn'[u].phase = p
      /\ conn'[u].intent = c.intent /\ conn'[u].gen = c.gen /\ conn'[u].got = c.got
  <2>1. conn \in [Subscriber -> Connection]
    BY DEF ConnInv
  <2>0. p \in Phases /\ <<>> \in Seq(Item)
    BY DEF Phases, Streaming
  <2>2. CASE conn' = [conn EXCEPT ![u].phase = p] /\ c.batch = <<>>
    <3>1. conn'[u] = [c EXCEPT !.phase = p]
      BY <2>1, <2>2
    <3> QED
      BY <3>1, <1>2, <2>0, <2>2 DEF Connection
  <2>3. CASE conn' = [conn EXCEPT ![u].phase = p, ![u].batch = <<>>]
    <3>1. conn'[u] = [c EXCEPT !.phase = p, !.batch = <<>>]
      BY <2>1, <2>3
    <3> QED
      BY <3>1, <1>2, <2>0 DEF Connection
  <2> QED
    BY <1>3, <2>2, <2>3
<1> QED
    BY <1>1, <1>2, <1>4, Paused

\* A new client starts with nothing received, on a generation that exists.
LEMMA WatchConn ==
    ASSUME BusInv, ConnInv, NEW u \in Subscriber, NEW i \in Intent, Watch(u, i)
    PROVE  conn'[u] \in Connection /\ Sound(conn'[u], minted', buf')
<1> DEFINE d == conn'[u]
<1>1. /\ d.phase = "watched" /\ d.intent = i /\ d.batch = <<>> /\ d.got = <<>>
      /\ d.gen = IF Live(i) THEN Active(i) ELSE minted + 1
      /\ d = [phase |-> "watched", intent |-> i, gen |-> d.gen, batch |-> <<>>, got |-> <<>>]
    BY DEF Watch, ConnInv, NoConnection
<1>2. d.gen \in 1..minted'
  <2>1. minted \in Nat
    BY BoundAssumption DEF BusInv, Shapes
  <2>2. CASE Live(i)
    <3>1. Active(i) \in 1..minted /\ minted' = minted
      BY <2>2, ActiveNewest DEF BusInv, Shapes, Live, Watch
    <3> QED
      BY <3>1, <2>2, <1>1
  <2>3. CASE ~Live(i)
    <3>1. minted' = minted + 1
      BY <2>3 DEF Watch, Open
    <3> QED
      BY <3>1, <2>1, <2>3, <1>1
  <2> QED
    BY <2>2, <2>3
<1>3. d \in Connection
  <2>1. d.gen \in Nat
    BY <1>2, BufferSteps DEF Next
  <2>2. <<>> \in Seq(Item) /\ "watched" \in Phases
    BY DEF Phases, Streaming
  <2>3. [phase |-> "watched", intent |-> i, gen |-> d.gen, batch |-> <<>>, got |-> <<>>]
          \in Connection
    BY <2>1, <2>2 DEF Connection
  <2> QED
    BY <2>3, <1>1
<1>4. Sound(d, minted', buf')
    BY <1>1, <1>2 DEF Sound, Made, Smooth, Consecutive, Faithful, Told
<1> QED
    BY <1>3, <1>4

\* Where the client of u is in its generation, and what is replayed to it.
LEMMA ReplayFacts ==
    ASSUME BusInv, ConnInv, NEW u \in Subscriber, conn[u].phase = "polling", ~Lost(u)
    PROVE  \E from \in Nat :
             /\ Buffer(u) \in Buf /\ from >= Buffer(u).dropped
             /\ conn[u].got # <<>> => /\ from = conn[u].got[Len(conn[u].got)].seq
                                      /\ from > Buffer(u).dropped
             /\ conn[u].got = <<>> => from = Buffer(u).dropped
             /\ from <= Buffer(u).dropped + Len(Buffer(u).events)
             /\ Replay(u) \in Seq(Item)
             /\ Len(Replay(u)) = Buffer(u).dropped + Len(Buffer(u).events) - from
             /\ \A n \in 1..Len(Replay(u)) :
                  /\ Replay(u)[n].seq = from + n
                  /\ Holds(Buffer(u), Replay(u)[n])
<1> DEFINE b == Buffer(u)
           N == Len(b.events)
           all == [n \in 1..N |-> [seq |-> b.dropped + n, terminal |-> b.events[n].terminal]]
           seen == IF LastSeen(u) <= b.dropped THEN 0 ELSE LastSeen(u) - b.dropped
           from == b.dropped + seen
<1>1. b \in Buf /\ b.dropped \in Nat /\ b.events \in Seq(Event) /\ N \in Nat
    BY AtConnection DEF Buffer, Buf
<1>2. conn[u].got \in Seq(Item)
    BY AtConnection
<1>3. ASSUME conn[u].got # <<>>
      PROVE  /\ LastSeen(u) = conn[u].got[Len(conn[u].got)].seq /\ LastSeen(u) \in Nat \ {0}
             /\ LastSeen(u) > b.dropped /\ LastSeen(u) <= b.dropped + N
  <2>1. conn[u].got[Len(conn[u].got)] \in Item
    BY <1>2, <1>3
  <2>2. LastSeen(u) = conn[u].got[Len(conn[u].got)].seq
    BY <1>3 DEF LastSeen, Last
  <2>3. LastSeen(u) \in Nat \ {0}
    BY <2>1, <2>2 DEF Item
  <2>4. ~(LastSeen(u) <= b.dropped) /\ ~(LastSeen(u) > b.dropped + N)
    BY <2>3 DEF Lost
  <2> QED
    BY <2>2, <2>3, <2>4, <1>1
<1>4. ASSUME conn[u].got = <<>> PROVE LastSeen(u) = 0
    BY <1>4 DEF LastSeen
<1>5. /\ seen \in Nat /\ seen <= N
      /\ conn[u].got # <<>> => from = LastSeen(u)
      /\ conn[u].got = <<>> => from = b.dropped
    BY <1>1, <1>3, <1>4
<1>6. /\ all \in Seq(Item) /\ Len(all) = N
      /\ \A n \in 1..N : all[n].seq = b.dropped + n /\ all[n].terminal = b.events[n].terminal
  <2>1. \A n \in 1..N : [seq |-> b.dropped + n, terminal |-> b.events[n].terminal] \in Item
    <3> TAKE n \in 1..N
    <3>1. b.events[n] \in Event /\ b.dropped + n \in Nat \ {0}
      BY <1>1
    <3> QED
      BY <3>1 DEF Item, Event
  <2>2. all \in [1..N -> Item]
    BY <2>1
  <2>3. \A n \in 1..N : all[n].seq = b.dropped + n /\ all[n].terminal = b.events[n].terminal
    OBVIOUS
  <2> HIDE DEF all
  <2>4. all \in Seq(Item) /\ Len(all) = N
    BY <2>2, <1>1
  <2> QED
    BY <2>3, <2>4
<1> DEFINE r == SubSeq(all, seen + 1, Len(all))
<1>7. Replay(u) = r
    BY DEF Replay
<1> HIDE DEF b, all, seen
<1>8. /\ r \in Seq(Item) /\ Len(r) = N - seen
      /\ \A n \in 1..Len(r) : r[n] = all[n + seen]
  <2>1. \A k \in (seen + 1)..N : all[k] \in Item
    BY <1>1, <1>5, <1>6
  <2>2. seen + 1 \in Int /\ N \in Int
    BY <1>1, <1>5
  <2>3. /\ SubSeq(all, seen + 1, N) \in Seq(Item)
        /\ Len(SubSeq(all, seen + 1, N)) = IF seen + 1 <= N THEN N - (seen + 1) + 1 ELSE 0
        /\ \A n \in 1..(N - (seen + 1) + 1) :
              SubSeq(all, seen + 1, N)[n] = all[(seen + 1) + n - 1]
    BY <2>1, <2>2, SubSeqProperties
  <2>4. Len(r) = N - seen
    BY <2>3, <1>1, <1>5, <1>6
  <2>5. \A n \in 1..Len(r) : r[n] = all[n + seen]
    <3> TAKE n \in 1..Len(r)
    <3>1. n \in 1..(N - (seen + 1) + 1) /\ (seen + 1) + n - 1 = n + seen
      BY <2>4, <1>1, <1>5
    <3> QED
      BY <3>1, <2>3, <1>6
  <2> QED
    BY <2>3, <2>4, <2>5, <1>6
<1> HIDE DEF r
<1>9. \A n \in 1..Len(r) : r[n].seq = from + n /\ Holds(b, r[n])
  <2> TAKE n \in 1..Len(r)
  <2>1. n + seen \in 1..N
    BY <1>1, <1>5, <1>8
  <2>2. r[n].seq = from + n
    <3>1. r[n].seq = b.dropped + (n + seen)
      BY <2>1, <1>6, <1>8
    <3> QED
      BY <3>1, <1>1, <1>5
  <2>3. r[n].terminal = b.events[n + seen].terminal
    BY <2>1, <1>6, <1>8
  <2>4. r[n].seq - b.dropped = n + seen /\ r[n].seq <= b.dropped + N
    BY <2>1, <2>2, <1>1, <1>5
  <2> QED
    BY <2>2, <2>3, <2>4 DEF Holds
<1>10. from \in Nat /\ from >= b.dropped /\ from <= b.dropped + N
    BY <1>1, <1>5
<1>11. Len(r) = b.dropped + N - from
    BY <1>1, <1>5, <1>8
<1> HIDE DEF from
<1>12. b = Buffer(u)
    BY DEF b
<1> QED
    BY <1>1, <1>3, <1>5, <1>7, <1>8, <1>9, <1>10, <1>11, <1>12

\* A stream ends only when the client has all of a completed generation, the
\* last event of which tells how the attempt went.
LEMMA StreamEndConn ==
    ASSUME BusInv, ConnInv, NEW u \in Subscriber, StreamEnd(u)
    PROVE  conn'[u] \in Connection /\ Sound(conn'[u], minted', buf')
<1> DEFINE c == conn[u]
           d == conn'[u]
<1>1. minted' = minted /\ buf' = buf
    BY DEF StreamEnd, bus
<1>2. /\ c \in Connection /\ Sound(c, minted, buf) /\ c.got \in Seq(Item) /\ c.batch = <<>>
      /\ c.phase = "polling" /\ ~Lost(u) /\ Buffer(u).completed /\ Replay(u) = <<>>
      /\ c.intent \in Intent /\ c.gen \in 1..minted
    BY AtConnection DEF StreamEnd, Ends
<1>3. d = [c EXCEPT !.phase = "ended"]
    BY AtConnection DEF StreamEnd, Move
<1>4. /\ d \in Connection /\ d.phase = "ended" /\ d.intent = c.intent /\ d.gen = c.gen
      /\ d.got = c.got /\ d.batch = <<>>
  <2>1. "ended" \in Phases
    BY DEF Phases
  <2> QED
    BY <2>1, <1>2, <1>3 DEF Connection
<1>5. PICK from \in Nat :
             /\ Buffer(u) \in Buf /\ from >= Buffer(u).dropped
             /\ c.got # <<>> => from = c.got[Len(c.got)].seq /\ from > Buffer(u).dropped
             /\ c.got = <<>> => from = Buffer(u).dropped
             /\ 0 = Buffer(u).dropped + Len(Buffer(u).events) - from
  <2>1. Len(Replay(u)) = 0
    BY <1>2
  <2> QED
    BY <1>2, <2>1, ReplayFacts
<1>6. Buffer(u) = buf[c.gen] /\ Buffer(u).dropped \in Nat /\ Len(Buffer(u).events) \in Nat
      /\ Buffer(u).events \in Seq(Event)
    BY <1>5 DEF Buffer, Buf
<1>7. ASSUME c.got = <<>> PROVE Buffer(u).events = <<>>
    BY <1>5, <1>6, <1>7
<1>8. ASSUME c.got # <<>> PROVE c.got[Len(c.got)].terminal
  <2>1. c.got[Len(c.got)].seq - Buffer(u).dropped = Len(Buffer(u).events)
    <3>1. c.got[Len(c.got)].seq = from
      BY <1>5, <1>8
    <3> HIDE DEF c
    <3> QED
      BY <3>1, <1>5, <1>6
  <2>2. Holds(Buffer(u), c.got[Len(c.got)])
    BY <1>2, <1>6, <1>8 DEF Sound, Faithful
  <2>3. Buffer(u).events[Len(Buffer(u).events)].terminal = c.got[Len(c.got)].terminal
    BY <2>1, <2>2, <1>5, <1>6, <1>8 DEF Holds
  <2>4. Buffer(u).events # <<>>
    BY <1>5, <1>6, <1>8
  <2>5. Buffer(u).events[Len(Buffer(u).events)].terminal
    <3>1. c.gen \in Generation
      BY <1>2, BoundAssumption DEF BusInv, Shapes, Generation
    <3> QED
      BY <3>1, <2>4, <1>2, <1>6 DEF BusInv, Sealed
  <2> QED
    BY <2>3, <2>5
<1>9. Made(d, minted) /\ Smooth(d) /\ Faithful(d, buf)
    BY <1>2, <1>4 DEF Sound, Made, Smooth, Consecutive, Faithful
<1>10. Told(d, buf)
    BY <1>2, <1>4, <1>6, <1>7, <1>8 DEF Told
<1> QED
    BY <1>1, <1>4, <1>9, <1>10 DEF Sound

\* A batch begins where what the client received ends.
LEMMA PollConn ==
    ASSUME BusInv, ConnInv, NEW u \in Subscriber, Poll(u)
    PROVE  conn'[u] \in Connection /\ Sound(conn'[u], minted', buf')
<1> DEFINE c == conn[u]
           d == conn'[u]
           r == Replay(u)
<1>1. minted' = minted /\ buf' = buf
    BY DEF Poll, bus
<1>2. /\ conn \in [Subscriber -> Connection]
      /\ c \in Connection /\ Sound(c, minted, buf) /\ c.phase = "polling" /\ ~Lost(u) /\ r # <<>>
      /\ c.intent \in Intent /\ c.gen \in 1..minted
    BY AtConnection DEF Poll
<1>3. PICK from \in Nat :
             /\ c.got # <<>> => from = c.got[Len(c.got)].seq
             /\ r \in Seq(Item)
             /\ \A n \in 1..Len(r) : r[n].seq = from + n /\ Holds(buf[c.gen], r[n])
    BY <1>2, ReplayFacts DEF Buffer
<1>4. d = [c EXCEPT !.phase = "sending", !.batch = r]
    BY <1>2 DEF Poll
<1> HIDE DEF r
<1>5. /\ d \in Connection /\ d.phase = "sending" /\ d.intent = c.intent /\ d.gen = c.gen
      /\ d.got = c.got /\ d.batch = r
  <2>1. "sending" \in Phases
    BY DEF Phases, Streaming
  <2> QED
    BY <2>1, <1>2, <1>3, <1>4 DEF Connection
<1> HIDE DEF d, c
<1>6. Consecutive(r) /\ r[1].seq = from + 1
  <2>1. Len(r) \in Nat /\ 1 \in 1..Len(r)
    BY <1>2, <1>3
  <2>2. ASSUME NEW n \in 1..(Len(r) - 1) PROVE r[n + 1].seq = r[n].seq + 1
    <3>1. n \in 1..Len(r) /\ n + 1 \in 1..Len(r)
      BY <2>1, <2>2
    <3>2. r[n].seq = from + n /\ r[n + 1].seq = from + (n + 1)
      BY <3>1, <1>3
    <3> QED
      BY <3>2
  <2> QED
    BY <2>1, <2>2, <1>3 DEF Consecutive
<1>7. Smooth(d)
    BY <1>2, <1>3, <1>5, <1>6 DEF Sound, Smooth
<1>8. Made(d, minted) /\ Faithful(d, buf) /\ Told(d, buf)
    BY <1>2, <1>3, <1>5 DEF Sound, Made, Faithful, Told
<1> QED
    BY <1>1, <1>5, <1>7, <1>8 DEF Sound, d

\* An event moves from the batch to the client, in the order of the batch.
LEMMA DeliverConn ==
    ASSUME BusInv, ConnInv, NEW u \in Subscriber, Deliver(u)
    PROVE  conn'[u] \in Connection /\ Sound(conn'[u], minted', buf')
<1> DEFINE c == conn[u]
           d == conn'[u]
           e == Head(c.batch)
           rest == Tail(c.batch)
           next == IF e.terminal THEN "ended" ELSE IF rest = <<>> THEN "polling" ELSE "sending"
           left == IF next = "sending" THEN rest ELSE <<>>
<1>1. minted' = minted /\ buf' = buf
    BY DEF Deliver, bus
<1>2. /\ conn \in [Subscriber -> Connection]
      /\ c \in Connection /\ Sound(c, minted, buf) /\ c.phase = "sending"
      /\ c.got \in Seq(Item) /\ c.batch \in Seq(Item) /\ c.batch # <<>>
      /\ c.intent \in Intent /\ c.gen \in 1..minted
    BY AtConnection DEF Deliver, Sound, Smooth
<1>3. /\ e \in Item /\ e = c.batch[1] /\ rest \in Seq(Item) /\ Len(rest) = Len(c.batch) - 1
      /\ \A n \in 1..Len(rest) : rest[n] = c.batch[n + 1]
    BY <1>2, HeadTailProperties
<1>4. d = [c EXCEPT !.phase = next, !.batch = left, !.got = Append(@, e)]
    BY <1>2 DEF Deliver
<1>5. next \in {"ended", "polling", "sending"} /\ left \in Seq(Item)
      /\ (next = "sending" <=> left # <<>>) /\ (left = rest \/ left = <<>>)
      /\ (next = "ended" => e.terminal)
    BY <1>3
<1> HIDE DEF e, rest, next, left
<1>6. /\ Append(c.got, e) \in Seq(Item) /\ Append(c.got, e) # <<>>
      /\ Len(Append(c.got, e)) = Len(c.got) + 1
      /\ \A n \in 1..Len(c.got) : Append(c.got, e)[n] = c.got[n]
      /\ Append(c.got, e)[Len(c.got) + 1] = e
  <2>1. c.got \in Seq(Item) /\ e \in Item
    BY <1>2, <1>3
  <2> HIDE DEF c
  <2>2. Append(c.got, e) # <<>>
    BY <2>1, AppendProperties
  <2>3. /\ Append(c.got, e) \in Seq(Item) /\ Len(Append(c.got, e)) = Len(c.got) + 1
        /\ \A n \in 1..Len(c.got) : Append(c.got, e)[n] = c.got[n]
        /\ Append(c.got, e)[Len(c.got) + 1] = e
    BY <2>1, AppendProperties
  <2> QED
    BY <2>2, <2>3
<1>7. /\ d \in Connection /\ d.phase = next /\ d.intent = c.intent /\ d.gen = c.gen
      /\ d.got = Append(c.got, e) /\ d.batch = left
  <2>1. next \in Phases
    BY <1>5 DEF Phases, Streaming
  <2> DEFINE g == Append(c.got, e)
  <2>2. d = [c EXCEPT !.phase = next, !.batch = left, !.got = g] /\ g \in Seq(Item)
    BY <1>4, <1>6
  <2>3. c \in Connection /\ left \in Seq(Item)
    BY <1>2, <1>5
  <2> HIDE DEF c, d, g
  <2>4. /\ d \in Connection /\ d.phase = next /\ d.intent = c.intent /\ d.gen = c.gen
        /\ d.got = g /\ d.batch = left
    BY <2>1, <2>2, <2>3 DEF Connection
  <2> QED
    BY <2>4 DEF g
<1>8. /\ Len(c.batch) \in Nat /\ Len(c.batch) > 0 /\ Len(c.got) \in Nat
      /\ c.got # <<>> => Len(c.got) > 0
    BY <1>2
<1>9. /\ Smooth(c) /\ Faithful(c, buf)
    BY <1>2 DEF Sound
<1> HIDE DEF c, d
<1>10. Consecutive(d.got)
  <2>1. ASSUME NEW n \in 1..(Len(d.got) - 1) PROVE d.got[n + 1].seq = d.got[n].seq + 1
    <3>1. n \in 1..Len(c.got) /\ d.got[n] = c.got[n]
      BY <2>1, <1>6, <1>7, <1>8
    <3>2. CASE n = Len(c.got)
      <4>1. c.got # <<>>
        BY <3>1, <3>2
      <4>2. d.got[n + 1] = c.batch[1]
        BY <3>2, <1>3, <1>6, <1>7
      <4> QED
        BY <4>1, <4>2, <3>1, <3>2, <1>2, <1>9 DEF Smooth
    <3>3. CASE n # Len(c.got)
      <4>1. n \in 1..(Len(c.got) - 1) /\ n + 1 \in 1..Len(c.got)
        BY <3>1, <3>3, <1>8
      <4>2. c.got[n + 1].seq = c.got[n].seq + 1
        BY <4>1, <1>9 DEF Smooth, Consecutive
      <4> QED
        BY <4>1, <4>2, <3>1, <1>6, <1>7
    <3> QED
      BY <3>2, <3>3
  <2> QED
    BY <2>1 DEF Consecutive
<1>11. ASSUME left = rest, rest # <<>>
       PROVE  Consecutive(left) /\ left[1].seq = e.seq + 1
  <2>1. ASSUME NEW n \in 1..(Len(c.batch) - 1) PROVE c.batch[n + 1].seq = c.batch[n].seq + 1
    BY <1>9 DEF Smooth, Consecutive
  <2>2. ASSUME NEW n \in 1..(Len(rest) - 1) PROVE rest[n + 1].seq = rest[n].seq + 1
    <3>1. n \in 1..Len(rest) /\ n + 1 \in 1..Len(rest) /\ n + 1 \in 1..(Len(c.batch) - 1)
      BY <1>3, <1>8
    <3>2. rest[n] = c.batch[n + 1] /\ rest[n + 1] = c.batch[(n + 1) + 1]
      BY <3>1, <1>3
    <3> QED
      BY <3>1, <3>2, <2>1
  <2>3. 1 \in 1..Len(rest) /\ 1 \in 1..(Len(c.batch) - 1)
    BY <1>3, <1>8, <1>11
  <2>4. rest[1] = c.batch[1 + 1]
    BY <2>3, <1>3
  <2>5. rest[1].seq = e.seq + 1
    BY <2>1, <2>3, <2>4, <1>3
  <2> QED
    BY <2>2, <2>5, <1>11 DEF Consecutive
<1>12. Smooth(d)
  <2>1. d.got[Len(d.got)] = e
    BY <1>6, <1>7
  <2>2. CASE left = <<>>
    BY <2>2, <1>5, <1>7, <1>10 DEF Smooth, Consecutive
  <2>3. CASE left # <<>>
    BY <2>1, <2>3, <1>5, <1>7, <1>10, <1>11 DEF Smooth
  <2> QED
    BY <2>2, <2>3
<1>13. Faithful(d, buf)
  <2>1. \A n \in 1..Len(c.batch) : Holds(buf[c.gen], c.batch[n])
    BY <1>2, <1>9 DEF Faithful
  <2>2. Holds(buf[d.gen], d.got[Len(d.got)])
    BY <2>1, <1>3, <1>6, <1>7, <1>8
  <2>3. ASSUME NEW n \in 1..Len(d.batch) PROVE Holds(buf[d.gen], d.batch[n])
    <3>1. left = rest /\ n \in 1..Len(rest)
      BY <2>3, <1>5, <1>7
    <3>2. n + 1 \in 1..Len(c.batch)
      BY <3>1, <1>3, <1>8
    <3> QED
      BY <3>1, <3>2, <2>1, <1>3, <1>7
  <2> QED
    BY <2>2, <2>3 DEF Faithful
<1>14. Made(d, minted) /\ Told(d, buf)
  <2>1. d.got # <<>> /\ d.got[Len(d.got)] = e
    BY <1>6, <1>7
  <2> QED
    BY <2>1, <1>2, <1>5, <1>7 DEF Made, Told
<1> QED
    BY <1>1, <1>7, <1>12, <1>13, <1>14 DEF Sound, d

---------------------------------------------------------------------------
\* Nobody is connected at first.
LEMMA InitConn == Init => ConnInv
<1> SUFFICES ASSUME Init PROVE ConnInv
  OBVIOUS
<1>1. NoConnection \in Connection
    BY DEF NoConnection, Connection, Phases
<1>2. Sound(NoConnection, minted, buf)
    BY NoneAssumption DEF NoConnection, Sound, Made, Smooth, Consecutive, Faithful, Told
<1> QED
    BY <1>1, <1>2 DEF Init, ConnInv

\* A step moves at most one connection, to one that agrees with the buffers.
LEMMA NextConn == BusInv /\ ConnInv /\ [Next]_vars => ConnInv'
<1> SUFFICES ASSUME BusInv, ConnInv, [Next]_vars PROVE ConnInv'
  OBVIOUS
<1>1. conn \in [Subscriber -> Connection]
    BY DEF ConnInv
<1>2. ASSUME NEW u \in Subscriber, conn'[u] = conn[u]
      PROVE  conn'[u] \in Connection /\ Sound(conn'[u], minted', buf')
  <2>1. conn[u] \in Connection /\ Sound(conn[u], minted, buf)
    BY AtConnection
  <2>2. Sound(conn[u], minted', buf')
    BY <2>1, StillSound
  <2> QED
    BY <2>1, <2>2, <1>2
<1>3. CASE conn' = conn
    BY <1>1, <1>2, <1>3 DEF ConnInv
<1>4. ASSUME NEW u \in Subscriber,
             \/ Stream(u) \/ Reconnect(u) \/ Disconnect(u)
             \/ \E i \in Intent : Watch(u, i)
      PROVE  ConnInv'
  <2>1. conn' = [conn EXCEPT ![u] = conn'[u]]
    <3>1. CASE Reconnect(u)
      BY <3>1, <1>1 DEF Reconnect, Move
    <3>2. CASE Stream(u)
      BY <3>2, <1>1 DEF Stream, Start, Raises, StreamEnd, Poll, Deliver, Move
    <3>3. CASE Disconnect(u) \/ \E i \in Intent : Watch(u, i)
      BY <3>3, <1>1 DEF Disconnect, Watch
    <3> QED
      BY <1>4, <3>1, <3>2, <3>3
  <2>2. conn'[u] \in Connection /\ Sound(conn'[u], minted', buf')
    BY <1>4, PausingSteps, StreamEndConn, PollConn, DeliverConn, WatchConn DEF Stream
  <2>3. \A v \in Subscriber : v # u => conn'[v] = conn[v]
    BY <2>1, <1>1
  <2>4. \A v \in Subscriber : conn'[v] \in Connection /\ Sound(conn'[v], minted', buf')
    BY <2>2, <2>3, <1>2
  <2>5. conn' \in [Subscriber -> Connection]
    BY <2>1, <2>2, <1>1
  <2> QED
    BY <2>4, <2>5 DEF ConnInv
<1>5. ASSUME \/ UNCHANGED vars \/ Serve \/ \E i \in Intent : BeginAttempt(i)
      PROVE  conn' = conn
    BY <1>5 DEF vars, Serve, BeginAttempt, Report, Complete, Fail, HasStarted, Close, AbandonEmpty
<1> QED
    BY <1>3, <1>4, <1>5 DEF Next

\* The inductive invariant of the streams.
THEOREM ConnInvariance == Spec => []ConnInv
<1> QED
    BY BusInvariance, InitConn, NextConn, PTL DEF Spec

\* No client is led over a gap that the bounded buffer left, for any length of
\* the buffer and any number of reconnections.
THEOREM NoSilentGapEver == Spec => []NoSilentGap
<1>1. ConnInv => NoSilentGap
    BY DEF ConnInv, NoSilentGap, Sound, Smooth, Consecutive
<1> QED
    BY ConnInvariance, <1>1, PTL

\* A client whose stream ended knows how the attempt went, unless the attempt
\* said nothing at all.
THEOREM EndedStreamsTold == Spec => []EndedMeansTold
<1>1. ConnInv => EndedMeansTold
  <2> SUFFICES ASSUME ConnInv, NEW u \in Subscriber, conn[u].phase = "ended"
               PROVE  IF conn[u].got = <<>> THEN Buffer(u).events = <<>>
                      ELSE Last(conn[u].got).terminal
    BY DEF EndedMeansTold
  <2>1. Told(conn[u], buf)
    BY DEF ConnInv, Sound
  <2> QED
    BY <2>1 DEF Told, Buffer, Last
<1> QED
    BY ConnInvariance, <1>1, PTL

---------------------------------------------------------------------------
(***************************************************************************)
(* The limits of the bus and the order of use of its intents.              *)
(***************************************************************************)
\* Natural numbers that are not none have a least one.
LEMMA Least ==
    ASSUME NEW S, S \subseteq Nat, S # {}
    PROVE  \E m \in S : \A n \in S : m <= n
<1> DEFINE R == {p \in Nat \X Nat : p[1] < p[2]}
<1>1. IsWellFoundedOn(R, Nat)
    BY NatLessThanWellFounded DEF OpToRel
<1>2. \A x, y \in Nat : y < x => <<y, x>> \in R
    OBVIOUS
<1> HIDE DEF R
<1>3. \E x \in S : \A y \in S : <<y, x>> \notin R
    BY <1>1, WFMin
<1>4. PICK m \in S : \A y \in S : <<y, m>> \notin R
    BY <1>3
<1>5. ASSUME NEW n \in S PROVE m <= n
  <2>1. m \in Nat /\ n \in Nat /\ ~(n < m)
    BY <1>2, <1>4
  <2> QED
    BY <2>1
<1> QED
    BY <1>5

\* Sequence r holds what s does, but for place n.
Skips(r, s, n) == \A k \in 1..Len(r) : r[k] = IF k < n THEN s[k] ELSE s[k + 1]

\* A sequence without one of its elements.
LEMMA RemoveAtFacts ==
    ASSUME NEW S, NEW s \in Seq(S), NEW n \in DOMAIN s, NEW r, r = RemoveAt(s, n)
    PROVE  /\ r \in Seq(S)
           /\ Len(r) = Len(s) - 1
           /\ Skips(r, s, n)
<1> DEFINE a == SubSeq(s, 1, n - 1)
           b == SubSeq(s, n + 1, Len(s))
<1>1. n \in 1..Len(s) /\ Len(s) \in Nat
    BY LenProperties
<1>2. a \in Seq(S) /\ Len(a) = n - 1 /\ \A k \in 1..(n - 1) : a[k] = s[k]
    BY <1>1, SubSeqProperties
<1>3. b \in Seq(S) /\ Len(b) = Len(s) - n /\ \A k \in 1..(Len(s) - n) : b[k] = s[n + k]
    BY <1>1, SubSeqProperties
<1>4. r = a \o b
    BY DEF RemoveAt
<1> HIDE DEF a, b
<1>5. /\ r \in Seq(S) /\ Len(r) = Len(a) + Len(b)
      /\ \A k \in 1..(Len(a) + Len(b)) : r[k] = IF k <= Len(a) THEN a[k] ELSE b[k - Len(a)]
  <2>1. a \in Seq(S) /\ b \in Seq(S)
    BY <1>2, <1>3
  <2>2. /\ a \o b \in Seq(S) /\ Len(a \o b) = Len(a) + Len(b)
        /\ \A k \in 1..(Len(a) + Len(b)) : (a \o b)[k] = IF k <= Len(a) THEN a[k] ELSE b[k - Len(a)]
    BY <2>1, ConcatProperties
  <2> QED
    BY <1>4, <2>2
<1>6. Len(r) = Len(s) - 1
    BY <1>1, <1>2, <1>3, <1>5
<1>7. ASSUME NEW k \in 1..Len(r)
      PROVE  r[k] = IF k < n THEN s[k] ELSE s[k + 1]
  <2>1. CASE k < n
    <3>1. r[k] = a[k]
      BY <2>1, <1>1, <1>2, <1>3, <1>5, <1>7
    <3> QED
      BY <2>1, <1>1, <1>2, <3>1
  <2>2. CASE ~(k < n)
    <3>1. r[k] = b[k - (n - 1)]
      BY <2>2, <1>1, <1>2, <1>3, <1>5, <1>7
    <3>2. k - (n - 1) \in 1..(Len(s) - n)
      BY <2>2, <1>1, <1>6, <1>7
    <3>3. b[k - (n - 1)] = s[n + (k - (n - 1))]
      BY <3>2, <1>3
    <3>4. n + (k - (n - 1)) = k + 1
      BY <1>1, <1>7
    <3> QED
      BY <2>2, <3>1, <3>3, <3>4
  <2> QED
    BY <2>1, <2>2
<1> QED
    BY <1>5, <1>6, <1>7 DEF Skips

\* No element of s is in it twice.
Distinct(s) == \A m, n \in 1..Len(s) : s[m] = s[n] => m = n

\* Sequence r holds what order does at the places that are not in leaving.
Keeps(r, leaving) ==
    /\ \A n \in 1..Len(r) : \E m \in (1..Len(order)) \ leaving : r[n] = order[m]
    /\ \A m \in (1..Len(order)) \ leaving : \E n \in 1..Len(r) : r[n] = order[m]

\* An intent that gives up its place leaves the others in theirs.
LEMMA WithoutFacts ==
    ASSUME order \in Seq(Intent), Distinct(order),
           NEW leaving, leaving \subseteq 1..Len(order), \A m, n \in leaving : m = n,
           NEW r, r = Without(leaving)
    PROVE  /\ r \in Seq(Intent)
           /\ Len(r) = IF leaving = {} THEN Len(order) ELSE Len(order) - 1
           /\ Distinct(r) /\ Keeps(r, leaving)
<1>1. CASE leaving = {}
  <2>1. r = order
    BY <1>1 DEF Without
  <2>2. Keeps(order, {})
    BY DEF Keeps
  <2> QED
    BY <1>1, <2>1, <2>2
<1>2. CASE leaving # {}
  <2> DEFINE p == CHOOSE n \in leaving : TRUE
  <2>1. p \in leaving /\ \A n \in leaving : n = p
    BY <1>2
  <2>2. r = RemoveAt(order, p)
    BY <1>2 DEF Without
  <2> HIDE DEF p
  <2>3. p \in 1..Len(order) /\ p \in DOMAIN order /\ Len(order) \in Nat
    BY <2>1, LenProperties
  <2>4. r \in Seq(Intent) /\ Len(r) = Len(order) - 1 /\ Skips(r, order, p)
    BY <2>2, <2>3, RemoveAtFacts
  <2>5. \A k \in 1..Len(r) : r[k] = IF k < p THEN order[k] ELSE order[k + 1]
    BY <2>4 DEF Skips
  <2> DEFINE Old(k) == IF k < p THEN k ELSE k + 1
  <2>6. ASSUME NEW k \in 1..Len(r)
        PROVE  Old(k) \in (1..Len(order)) \ leaving /\ r[k] = order[Old(k)]
    <3>1. k \in Nat /\ 1 <= k /\ k <= Len(order) - 1
      BY <2>3, <2>4, <2>6
    <3>2. Old(k) \in 1..Len(order) /\ Old(k) # p
      BY <2>3, <3>1
    <3> QED
      BY <2>1, <2>5, <3>2
  <2>7. \A j, k \in Nat : Old(j) = Old(k) => j = k
    BY <2>3
  <2>8. ASSUME NEW m \in (1..Len(order)) \ leaving
        PROVE  \E k \in 1..Len(r) : Old(k) = m
    <3> DEFINE k == IF m < p THEN m ELSE m - 1
    <3>1. m \in Nat /\ 1 <= m /\ m <= Len(order) /\ m # p
      BY <2>1, <2>3, <2>8
    <3>2. k \in 1..Len(r) /\ Old(k) = m
      BY <2>3, <2>4, <3>1
    <3> QED
      BY <3>2
  <2> HIDE DEF Old
  <2>9. Distinct(r)
    <3> SUFFICES ASSUME NEW j \in 1..Len(r), NEW k \in 1..Len(r), r[j] = r[k]
                 PROVE  j = k
      BY DEF Distinct
    <3>1. Old(j) = Old(k)
      BY <2>6 DEF Distinct
    <3> QED
      BY <2>7, <3>1
  <2>10. Keeps(r, leaving)
    <3>1. \A n \in 1..Len(r) : \E m \in (1..Len(order)) \ leaving : r[n] = order[m]
      BY <2>6
    <3>2. \A m \in (1..Len(order)) \ leaving : \E n \in 1..Len(r) : r[n] = order[m]
      BY <2>6, <2>8
    <3> QED
      BY <3>1, <3>2 DEF Keeps
  <2> QED
    BY <1>2, <2>4, <2>9, <2>10
<1> QED
    BY <1>1, <1>2

\* The intents in a sequence.
Named(s) == {s[n] : n \in 1..Len(s)}

\* Sequence s is order after i moved to its end and the ones in gone left their places.
Moved(s, i, gone, places) ==
    /\ s \in Seq(Intent)
    /\ Len(s) = IF places = {} THEN Len(order) + 1 ELSE Len(order)
    /\ Distinct(s)
    /\ Named(s) = (Named(order) \ gone) \cup {i}

\* Intent i is placed at the end and the ones in gone leave, if i and they have one place at most.
LEMMA PlacedFacts ==
    ASSUME order \in Seq(Intent), Distinct(order), NEW i \in Intent, NEW gone,
           NEW places, places = Places(gone \cup {i}), \A m, n \in places : m = n,
           NEW s, s = Placed(i, gone)
    PROVE  Moved(s, i, gone, places)
<1> DEFINE r == Without(places)
<1>1. Len(order) \in Nat /\ DOMAIN order = 1..Len(order)
    BY LenProperties
<1>2. places = {n \in 1..Len(order) : order[n] \in gone \cup {i}}
    BY <1>1 DEF Places
<1>3. places \subseteq 1..Len(order)
    BY <1>2
<1>4. s = Append(r, i)
    BY DEF Placed
<1>5. /\ r \in Seq(Intent)
      /\ Len(r) = IF places = {} THEN Len(order) ELSE Len(order) - 1
      /\ Distinct(r) /\ Keeps(r, places)
    BY <1>3, WithoutFacts
<1> HIDE DEF r
<1>6. /\ s \in Seq(Intent) /\ Len(s) = Len(r) + 1
      /\ s[Len(r) + 1] = i /\ \A n \in 1..Len(r) : s[n] = r[n]
  <2>1. r \in Seq(Intent)
    BY <1>5
  <2>2. /\ Append(r, i) \in Seq(Intent) /\ Len(Append(r, i)) = Len(r) + 1
        /\ Append(r, i)[Len(r) + 1] = i
    BY <2>1, AppendProperties
  <2>3. \A n \in 1..Len(r) : Append(r, i)[n] = r[n]
    BY <2>1
  <2> QED
    BY <1>4, <2>2, <2>3
<1>7. Len(r) \in Nat /\ 1..Len(s) = 1..(Len(r) + 1)
    BY <1>5, <1>6, LenProperties
<1>8. Len(s) = IF places = {} THEN Len(order) + 1 ELSE Len(order)
  <2>1. CASE places = {}
    BY <2>1, <1>5, <1>6
  <2>2. CASE places # {}
    <3>1. Len(r) = Len(order) - 1
      BY <2>2, <1>5
    <3>2. Len(s) = Len(r) + 1 /\ Len(order) \in Nat
      BY <1>1, <1>6
    <3>3. Len(s) = Len(order)
      BY <3>1, <3>2
    <3> QED
      BY <2>2, <3>3
  <2> QED
    BY <2>1, <2>2
<1>9. ASSUME NEW n \in 1..Len(r)
      PROVE  s[n] \in Named(order) \ (gone \cup {i})
  <2>1. PICK m \in (1..Len(order)) \ places : r[n] = order[m]
    BY <1>5 DEF Keeps
  <2> QED
    BY <1>2, <1>6, <2>1 DEF Named
<1>10. Distinct(s)
  <2> SUFFICES ASSUME NEW m \in 1..Len(s), NEW n \in 1..Len(s), s[m] = s[n]
               PROVE  m = n
    BY DEF Distinct
  <2>1. (m \in 1..Len(r) \/ m = Len(r) + 1) /\ (n \in 1..Len(r) \/ n = Len(r) + 1)
    BY <1>7
  <2>2. CASE m \in 1..Len(r) /\ n \in 1..Len(r)
    BY <2>2, <1>5, <1>6 DEF Distinct
  <2>3. CASE m = Len(r) + 1 \/ n = Len(r) + 1
    BY <2>1, <2>3, <1>6, <1>9
  <2> QED
    BY <2>1, <2>2, <2>3
<1>11. Named(s) = (Named(order) \ gone) \cup {i}
  <2>1. ASSUME NEW n \in 1..Len(s)
        PROVE  s[n] \in (Named(order) \ gone) \cup {i}
    <3>1. n \in 1..Len(r) \/ n = Len(r) + 1
      BY <1>7
    <3> QED
      BY <3>1, <1>6, <1>9
  <2>2. ASSUME NEW m \in 1..Len(order), order[m] \notin gone, order[m] # i
        PROVE  order[m] \in Named(s)
    <3>1. PICK n \in 1..Len(r) : r[n] = order[m]
      BY <2>2, <1>2, <1>5 DEF Keeps
    <3>2. n \in 1..Len(s) /\ s[n] = order[m]
      BY <3>1, <1>6, <1>7
    <3> QED
      BY <3>2 DEF Named
  <2>3. i \in Named(s)
    <3>1. Len(r) + 1 \in 1..Len(s)
      BY <1>7
    <3> QED
      BY <3>1, <1>6 DEF Named
  <2> QED
    BY <2>1, <2>2, <2>3 DEF Named
<1> QED
    BY <1>6, <1>8, <1>10, <1>11 DEF Moved

\* The intents that have generations.
Tracked == {i \in Intent : gens[i] # {}}

\* The order of use names the tracked intents, once each, and keeps within its limit.
OrderInv ==
    /\ order \in Seq(Intent) /\ Len(order) <= MaxIntents
    /\ Distinct(order) /\ Named(order) = Tracked

\* A list of generations and a buffer keep within theirs.
LimitInv ==
    /\ \A i \in Intent : Cardinality(gens[i]) <= MaxGenerations
    /\ \A g \in Generation : Len(buf[g].events) <= MaxEvents

\* An attempt is somewhere in its course.
ServerInv ==
    /\ server.phase \in {"free", "serving", "failing", "closing", "abandoning"}
    /\ server.sent \in 0..Steps
    /\ dispatched \subseteq Intent

\* The intents that leave, and the one that comes, give up one place at most.
LEMMA OnePlace ==
    ASSUME OrderInv, NEW i \in Intent, NEW gone,
           \/ gone = {}
           \/ gens[i] = {} /\ \E j : gone = {j}
    PROVE  \A m, n \in Places(gone \cup {i}) : m = n
<1> SUFFICES ASSUME NEW m \in Places(gone \cup {i}), NEW n \in Places(gone \cup {i})
             PROVE  m = n
    OBVIOUS
<1>1. /\ m \in 1..Len(order) /\ n \in 1..Len(order)
      /\ order[m] \in gone \cup {i} /\ order[n] \in gone \cup {i}
  <2>1. DOMAIN order = 1..Len(order)
    BY LenProperties DEF OrderInv
  <2> QED
    BY <2>1 DEF Places
<1>2. gens[i] = {} => order[m] # i /\ order[n] # i
    BY <1>1 DEF OrderInv, Named, Tracked
<1>3. order[m] = order[n]
    BY <1>1, <1>2
<1> QED
    BY <1>1, <1>3 DEF OrderInv, Distinct

\* One intent comes or moves to the end, and the ones in gone leave.
LEMMA OrderMoves ==
    ASSUME OrderInv, NEW i \in Intent, NEW gone,
           NEW places, places = Places(gone \cup {i}), \A m, n \in places : m = n,
           places = {} => Len(order) < MaxIntents,
           NEW s, s = Placed(i, gone), order' = s,
           Tracked' = (Tracked \ gone) \cup {i}
    PROVE  OrderInv'
<1>1. /\ order \in Seq(Intent) /\ Distinct(order) /\ Len(order) \in Nat
      /\ Len(order) <= MaxIntents /\ MaxIntents \in Nat /\ Named(order) = Tracked
    BY LenProperties, BoundAssumption DEF OrderInv
<1>2. Moved(s, i, gone, places)
  <2>1. order \in Seq(Intent) /\ Distinct(order)
    BY <1>1
  <2> QED
    BY <2>1, PlacedFacts
<1>3. s \in Seq(Intent) /\ Distinct(order') /\ Named(order') = Tracked'
    BY <1>1, <1>2 DEF Moved
<1>4. Len(s) <= MaxIntents
  <2>1. Len(order) \in Nat /\ MaxIntents \in Nat /\ Len(order) <= MaxIntents
    BY <1>1
  <2>2. CASE places = {}
    <3>1. Len(s) = Len(order) + 1
      BY <2>2, <1>2 DEF Moved
    <3>2. Len(order) < MaxIntents
      BY <2>2
    <3> QED
      BY <2>1, <3>1, <3>2
  <2>3. CASE places # {}
    <3>1. Len(s) = Len(order)
      BY <2>3, <1>2 DEF Moved
    <3> QED
      BY <2>1, <3>1
  <2> QED
    BY <2>2, <2>3
<1>5. Distinct(order)' /\ Named(order)' = Tracked'
    BY <1>3 DEF Distinct, Named
<1> QED
    BY <1>3, <1>4, <1>5 DEF OrderInv

\* An intent that is tracked has a place.
LEMMA TrackedPlace ==
    ASSUME OrderInv, NEW i \in Intent, gens[i] # {}, NEW gone
    PROVE  Places(gone \cup {i}) # {}
<1>1. PICK n \in 1..Len(order) : order[n] = i
    BY DEF OrderInv, Named, Tracked
<1>2. DOMAIN order = 1..Len(order)
    BY LenProperties DEF OrderInv
<1> QED
    BY <1>1, <1>2 DEF Places

\* A tracked intent becomes the most recently used one.
LEMMA TouchedOrder ==
    ASSUME OrderInv, NEW i \in Intent, gens[i] # {}, order' = Placed(i, {}), gens' = gens
    PROVE  OrderInv'
<1> DEFINE gone == {}
           places == Places(gone \cup {i})
           s == Placed(i, gone)
<1>1. Tracked' = (Tracked \ gone) \cup {i} /\ order' = s
    BY DEF Tracked
<1>2. \A m, n \in places : m = n
    BY OnePlace
<1>3. places # {}
    BY TrackedPlace
<1>4. places = Places(gone \cup {i}) /\ s = Placed(i, gone)
    OBVIOUS
<1> HIDE DEF places, gone, s
<1> QED
    BY <1>1, <1>2, <1>3, <1>4, OrderMoves

\* An intent is opened: it comes, or another one is evicted for it.
LEMMA OpenedOrder ==
    ASSUME OrderInv, NEW i \in Intent, NEW b, Open(i, b)
    PROVE  OrderInv'
<1> DEFINE gone == Evicted(i)
           places == Places(gone \cup {i})
           s == Placed(i, gone)
<1>1. order \in Seq(Intent) /\ Len(order) \in Nat /\ DOMAIN order = 1..Len(order)
    BY LenProperties DEF OrderInv
<1>2. order' = s /\ CanOpen(i)
      /\ gens' = [j \in Intent |-> IF j = i THEN (gens[i] \ Discarded(i)) \cup {minted + 1}
                                  ELSE IF j \in gone THEN {} ELSE gens[j]]
    BY DEF Open
<1>3. CASE gens[i] # {} \/ Len(order) < MaxIntents
  <2>1. gone = {}
    BY <1>3 DEF Evicted
  <2>2. places = {} => Len(order) < MaxIntents
    BY <1>3, TrackedPlace
  <2>3. \A m, n \in places : m = n
    BY <2>1, OnePlace
  <2>4. Tracked' = (Tracked \ gone) \cup {i}
    BY <1>2, <2>1 DEF Tracked
  <2>5. places = Places(gone \cup {i}) /\ s = Placed(i, gone)
    OBVIOUS
  <2> HIDE DEF gone, places, s
  <2> QED
    BY <1>2, <2>2, <2>3, <2>4, <2>5, OrderMoves
<1>4. CASE gens[i] = {} /\ ~(Len(order) < MaxIntents)
  <2>1. Evictable # {} /\ Evictable \subseteq 1..Len(order) /\ Evictable \subseteq Nat
    BY <1>1, <1>2, <1>4 DEF CanOpen, Evictable
  <2>2. PICK m \in Evictable : \A n \in Evictable : m <= n
    BY <2>1, Least
  <2>3. gone = {order[m]}
    <3>1. \A k \in Evictable : (\A n \in Evictable : k <= n) => k = m
      BY <2>1, <2>2
    <3> QED
      BY <1>4, <2>2, <3>1 DEF Evicted
  <2>4. \A k, n \in places : k = n
    BY <1>4, <2>3, OnePlace
  <2>5. places # {}
    BY <1>1, <2>1, <2>3 DEF Places
  <2>6. order[m] \in Intent /\ order[m] # i
    <3>1. order[m] \in Tracked
      BY <2>1, <2>2 DEF OrderInv, Named
    <3> QED
      BY <1>4, <3>1 DEF Tracked
  <2>7. Tracked' = (Tracked \ gone) \cup {i}
    BY <1>2, <2>3, <2>6 DEF Tracked
  <2>8. places = Places(gone \cup {i}) /\ s = Placed(i, gone)
    OBVIOUS
  <2> HIDE DEF gone, places, s
  <2> QED
    BY <1>2, <2>4, <2>5, <2>7, <2>8, OrderMoves
<1> QED
    BY <1>3, <1>4

\* An event that joins a buffer keeps it within its limit.
LEMMA AddedLength ==
    ASSUME NEW b \in Buf, NEW e \in Event, Len(b.events) <= MaxEvents
    PROVE  Len(Added(b, e).events) <= MaxEvents
<1> DEFINE full == Len(b.events) >= MaxEvents
           rest == IF full THEN Tail(b.events) ELSE b.events
<1>1. b.events \in Seq(Event) /\ Len(b.events) \in Nat /\ MaxEvents \in Nat \ {0}
    BY BoundAssumption DEF Buf
<1>2. Added(b, e).events = Append(rest, e)
    BY DEF Added
<1>3. rest \in Seq(Event) /\ Len(rest) < MaxEvents
  <2>1. CASE full
    <3>1. b.events # <<>>
      BY <2>1, <1>1
    <3>2. Tail(b.events) \in Seq(Event) /\ Len(Tail(b.events)) = Len(b.events) - 1
      BY <3>1, <1>1, HeadTailProperties
    <3> QED
      BY <2>1, <3>2, <1>1
  <2>2. CASE ~full
    BY <2>2, <1>1
  <2> QED
    BY <2>1, <2>2
<1> HIDE DEF rest
<1>4. Len(Append(rest, e)) = Len(rest) + 1 /\ Len(rest) \in Nat
    BY <1>3, AppendProperties, LenProperties
<1> QED
    BY <1>1, <1>2, <1>3, <1>4

\* Opening a generation keeps the limits: the oldest completed one of its intent makes room.
LEMMA OpenLimits ==
    ASSUME BusInv, LimitInv, NEW i \in Intent, NEW b \in Buf, Open(i, b), Len(b.events) <= MaxEvents
    PROVE  LimitInv'
<1>1. /\ CanOpen(i) /\ minted + 1 \in Generation /\ buf' = [buf EXCEPT ![minted + 1] = b]
      /\ \A j \in Intent : gens'[j] = IF j = i THEN (gens[i] \ Discarded(i)) \cup {minted + 1}
                                      ELSE IF j \in Evicted(i) THEN {} ELSE gens[j]
    BY BoundAssumption DEF Open, BusInv, Shapes, Generation
<1>2. MaxGenerations \in Nat \ {0} /\ minted \in Nat /\ gens[i] \subseteq 1..minted
    BY BoundAssumption DEF BusInv, Shapes
<1> DEFINE kept == gens[i] \ Discarded(i)
<1>3. IsFiniteSet(kept)
  <2>1. IsFiniteSet(1..minted)
    BY <1>2, FS_Interval
  <2>2. kept \subseteq 1..minted
    BY <1>2
  <2> HIDE DEF kept
  <2> QED
    BY <2>1, <2>2, FS_Subset
<1>4. Cardinality(gens'[i]) <= MaxGenerations
  <2>1. Cardinality(kept) \in Nat /\ Cardinality(kept \cup {minted + 1}) <= Cardinality(kept) + 1
    <3> HIDE DEF kept
    <3>1. Cardinality(kept) \in Nat
      BY <1>3, FS_CardinalityType
    <3>2. \/ Cardinality(kept \cup {minted + 1}) = Cardinality(kept)
          \/ Cardinality(kept \cup {minted + 1}) = Cardinality(kept) + 1
      BY <1>3, FS_AddElement
    <3> QED
      BY <3>1, <3>2
  <2>2. Cardinality(kept) < MaxGenerations
    <3>1. CASE gens[i] # {}
      BY <3>1, <1>1 DEF CanOpen
    <3>2. CASE gens[i] = {}
      <4>1. kept = {}
        BY <3>2
      <4>2. Cardinality({}) = 0
        BY FS_EmptySet
      <4> HIDE DEF kept
      <4> QED
        BY <4>1, <4>2, <1>2
    <3> QED
      BY <3>1, <3>2
  <2>3. gens'[i] = kept \cup {minted + 1}
    BY <1>1
  <2> HIDE DEF kept
  <2>4. Cardinality(kept \cup {minted + 1}) \in Nat
    <3>1. IsFiniteSet(kept \cup {minted + 1})
      BY <1>3, FS_AddElement
    <3> QED
      BY <3>1, FS_CardinalityType
  <2> QED
    BY <1>2, <2>1, <2>2, <2>3, <2>4
<1>5. \A j \in Intent : Cardinality(gens'[j]) <= MaxGenerations
    BY <1>1, <1>2, <1>4, FS_EmptySet DEF LimitInv
<1>6. ASSUME NEW g \in Generation
      PROVE  Len(buf'[g].events) <= MaxEvents
    BY <1>1 DEF BusInv, Shapes, LimitInv
<1> QED
    BY <1>5, <1>6 DEF LimitInv

\* So does an event of the attempt in progress.
LEMMA EmitLimits ==
    ASSUME BusInv, OrderInv, LimitInv, NEW i \in Intent, NEW e \in Event, Emit(i, e)
    PROVE  OrderInv' /\ LimitInv'
<1>1. CASE Live(i)
  <2> DEFINE a == Active(i)
  <2>1. a \in Generation /\ buf[a] \in Buf
    <3>1. a \in gens[i]
      BY <1>1, ActiveNewest DEF Live, BusInv
    <3> QED
      BY <3>1, BoundAssumption DEF BusInv, Shapes, Generation
  <2>2. buf' = [buf EXCEPT ![a] = Added(buf[a], e)] /\ order' = order /\ gens' = gens
    BY <1>1 DEF Emit
  <2> HIDE DEF a
  <2>3. Len(Added(buf[a], e).events) <= MaxEvents
    BY <2>1, AddedLength DEF LimitInv
  <2>4. \A g \in Generation : Len(buf'[g].events) <= MaxEvents
    BY <2>1, <2>2, <2>3 DEF BusInv, Shapes, LimitInv
  <2>5. LimitInv'
    BY <2>2, <2>4 DEF LimitInv
  <2>6. OrderInv'
    BY <2>2 DEF OrderInv, Distinct, Named, Tracked
  <2> QED
    BY <2>5, <2>6
<1>2. CASE ~Live(i)
  <2>1. Open(i, Added(Fresh, e)) /\ Added(Fresh, e) \in Buf
    BY <1>2, AddedFacts, FreshBuf DEF Emit
  <2>2. Len(Added(Fresh, e).events) <= MaxEvents
    <3>1. Len(Fresh.events) <= MaxEvents
      BY FreshBuf, BoundAssumption
    <3> QED
      BY <3>1, FreshBuf, AddedLength
  <2> QED
    BY <2>1, <2>2, OpenedOrder, OpenLimits
<1> QED
    BY <1>1, <1>2

\* The bus is within its limits and in order of use.
UsageInv == OrderInv /\ LimitInv /\ ServerInv

\* Nothing is tracked at first.
LEMMA InitUsage == Init => UsageInv
<1> SUFFICES ASSUME Init PROVE UsageInv
    OBVIOUS
<1>1. OrderInv
    BY BoundAssumption DEF Init, OrderInv, Distinct, Named, Tracked
<1>2. LimitInv
  <2>1. \A i \in Intent : Cardinality(gens[i]) <= MaxGenerations
    BY FS_EmptySet, BoundAssumption DEF Init
  <2>2. \A g \in Generation : Len(buf[g].events) <= MaxEvents
    BY BoundAssumption DEF Init, Fresh
  <2> QED
    BY <2>1, <2>2 DEF LimitInv
<1>3. ServerInv
    BY BoundAssumption DEF Init, ServerInv, Idle
<1> QED
    BY <1>1, <1>2, <1>3 DEF UsageInv

\* Every step of a dispatch keeps the limits.
LEMMA ServeUsage ==
    ASSUME BusInv, UsageInv, Serve
    PROVE  UsageInv'
<1>1. OrderInv /\ LimitInv /\ ServerInv
    BY DEF UsageInv
<1>2. server # Idle
    BY DEF Serve, Report, Complete, Fail, HasStarted, Close, AbandonEmpty, Idle
<1>3. /\ server.intent \in Intent
      /\ [attempt |-> attempts, terminal |-> FALSE] \in Event
      /\ [attempt |-> attempts, terminal |-> TRUE] \in Event
    BY <1>2, InProgress
<1>4. server = [phase |-> server.phase, intent |-> server.intent, sent |-> server.sent]
    BY DEF BusInv, Shapes
<1>5. CASE Report \/ Complete \/ Close
  <2>1. OrderInv' /\ LimitInv'
    BY <1>1, <1>3, <1>5, EmitLimits DEF Report, Complete, Close
  <2>2. ServerInv'
    BY <1>1, <1>3, <1>4, <1>5, BoundAssumption DEF Report, Complete, Close, ServerInv, Idle
  <2> QED
    BY <2>1, <2>2 DEF UsageInv
<1>6. CASE Fail \/ HasStarted
  <2>1. OrderInv' /\ LimitInv'
    BY <1>1, <1>6 DEF Fail, HasStarted, bus, OrderInv, Distinct, Named, Tracked, LimitInv
  <2>2. ServerInv'
    BY <1>1, <1>4, <1>6 DEF Fail, HasStarted, Phase, ServerInv
  <2> QED
    BY <2>1, <2>2 DEF UsageInv
<1>7. CASE AbandonEmpty
  <2>1. OrderInv'
    BY <1>1, <1>7 DEF AbandonEmpty, OrderInv, Distinct, Named, Tracked
  <2>2. \A g \in Generation : buf'[g].events = buf[g].events
    BY <1>7 DEF AbandonEmpty, BusInv, Shapes, Buf
  <2>3. LimitInv'
    BY <1>1, <1>7, <2>2 DEF AbandonEmpty, LimitInv
  <2>4. ServerInv'
    BY <1>1, <1>7, BoundAssumption DEF AbandonEmpty, ServerInv, Idle
  <2> QED
    BY <2>1, <2>3, <2>4 DEF UsageInv
<1> QED
    BY <1>5, <1>6, <1>7 DEF Serve

\* Every step of a client does.
LEMMA ClientUsage ==
    ASSUME BusInv, ConnInv, UsageInv, NEW u \in Subscriber,
           \/ Stream(u) \/ Reconnect(u) \/ Disconnect(u)
           \/ \E i \in Intent : Watch(u, i)
    PROVE  UsageInv'
<1>1. OrderInv /\ LimitInv /\ ServerInv
    BY DEF UsageInv
<1>2. CASE Stream(u) \/ Disconnect(u)
  <2>1. UNCHANGED <<bus, dispatcher>>
    BY <1>2 DEF Stream, Start, Raises, StreamEnd, Poll, Deliver, Disconnect
  <2> QED
    BY <1>1, <2>1 DEF bus, dispatcher, UsageInv, OrderInv, Distinct, Named, Tracked, LimitInv, ServerInv
<1>3. CASE Reconnect(u)
  <2>1. UNCHANGED <<gens, buf, minted, dispatcher>>
    BY <1>3 DEF Reconnect
  <2>2. OrderInv'
    <3>1. CASE Kept(u)
      <4>1. conn[u].intent \in Intent
        BY <1>3 DEF Reconnect, ConnInv, Sound, Made
      <4>2. gens[conn[u].intent] # {} /\ order' = Placed(conn[u].intent, {}) /\ gens' = gens
        BY <1>3, <3>1 DEF Reconnect, Kept
      <4> QED
        BY <1>1, <4>1, <4>2, TouchedOrder
    <3>2. CASE ~Kept(u)
      <4>1. order' = order /\ gens' = gens
        BY <1>3, <3>2 DEF Reconnect
      <4> QED
        BY <1>1, <4>1 DEF OrderInv, Distinct, Named, Tracked
    <3> QED
      BY <3>1, <3>2
  <2>3. LimitInv' /\ ServerInv'
    BY <1>1, <2>1 DEF dispatcher, LimitInv, ServerInv
  <2> QED
    BY <2>2, <2>3 DEF UsageInv
<1>4. ASSUME NEW i \in Intent, Watch(u, i)
      PROVE  UsageInv'
  <2>1. UNCHANGED dispatcher
    BY <1>4 DEF Watch
  <2>2. ServerInv'
    BY <1>1, <2>1 DEF dispatcher, ServerInv
  <2>3. CASE Live(i)
    <3>1. gens[i] # {} /\ order' = Placed(i, {}) /\ gens' = gens /\ buf' = buf
      BY <1>4, <2>3 DEF Watch, Live
    <3>2. OrderInv'
      BY <1>1, <3>1, TouchedOrder
    <3>3. LimitInv'
      BY <1>1, <3>1 DEF LimitInv
    <3> QED
      BY <2>2, <3>2, <3>3 DEF UsageInv
  <2>4. CASE ~Live(i)
    <3>1. Open(i, Fresh)
      BY <1>4, <2>4 DEF Watch
    <3>2. Len(Fresh.events) <= MaxEvents
      BY FreshBuf, BoundAssumption
    <3>3. OrderInv' /\ LimitInv'
      BY <1>1, <3>1, <3>2, FreshBuf, OpenedOrder, OpenLimits
    <3> QED
      BY <2>2, <3>3 DEF UsageInv
  <2> QED
    BY <2>3, <2>4
<1> QED
    BY <1>2, <1>3, <1>4

\* Every step keeps the limits and the order of use.
LEMMA NextUsage == BusInv /\ ConnInv /\ UsageInv /\ [Next]_vars => UsageInv'
<1> SUFFICES ASSUME BusInv, ConnInv, UsageInv, [Next]_vars PROVE UsageInv'
    OBVIOUS
<1>1. CASE UNCHANGED vars
    BY <1>1 DEF vars, bus, dispatcher, UsageInv, OrderInv, Distinct, Named, Tracked, LimitInv, ServerInv
<1>2. ASSUME NEW i \in Intent, BeginAttempt(i)
      PROVE  UsageInv'
  <2>1. UNCHANGED <<bus, dispatched>> /\ server' = [phase |-> "serving", intent |-> i, sent |-> 0]
    BY <1>2 DEF BeginAttempt
  <2> QED
    BY <2>1, BoundAssumption
    DEF bus, UsageInv, OrderInv, Distinct, Named, Tracked, LimitInv, ServerInv
<1> QED
    BY <1>1, <1>2, ServeUsage, ClientUsage DEF Next

\* InMemoryProgressBus keeps within its limits whatever is dispatched, watched, evicted and
\* reconnected, and its order of use names each intent it tracks once and no other, so that
\* every intent counts against the limit and can be evicted.
THEOREM LimitsKept == Spec => []TypeOK
<1>1. Init => UsageInv
    BY InitUsage
<1>2. BusInv /\ ConnInv /\ UsageInv => TypeOK
  <2> SUFFICES ASSUME BusInv, ConnInv, UsageInv PROVE TypeOK
    OBVIOUS
  <2>1. OrderInv /\ LimitInv /\ ServerInv /\ Shapes
    BY DEF UsageInv, BusInv
  <2>2. OrderTracks
    <3>1. DOMAIN order = 1..Len(order)
      BY <2>1, LenProperties DEF OrderInv
    <3> QED
      BY <2>1, <3>1 DEF OrderInv, OrderTracks, Distinct, Named, Tracked
  <2>3. \A u \in Subscriber :
          /\ conn[u].phase \in Streaming \cup {"off", "refused", "lost", "ended"}
          /\ conn[u].intent \in Intent \cup {None} /\ conn[u].gen \in 0..minted
    BY <2>1 DEF ConnInv, Connection, Phases, Sound, Made, Shapes
  <2> QED
    BY <2>1, <2>2, <2>3 DEF OrderInv, LimitInv, ServerInv, Shapes, TypeOK
<1> QED
    BY <1>1, <1>2, BusInvariance, ConnInvariance, NextUsage, PTL DEF Spec
=============================================================================
