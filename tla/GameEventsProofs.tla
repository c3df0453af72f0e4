-------------------------- MODULE GameEventsProofs --------------------------
(***************************************************************************)
(* Proofs about the events and coroutines of the level, for every number   *)
(* of players, units, triggers, handlers and slots of the ring.            *)
(***************************************************************************)
EXTENDS GameEvents, TLAPS, SequenceTheorems

-----------------------------------------------------------------------------
(* The slots of the ring.                                                  *)

LEMMA DivMod ==
  ASSUME NEW x \in Int, NEW n \in Nat \ {0}
  PROVE  /\ x \div n \in Int
         /\ x % n \in 0 .. n - 1
         /\ x = n * (x \div n) + (x % n)
BY SMT

(* Counters less than a lap apart have different slots. *)
LEMMA SlotsDiffer ==
  ASSUME NEW n \in Nat \ {0}, NEW i \in Nat, NEW w \in Nat, i < w, w - i < n
  PROVE  i % n # w % n
<1> DEFINE p == i \div n
           q == w \div n
<1>1. /\ p \in Int /\ i % n \in Int /\ i = n * p + (i % n)
      /\ q \in Int /\ w % n \in Int /\ w = n * q + (w % n)
  BY DivMod
<1>2. SUFFICES ASSUME i % n = w % n PROVE FALSE
  OBVIOUS
<1> HIDE DEF p, q
<1> DEFINE d == q - p
<1>3. d \in Int /\ n * d = n * q - n * p
  BY <1>1, SMT
<1>4. n * q - n * p = w - i
  BY <1>1, <1>2
<1> HIDE DEF d
<1>5. n * d >= 1 /\ n * d < n
  BY <1>3, <1>4
<1>6. CASE d >= 1
  <2>1. n * d >= n
    BY <1>3, <1>6, SMT
  <2> QED BY <1>3, <1>5, <2>1
<1>7. CASE d <= 0
  <2>1. n * d <= 0
    BY <1>3, <1>7, SMT
  <2> QED BY <1>3, <1>5, <2>1
<1> QED BY <1>3, <1>6, <1>7

(* The number of the row that the cell i of n by m cells is in. *)
LEMMA RowIs ==
  ASSUME NEW m \in Nat, NEW n \in Nat, NEW i \in Nat \ {0}, i <= m * n
  PROVE  /\ n \in Nat \ {0}
         /\ ((i - 1) \div n) + 1 \in 1 .. m
         /\ ((i - 1) % n) + 1 \in 1 .. n
<1>1. n # 0
  <2>1. m * 0 = 0
    BY SMT
  <2> QED BY <2>1
<1> DEFINE q == (i - 1) \div n
<1>2. q \in Int /\ (i - 1) % n \in 0 .. n - 1 /\ i - 1 = n * q + ((i - 1) % n)
  BY <1>1, DivMod
<1> HIDE DEF q
<1>3. q >= 0
  <2> SUFFICES ASSUME q <= -1 PROVE FALSE
    BY <1>2
  <2>1. n * q <= - n
    BY <1>2, SMT
  <2> QED BY <1>1, <1>2, <2>1
<1>4. q < m
  <2> SUFFICES ASSUME q >= m PROVE FALSE
    BY <1>2
  <2>1. n * q >= n * m
    BY <1>2, SMT
  <2>2. n * m = m * n /\ m * n \in Int
    BY SMT
  <2> QED BY <1>2, <2>1, <2>2
<1> QED BY <1>1, <1>2, <1>3, <1>4 DEF q

LEMMA SlotOK ==
  ASSUME NEW i \in Nat
  PROVE  i % MAX_EVENT_QUEUE \in 0 .. MAX_EVENT_QUEUE - 1
BY BoundAssumption, DivMod

-----------------------------------------------------------------------------
(* Sequences.                                                              *)

LEMMA FunctionIsSeq ==
  ASSUME NEW S, NEW n \in Nat, NEW f \in [1 .. n -> S]
  PROVE  f \in Seq(S) /\ Len(f) = n
BY SMT

LEMMA AppendIs ==
  ASSUME NEW S, NEW s \in Seq(S), NEW e \in S
  PROVE  /\ Append(s, e) \in Seq(S)
         /\ Len(Append(s, e)) = Len(s) + 1
         /\ \A i \in 1 .. Len(s) : Append(s, e)[i] = s[i]
         /\ Append(s, e)[Len(s) + 1] = e
BY SMT

LEMMA HandlerType ==
  ASSUME NEW i \in 1 .. Len(handlers)
  PROVE  /\ handlers[i] \in Handlers
         /\ handlers[i].type \in EventType
         /\ handlers[i].trigger \in Triggers
         /\ handlers[i].subject \in Edicts \cup {Nobody}
<1>1. handlers[i] \in [type : EventType, subject : Edicts \cup {Nobody},
                       trigger : Triggers]
  BY HandlerAssumption, ElementOfSeq
<1> QED BY <1>1 DEF Handlers

LEMMA CallType ==
  ASSUME NEW t \in EventType, NEW e \in Edicts, NEW h \in Handlers \cup {Nobody}
  PROVE  Call(t, e, h) \in Event
BY DEF Call, Event

LEMMA NewCoroutineType ==
  ASSUME NEW t \in Triggers, NEW u \in Edicts
  PROVE  NewCoroutine(t, u) \in Coroutine /\ ~NewCoroutine(t, u).ran
BY BoundAssumption DEF NewCoroutine, Coroutine

-----------------------------------------------------------------------------
(* Type correctness.                                                       *)

LEMMA InitType == Init => TypeOK
<1> SUFFICES ASSUME Init PROVE TypeOK
  OBVIOUS
<1>1. 0 \in Players
  BY EdictAssumption DEF Players
<1>2. NoEvent \in Event
  BY <1>1 DEF NoEvent, Event, EventType, Edicts
<1>3. todo \in Seq(Event) /\ coroutines \in Seq(Coroutine) /\ Len(coroutines) = 0
  BY EmptySeq DEF Init
<1>4. player \in [Edicts -> Players]
  BY <1>1, EdictAssumption DEF Init
<1>5. pending \in [read .. write - 1 -> Published]
  BY DEF Init
<1>6. queue \in [0 .. MAX_EVENT_QUEUE - 1 -> Event]
  <2> HIDE DEF NoEvent
  <2> QED BY <1>2 DEF Init
<1>7. started \in 0 .. MaxStarted
  BY BoundAssumption DEF Init
<1>8. inside \in [Units -> BOOLEAN] /\ was_inside \in [Units -> BOOLEAN]
  BY DEF Init
<1>9. write \in Nat /\ read \in 0 .. write /\ cursor \in Nat \ {0}
  BY DEF Init
<1> QED BY <1>3, <1>4, <1>5, <1>6, <1>7, <1>8, <1>9 DEF Init, TypeOK

(* What a call of G_PublishEvent leaves of the ring. *)
LEMMA PublishType ==
  ASSUME TypeOK, NEW call \in Event, Publish(call)
  PROVE  /\ queue' \in [0 .. MAX_EVENT_QUEUE - 1 -> Event]
         /\ write' \in Nat /\ read' \in 0 .. write'
         /\ pending' \in [read' .. write' - 1 -> Published]
<1>1. /\ call.type \in EventType /\ call.edict \in Edicts
      /\ call.responseTo \in Handlers \cup {Nobody}
  BY DEF Event
<1> DEFINE slot == write % MAX_EVENT_QUEUE
           response == IF call.responseTo = Nobody THEN queue[slot].responseTo
                       ELSE call.responseTo
<1>2. slot \in 0 .. MAX_EVENT_QUEUE - 1
  BY SlotOK DEF TypeOK
<1>3. queue[slot] \in Event
  BY <1>2 DEF TypeOK
<1>4. response \in Handlers \cup {Nobody}
  BY <1>1, <1>3 DEF Event
<1>5. Call(call.type, call.edict, response) \in Event
  BY <1>1, <1>4, CallType
<1>6. queue' = [queue EXCEPT ![slot] = Call(call.type, call.edict, response)]
  BY DEF Publish
<1>7. queue' \in [0 .. MAX_EVENT_QUEUE - 1 -> Event]
  <2> HIDE DEF slot, response
  <2> QED BY <1>5, <1>6 DEF TypeOK
<1>8. write' \in Nat /\ read' \in 0 .. write'
  BY DEF TypeOK, Publish
<1> DEFINE last == [type |-> call.type, edict |-> call.edict,
                    owner |-> OwnerOf(call.edict)]
<1>9. last \in Published
  BY <1>1 DEF OwnerOf, TypeOK, Published, Edicts
<1>10. pending' = [i \in read .. write |-> IF i < write THEN pending[i] ELSE last]
  BY DEF Publish
<1>11. pending' \in [read' .. write' - 1 -> Published]
  <2>1. read' = read /\ write' - 1 = write /\ write \in Nat /\ read \in Nat
    BY DEF Publish, TypeOK
  <2>2. \A i \in read .. write : i < write => pending[i] \in Published
    BY <2>1 DEF TypeOK
  <2> HIDE DEF last
  <2>3. pending' \in [read .. write -> Published]
    BY <1>9, <1>10, <2>2
  <2> QED BY <2>1, <2>3
<1> QED BY <1>7, <1>8, <1>11

(* The coroutines when the one at cursor is taken out. *)
LEMMA WithoutIs ==
  ASSUME NEW S, NEW s \in Seq(S), NEW c \in 1 .. Len(s)
  PROVE  LET w == [i \in 1 .. Len(s) - 1 |-> IF i < c THEN s[i] ELSE s[i + 1]]
         IN w \in Seq(S) /\ Len(w) = Len(s) - 1
<1> DEFINE w == [i \in 1 .. Len(s) - 1 |-> IF i < c THEN s[i] ELSE s[i + 1]]
<1>1. Len(s) \in Nat /\ \A i \in 1 .. Len(s) : s[i] \in S
  BY ElementOfSeq, LenProperties
<1>2. \A i \in 1 .. Len(s) - 1 : (IF i < c THEN s[i] ELSE s[i + 1]) \in S
  BY <1>1
<1>3. w \in [1 .. Len(s) - 1 -> S]
  BY <1>2
<1>4. Len(s) - 1 \in Nat
  BY <1>1
<1> HIDE DEF w
<1> QED BY <1>3, <1>4, FunctionIsSeq DEF w

LEMMA ScriptType ==
  ASSUME TypeOK, phase = "scripts", UNCHANGED <<phase, events, disabled, world>>,
         coroutines' \in Seq(Coroutine),
         cursor' \in Nat \ {0}, cursor' <= Len(coroutines') + 1,
         running' \in BOOLEAN, running' => cursor' <= Len(coroutines'),
         started' \in 0 .. MaxStarted
  PROVE  TypeOK'
BY DEF TypeOK, events, ring, world

LEMMA NextType == TypeOK /\ [Next]_vars => TypeOK'
<1> SUFFICES ASSUME TypeOK, [Next]_vars PROVE TypeOK'
  OBVIOUS
<1> USE DEF Ready, Running
<1>1. CASE PublishEvent
  <2>1. Head(todo) \in Event /\ todo' \in Seq(Event)
    BY <1>1, HeadTailProperties DEF PublishEvent, TypeOK
  <2>2. Publish(Head(todo))
    BY <1>1 DEF PublishEvent
  <2> QED BY <1>1, <2>1, <2>2, PublishType DEF PublishEvent, TypeOK, script, world
<1>2. ASSUME NEW p \in Players, Cancel(p) PROVE TypeOK'
  <2> DEFINE other(i) == IF i = 1 THEN p ELSE IF i - 2 < p THEN i - 2 ELSE i - 1
             f == [i \in 1 .. MAX_PLAYERS |-> Call("end_cinematic", other(i), Nobody)]
  <2>1. \A i \in 1 .. MAX_PLAYERS : other(i) \in Players
    BY EdictAssumption DEF Players
  <2>2. \A i \in 1 .. MAX_PLAYERS : Call("end_cinematic", other(i), Nobody) \in Event
    <3> TAKE i \in 1 .. MAX_PLAYERS
    <3>1. other(i) \in Edicts /\ "end_cinematic" \in EventType
      BY <2>1 DEF Edicts, EventType
    <3> HIDE DEF other
    <3> QED BY <3>1, CallType
  <2> HIDE DEF other
  <2>3. f \in [1 .. MAX_PLAYERS -> Event]
    BY <2>2
  <2>4. f \in Seq(Event)
    <3> HIDE DEF f
    <3> QED BY <2>3, EdictAssumption, FunctionIsSeq
  <2>5. todo' = f
    BY <1>2 DEF Cancel, other
  <2> HIDE DEF f
  <2> QED BY <1>2, <2>4, <2>5 DEF Cancel, TypeOK, ring, script, world
<1>3. CASE StartFrame
  <2> DEFINE f == [i \in 1 .. Len(coroutines) |->
                     [coroutines[i] EXCEPT !.ran = FALSE,
                        !.wake = IF @ = 0 THEN 0 ELSE @ - 1]]
  <2>1. Len(coroutines) \in Nat
    BY LenProperties DEF TypeOK
  <2>2. \A i \in 1 .. Len(coroutines) : f[i] \in Coroutine
    <3> TAKE i \in 1 .. Len(coroutines)
    <3>1. coroutines[i] \in Coroutine
      BY ElementOfSeq DEF TypeOK
    <3> DEFINE c == coroutines[i]
               wake == IF c.wake = 0 THEN 0 ELSE c.wake - 1
    <3>2. c.wake \in 0 .. MaxSleep
      BY <3>1 DEF Coroutine
    <3>3. wake \in 0 .. MaxSleep
      BY <3>2, BoundAssumption
    <3>4. f[i] = [[c EXCEPT !.ran = FALSE] EXCEPT !.wake = wake]
      BY <3>1 DEF Coroutine
    <3> HIDE DEF c, f, wake
    <3>5. c \in Coroutine
      BY <3>1 DEF c
    <3> QED BY <3>3, <3>4, <3>5 DEF Coroutine
  <2>3. f \in [1 .. Len(coroutines) -> Coroutine]
    BY <2>2
  <2>4. f \in Seq(Coroutine) /\ coroutines' = f /\ started' = 0 /\ ~running'
    <3>1. coroutines' = f /\ started' = 0 /\ ~running'
      BY <1>3 DEF StartFrame, TypeOK
    <3> HIDE DEF f
    <3> QED BY <3>1, <2>1, <2>3, FunctionIsSeq
  <2> HIDE DEF f
  <2>5. /\ phase' = "events" /\ cursor' = 1
        /\ UNCHANGED <<events, disabled, world>>
    BY <1>3 DEF StartFrame
  <2>6. started' \in 0 .. MaxStarted
    BY <2>4, BoundAssumption
  <2>7. running' \in BOOLEAN
    BY <1>3, Zenon DEF StartFrame, TypeOK
  <2> QED BY <2>4, <2>5, <2>6, <2>7 DEF TypeOK, events, ring, world
<1>4. CASE CallHandler
  <2> DEFINE evt == queue[read % MAX_EVENT_QUEUE]
             h == handlers[cursor]
  <2>1. h \in Handlers /\ h.trigger \in Triggers
    BY <1>4, HandlerType DEF CallHandler, TypeOK
  <2>2. evt.edict \in Edicts
    BY <1>4, SlotOK DEF CallHandler, TypeOK, Event
  <2>3. NewCoroutine(h.trigger, evt.edict) \in Coroutine
    BY <2>1, <2>2, NewCoroutineType
  <2>4. /\ \/ coroutines' = Append(coroutines, NewCoroutine(h.trigger, evt.edict))
              /\ called' = called \cup {h}
           \/ UNCHANGED <<coroutines, called>>
        /\ phase = "events" /\ cursor' = cursor + 1
        /\ UNCHANGED <<phase, todo, ring, disabled, running, started, world>>
    BY <1>4 DEF CallHandler
  <2> HIDE DEF evt, h
  <2>5. coroutines' \in Seq(Coroutine) /\ called' \subseteq Handlers
    <3>1. coroutines \in Seq(Coroutine) /\ called \subseteq Handlers
      BY DEF TypeOK
    <3>2. Append(coroutines, NewCoroutine(h.trigger, evt.edict)) \in Seq(Coroutine)
      BY <2>3, <3>1, AppendIs
    <3> QED BY <2>1, <2>4, <3>1, <3>2
  <2> QED BY <2>4, <2>5 DEF TypeOK, ring, world
<1>5. CASE EventDone
  <2>1. /\ read < write /\ read' = read + 1 /\ write' = write
        /\ pending' = [i \in read + 1 .. write - 1 |-> pending[i]]
    BY <1>5 DEF EventDone
  <2>2. read' \in 0 .. write' /\ pending' \in [read' .. write' - 1 -> Published]
    BY <2>1 DEF TypeOK
  <2> QED BY <1>5, <2>2 DEF EventDone, TypeOK, script, world
<1>6. CASE EventsDone
  <2>1. Len(coroutines) \in Nat
    BY LenProperties DEF TypeOK
  <2> QED BY <1>6, <2>1 DEF EventsDone, TypeOK, events, ring, script, world
<1>7. CASE Resume
  <2> DEFINE awake == [coroutines EXCEPT ![cursor].ran = TRUE]
  <2>1. cursor \in 1 .. Len(coroutines) /\ Len(coroutines) \in Nat
    BY <1>7, LenProperties DEF Resume, TypeOK
  <2>2. coroutines[cursor] \in Coroutine
    BY <2>1, ElementOfSeq DEF TypeOK
  <2>3. [coroutines[cursor] EXCEPT !.ran = TRUE] \in Coroutine
    BY <2>2 DEF Coroutine
  <2>4. awake \in Seq(Coroutine) /\ Len(awake) = Len(coroutines)
    BY <2>1, <2>3, ExceptSeq DEF TypeOK
  <2>5. \/ cursor' = cursor + 1 /\ UNCHANGED <<coroutines, running>>
        \/ running' = TRUE /\ coroutines' = awake /\ UNCHANGED cursor
    BY <1>7 DEF Resume
  <2>6. /\ phase = "scripts" /\ UNCHANGED <<phase, events, disabled, world>>
        /\ ~running /\ started' = started
    BY <1>7 DEF Resume
  <2> HIDE DEF awake
  <2>7. coroutines' \in Seq(Coroutine) /\ Len(coroutines') = Len(coroutines)
    BY <2>4, <2>5 DEF TypeOK
  <2>8. /\ cursor' \in Nat \ {0} /\ cursor' <= Len(coroutines') + 1
        /\ running' => cursor' <= Len(coroutines')
    BY <2>1, <2>5, <2>6, <2>7
  <2>9. started' \in 0 .. MaxStarted /\ running' \in BOOLEAN
    <3>1. started' \in 0 .. MaxStarted
      BY <2>6 DEF TypeOK
    <3>2. running' \in BOOLEAN
      BY <2>5, <2>6, Zenon DEF TypeOK
    <3> QED BY <3>1, <3>2
  <2> QED BY <2>6, <2>7, <2>8, <2>9, ScriptType
<1>8. CASE Sleep
  <2>1. cursor \in 1 .. Len(coroutines) /\ Len(coroutines) \in Nat
    BY <1>8, LenProperties DEF Sleep, TypeOK
  <2>2. coroutines[cursor] \in Coroutine
    BY <2>1, ElementOfSeq DEF TypeOK
  <2>3. PICK n \in 0 .. MaxSleep : coroutines' = [coroutines EXCEPT ![cursor].wake = n]
    BY <1>8 DEF Sleep
  <2>4. [coroutines[cursor] EXCEPT !.wake = n] \in Coroutine
    BY <2>2 DEF Coroutine
  <2>5. coroutines' \in Seq(Coroutine) /\ Len(coroutines') = Len(coroutines)
    BY <2>1, <2>3, <2>4, ExceptSeq DEF TypeOK
  <2>6. /\ phase = "scripts" /\ UNCHANGED <<phase, events, disabled, world>>
        /\ running' = FALSE /\ cursor' = cursor + 1 /\ started' = started
    BY <1>8 DEF Sleep
  <2>7. /\ started' \in 0 .. MaxStarted
        /\ cursor' \in Nat \ {0} /\ cursor' <= Len(coroutines') + 1
    BY <2>1, <2>5, <2>6 DEF TypeOK
  <2>8. running' \in BOOLEAN
    BY <2>6, Zenon
  <2> QED BY <2>5, <2>6, <2>7, <2>8, ScriptType
<1>9. CASE Return
  <2>1. cursor \in 1 .. Len(coroutines) /\ Len(coroutines) \in Nat
    BY <1>9, LenProperties DEF Return, TypeOK
  <2>2. coroutines' \in Seq(Coroutine) /\ Len(coroutines') = Len(coroutines) - 1
    BY <1>9, <2>1, WithoutIs DEF Return, TypeOK
  <2>6. /\ phase = "scripts" /\ UNCHANGED <<phase, events, disabled, world>>
        /\ running' = FALSE /\ cursor' = cursor /\ started' = started
    BY <1>9 DEF Return
  <2>7. /\ started' \in 0 .. MaxStarted
        /\ cursor' \in Nat \ {0} /\ cursor' <= Len(coroutines') + 1
    BY <2>1, <2>2, <2>6 DEF TypeOK
  <2>8. running' \in BOOLEAN
    BY <2>6, Zenon
  <2> QED BY <2>2, <2>6, <2>7, <2>8, ScriptType
<1>10. ASSUME NEW t \in Triggers, TriggerExecute(t) PROVE TypeOK'
  <2>1. cursor \in 1 .. Len(coroutines) /\ Len(coroutines) \in Nat
    BY <1>10, LenProperties DEF TriggerExecute, TypeOK
  <2>2. coroutines[cursor].unit \in Edicts
    <3>1. coroutines[cursor] \in Coroutine
      BY <2>1, ElementOfSeq DEF TypeOK
    <3> QED BY <3>1 DEF Coroutine
  <2>3. NewCoroutine(t, coroutines[cursor].unit) \in Coroutine
    BY <2>2, NewCoroutineType
  <2>4. coroutines' \in Seq(Coroutine) /\ Len(coroutines') = Len(coroutines) + 1
    BY <1>10, <2>3, AppendIs DEF TriggerExecute, TypeOK
  <2>5. started' \in 0 .. MaxStarted
    BY <1>10, BoundAssumption DEF TriggerExecute, TypeOK
  <2>6. /\ phase = "scripts" /\ UNCHANGED <<phase, cursor, events, disabled, running, world>>
    BY <1>10 DEF TriggerExecute
  <2>7. running' \in BOOLEAN
    BY <2>6 DEF TypeOK
  <2> QED BY <2>1, <2>4, <2>5, <2>6, <2>7, ScriptType
<1>11. ASSUME NEW t \in Triggers, SwitchTrigger(t) PROVE TypeOK'
  BY <1>11 DEF SwitchTrigger, TypeOK, events, ring, world
<1>12. ASSUME NEW p \in Players, RemovePlayer(p) PROVE TypeOK'
  <2>1. Call("player_defeat", p, Nobody) \in Event
    BY CallType DEF Edicts, EventType
  <2> QED BY <1>12, <2>1 DEF RemovePlayer, TypeOK, ring, script, world
<1>13. ASSUME NEW u \in Units, RemoveUnit(u) PROVE TypeOK'
  <2>1. 0 \in Players
    BY EdictAssumption DEF Players
  <2> QED BY <1>13, <2>1 DEF RemoveUnit, TypeOK, events, ring, script
<1>14. ASSUME NEW u \in Units, SetUnitPosition(u) PROVE TypeOK'
  BY <1>14 DEF SetUnitPosition, TypeOK, events, ring, script
<1>15. ASSUME NEW u \in Units, NEW p \in Players, SetUnitOwner(u, p) PROVE TypeOK'
  BY <1>15 DEF SetUnitOwner, TypeOK, events, ring, script
<1>16. CASE ScriptsDone
  BY <1>16 DEF ScriptsDone, TypeOK, events, ring, script
<1>17. ASSUME NEW u \in Units, Walk(u) PROVE TypeOK'
  BY <1>17 DEF Walk, TypeOK, events, ring, script
<1>18. ASSUME NEW u \in Units, Die(u) PROVE TypeOK'
  <2>1. /\ Call("unit_death", u, Nobody) \in Event
        /\ Call("player_unit_death", u, Nobody) \in Event
    BY CallType DEF Edicts, EventType
  <2> QED BY <1>18, <2>1 DEF Die, TypeOK, ring, script, world
<1>19. CASE EntitiesDone
  BY <1>19 DEF EntitiesDone, TypeOK, events, ring, script, world
<1>20. CASE Touch
  <2> DEFINE u == UnitOrder[((cursor - 1) \div Len(handlers)) + 1]
             h == handlers[((cursor - 1) % Len(handlers)) + 1]
  <2>1. /\ Len(handlers) \in Nat /\ Len(UnitOrder) \in Nat
        /\ cursor \in Nat \ {0} /\ cursor <= Len(UnitOrder) * Len(handlers)
    BY <1>20, HandlerAssumption, EdictAssumption, LenProperties DEF Touch, TypeOK
  <2>2. /\ ((cursor - 1) \div Len(handlers)) + 1 \in 1 .. Len(UnitOrder)
        /\ ((cursor - 1) % Len(handlers)) + 1 \in 1 .. Len(handlers)
    BY <2>1, RowIs
  <2>3. u \in Units /\ h \in Handlers
    BY <2>2, EdictAssumption, ElementOfSeq, HandlerType
  <2>4. /\ cursor' = cursor + 1 /\ phase = "touch"
        /\ UNCHANGED <<phase, todo, called, script, world>>
        /\ Publish(Call("enter_region", u, h)) \/ UNCHANGED ring
    BY <1>20 DEF Touch
  <2> HIDE DEF u, h
  <2>5. Call("enter_region", u, h) \in Event
    BY <2>3, CallType DEF Edicts, EventType
  <2>6. /\ queue' \in [0 .. MAX_EVENT_QUEUE - 1 -> Event]
        /\ write' \in Nat /\ read' \in 0 .. write'
        /\ pending' \in [read' .. write' - 1 -> Published]
    <3>1. CASE UNCHANGED ring
      BY <3>1 DEF ring, TypeOK
    <3>2. CASE Publish(Call("enter_region", u, h))
      BY <2>5, <3>2, PublishType
    <3> QED BY <2>4, <3>1, <3>2
  <2>7. cursor' \in Nat \ {0}
    BY <2>1, <2>4
  <2>8. UNCHANGED <<phase, todo, called, disabled, coroutines, running, started, world>>
    BY <2>4 DEF script
  <2> QED BY <2>4, <2>6, <2>7, <2>8 DEF TypeOK, world
<1>21. CASE FrameDone
  BY <1>21 DEF FrameDone, TypeOK, events, ring, script, world
<1>22. CASE UNCHANGED vars
  BY <1>22 DEF vars, TypeOK, events, ring, script, world
<1> QED
  BY <1>1, <1>2, <1>3, <1>4, <1>5, <1>6, <1>7, <1>8, <1>9, <1>10, <1>11, <1>12,
     <1>13, <1>14, <1>15, <1>16, <1>17, <1>18, <1>19, <1>20, <1>21, <1>22
     DEF Next, Leave, Native

(* The state has its types in every execution of the level, for every       *)
(* number of players, units, triggers, handlers and slots (TypeOK).         *)
THEOREM TypeCorrect == Spec => []TypeOK
BY InitType, NextType, PTL DEF Spec

-----------------------------------------------------------------------------
(* The ring.  RingFaithful alone is not inductive: while the ring overflows *)
(* it says nothing, and then enough events are handled.  What holds all the *)
(* time is that the events of the last lap are in their slots.              *)
LastLapFaithful ==
  \A i \in read .. write - 1 :
    write - i <= MAX_EVENT_QUEUE =>
      LET slot == queue[i % MAX_EVENT_QUEUE]
      IN slot.type = pending[i].type /\ slot.edict = pending[i].edict

(* Nobody writes to the ring but the publisher and G_RunEvents. *)
LEMMA RingSteps ==
  [Next]_vars => UNCHANGED ring \/ (\E call : Publish(call)) \/ EventDone
<1> SUFFICES ASSUME [Next]_vars, ~EventDone
             PROVE  UNCHANGED ring \/ \E call : Publish(call)
  OBVIOUS
<1>1. CASE PublishEvent
  BY <1>1 DEF PublishEvent
<1>2. CASE Touch
  BY <1>2 DEF Touch
<1>3. CASE StartFrame \/ CallHandler \/ EventsDone \/ Resume \/ Leave
           \/ ScriptsDone \/ EntitiesDone \/ FrameDone
  BY <1>3 DEF StartFrame, CallHandler, EventsDone, Resume, Leave, Sleep, Return,
              ScriptsDone, EntitiesDone, FrameDone, events
<1>4. CASE Native
  BY <1>4 DEF Native, TriggerExecute, SwitchTrigger, RemovePlayer, RemoveUnit,
              SetUnitPosition, SetUnitOwner, events
<1>5. ASSUME NEW p \in Players, Cancel(p) PROVE UNCHANGED ring
  BY <1>5 DEF Cancel
<1>6. ASSUME NEW u \in Units, Walk(u) \/ Die(u) PROVE UNCHANGED ring
  BY <1>6 DEF Walk, Die, events
<1>7. CASE UNCHANGED vars
  BY <1>7 DEF vars, events
<1> QED BY <1>1, <1>2, <1>3, <1>4, <1>5, <1>6, <1>7 DEF Next

LEMMA PublishKeepsLap ==
  ASSUME TypeOK, LastLapFaithful, NEW call, Publish(call)
  PROVE  LastLapFaithful'
<1>1. /\ read' = read /\ write' = write + 1
      /\ write \in Nat /\ read \in Nat /\ read <= write
  BY DEF Publish, TypeOK
<1> SUFFICES ASSUME NEW i \in read .. write, write + 1 - i <= MAX_EVENT_QUEUE
             PROVE  LET slot == queue'[i % MAX_EVENT_QUEUE]
                    IN slot.type = pending'[i].type /\ slot.edict = pending'[i].edict
  BY <1>1 DEF LastLapFaithful
<1> DEFINE response == IF call.responseTo = Nobody
                       THEN queue[write % MAX_EVENT_QUEUE].responseTo
                       ELSE call.responseTo
           new == Call(call.type, call.edict, response)
           last == [type |-> call.type, edict |-> call.edict,
                    owner |-> OwnerOf(call.edict)]
<1>2. /\ queue' = [queue EXCEPT ![write % MAX_EVENT_QUEUE] = new]
      /\ pending' = [j \in read .. write |-> IF j < write THEN pending[j] ELSE last]
  BY DEF Publish
<1>3. new.type = last.type /\ new.edict = last.edict
  BY DEF Call
<1>4. i \in Nat /\ MAX_EVENT_QUEUE \in Nat \ {0}
  BY <1>1, BoundAssumption
<1>5. DOMAIN queue = 0 .. MAX_EVENT_QUEUE - 1
  BY DEF TypeOK
<1> HIDE DEF new, last
<1>6. CASE i = write
  <2>1. queue'[i % MAX_EVENT_QUEUE] = new
    BY <1>1, <1>2, <1>5, <1>6, SlotOK
  <2>2. pending'[i] = last
    BY <1>1, <1>2, <1>6
  <2> QED BY <1>3, <2>1, <2>2
<1>7. CASE i < write
  <2>1. i % MAX_EVENT_QUEUE # write % MAX_EVENT_QUEUE
    <3>1. write - i < MAX_EVENT_QUEUE
      BY <1>1, <1>4
    <3> QED BY <1>1, <1>4, <1>7, <3>1, SlotsDiffer
  <2>2. i % MAX_EVENT_QUEUE \in 0 .. MAX_EVENT_QUEUE - 1
    BY <1>4, SlotOK
  <2>3. queue'[i % MAX_EVENT_QUEUE] = queue[i % MAX_EVENT_QUEUE]
    BY <1>2, <1>5, <2>1, <2>2
  <2>4. pending'[i] = pending[i]
    BY <1>1, <1>2, <1>7
  <2>5. i \in read .. write - 1 /\ write - i <= MAX_EVENT_QUEUE
    BY <1>1, <1>4, <1>7
  <2> QED BY <2>3, <2>4, <2>5 DEF LastLapFaithful
<1> QED BY <1>1, <1>4, <1>6, <1>7

LEMMA NextKeepsLap == TypeOK /\ LastLapFaithful /\ [Next]_vars => LastLapFaithful'
<1> SUFFICES ASSUME TypeOK, LastLapFaithful, [Next]_vars PROVE LastLapFaithful'
  OBVIOUS
<1>1. CASE UNCHANGED ring
  BY <1>1 DEF ring, LastLapFaithful
<1>2. CASE \E call : Publish(call)
  BY <1>2, PublishKeepsLap
<1>3. CASE EventDone
  <2>1. /\ read' = read + 1 /\ write' = write /\ queue' = queue
        /\ pending' = [i \in read + 1 .. write - 1 |-> pending[i]]
        /\ write \in Nat /\ read \in Nat
    BY <1>3 DEF EventDone, TypeOK
  <2> SUFFICES ASSUME NEW i \in read + 1 .. write - 1, write - i <= MAX_EVENT_QUEUE
               PROVE  LET slot == queue[i % MAX_EVENT_QUEUE]
                      IN slot.type = pending'[i].type /\ slot.edict = pending'[i].edict
    BY <2>1 DEF LastLapFaithful
  <2>2. pending'[i] = pending[i]
    BY <2>1
  <2>3. i \in read .. write - 1
    BY <2>1
  <2> QED BY <2>2, <2>3 DEF LastLapFaithful
<1> QED BY <1>1, <1>2, <1>3, RingSteps

LEMMA LapImplies == TypeOK /\ LastLapFaithful => RingFaithful
<1> SUFFICES ASSUME TypeOK, LastLapFaithful, ~Overflow,
                    NEW i \in read .. write - 1
             PROVE  LET slot == queue[i % MAX_EVENT_QUEUE]
                    IN slot.type = pending[i].type /\ slot.edict = pending[i].edict
  BY DEF RingFaithful
<1>1. write - i <= MAX_EVENT_QUEUE
  BY BoundAssumption DEF Overflow, TypeOK
<1> QED BY <1>1 DEF LastLapFaithful

(* As long as the ring does not overflow, every event that waits is found   *)
(* in its slot as G_PublishEvent was told of it (RingFaithful), for every   *)
(* size of the ring.                                                        *)
THEOREM RingIsFaithful == Spec => []RingFaithful
<1>1. Init => LastLapFaithful
  BY DEF Init, LastLapFaithful
<1> QED BY <1>1, InitType, NextType, NextKeepsLap, LapImplies, PTL DEF Spec

-----------------------------------------------------------------------------
(* The handlers called.  Nothing is published, and no edict changes, while  *)
(* the handlers of an event are called.                                     *)
CalledMatch ==
  /\ phase \in {"events", "touch"} => todo = <<>>
  /\ called # {} => phase = "events" /\ read < write
  /\ \A h \in called :
       \/ h.type = "enter_region"
       \/ LET evt == queue[read % MAX_EVENT_QUEUE]
          IN h.type = evt.type /\ h.subject \in {evt.edict, player[evt.edict]}

LEMMA NextKeepsCalled == TypeOK /\ CalledMatch /\ [Next]_vars => CalledMatch'
<1> SUFFICES ASSUME TypeOK, CalledMatch, [Next]_vars PROVE CalledMatch'
  OBVIOUS
<1> USE DEF Ready, Running
<1>1. CASE CallHandler
  <2> DEFINE evt == queue[read % MAX_EVENT_QUEUE]
             h == handlers[cursor]
  <2>1. /\ \/ Matches(evt, h) /\ called' = called \cup {h}
           \/ called' = called
        /\ phase = "events" /\ todo = <<>> /\ read < write
        /\ UNCHANGED <<phase, todo, ring, world>>
    BY <1>1 DEF CallHandler
  <2>2. UNCHANGED <<queue, read, write, player>>
    BY <2>1 DEF ring, world
  <2>3. \A x \in called' : x \in called \/ (x = h /\ Matches(evt, h))
    BY <2>1
  <2> QED BY <2>1, <2>2, <2>3 DEF CalledMatch, Matches
<1>2. CASE EventDone
  BY <1>2 DEF EventDone, CalledMatch
<1>3. ASSUME phase # "events", called' = called, phase' \in {"events", "touch"} => todo' = <<>>
      PROVE  CalledMatch'
  BY <1>3 DEF CalledMatch
<1>4. CASE EventsDone
  BY <1>4 DEF EventsDone, CalledMatch, events, TypeOK
<1>5. CASE PublishEvent
  BY <1>3, <1>5 DEF PublishEvent, CalledMatch
<1>6. CASE StartFrame \/ Resume \/ Leave \/ ScriptsDone \/ EntitiesDone \/ Touch
           \/ FrameDone
  BY <1>3, <1>6 DEF StartFrame, Resume, Leave, Sleep, Return, ScriptsDone,
                    EntitiesDone, Touch, FrameDone, events
<1>7. CASE Native
  BY <1>3, <1>7 DEF Native, TriggerExecute, SwitchTrigger, RemovePlayer, RemoveUnit,
                    SetUnitPosition, SetUnitOwner, events
<1>8. ASSUME NEW p \in Players, Cancel(p) PROVE CalledMatch'
  BY <1>3, <1>8 DEF Cancel
<1>9. ASSUME NEW u \in Units, Walk(u) \/ Die(u) PROVE CalledMatch'
  BY <1>3, <1>9 DEF Walk, Die, events
<1>10. CASE UNCHANGED vars
  BY <1>10 DEF vars, events, ring, world, CalledMatch
<1> QED BY <1>1, <1>2, <1>4, <1>5, <1>6, <1>7, <1>8, <1>9, <1>10 DEF Next

LEMMA CalledImplies == TypeOK /\ RingFaithful /\ CalledMatch => UnitHandlersOwn
<1> SUFFICES ASSUME TypeOK, RingFaithful, CalledMatch, ~Overflow,
                    NEW h \in called, h.subject \in Units
             PROVE  pending[read].edict = h.subject /\ pending[read].type = h.type
  BY DEF UnitHandlersOwn
<1> DEFINE evt == queue[read % MAX_EVENT_QUEUE]
<1>1. h.type # "enter_region"
  BY HandlerAssumption, EdictAssumption DEF TypeOK, Edicts
<1>2. h.type = evt.type /\ h.subject \in {evt.edict, player[evt.edict]}
  BY <1>1 DEF CalledMatch
<1>3. evt.edict \in Edicts
  BY SlotOK DEF TypeOK, Event
<1>4. player[evt.edict] \in Players
  BY <1>3 DEF TypeOK
<1>5. h.subject = evt.edict
  BY <1>2, <1>4, EdictAssumption
<1>6. read \in read .. write - 1
  BY DEF CalledMatch, TypeOK
<1>7. evt.type = pending[read].type /\ evt.edict = pending[read].edict
  BY <1>6 DEF RingFaithful
<1> QED BY <1>2, <1>5, <1>7

(* A trigger registered for something that happens to one unit is called    *)
(* for that alone while the ring does not overflow (UnitHandlersOwn),       *)
(* whatever handlers there are and whatever the scripts do.                 *)
THEOREM UnitHandlersAreOwn == Spec => []UnitHandlersOwn
<1>1. Init => CalledMatch /\ LastLapFaithful
  BY DEF Init, CalledMatch, LastLapFaithful
<1> QED BY <1>1, InitType, NextType, NextKeepsLap, LapImplies, NextKeepsCalled,
           CalledImplies, PTL DEF Spec

-----------------------------------------------------------------------------
(* The walk over the coroutines: those before the cursor have run or wait;  *)
(* those after it, and the one at it unless it is running, have not run in  *)
(* this frame.                                                              *)
WalkOrdered ==
  /\ running => coroutines[cursor].ran
  /\ phase = "events" => \A i \in 1 .. Len(coroutines) : ~coroutines[i].ran
  /\ phase = "scripts" =>
       \A i \in 1 .. Len(coroutines) :
         /\ i < cursor => coroutines[i].ran \/ coroutines[i].wake > 0
         /\ i > cursor \/ (i = cursor /\ ~running) => ~coroutines[i].ran
  /\ PassComplete

LEMMA NextKeepsWalk == TypeOK /\ WalkOrdered /\ [Next]_vars => WalkOrdered'
<1> SUFFICES ASSUME TypeOK, WalkOrdered, [Next]_vars PROVE WalkOrdered'
  OBVIOUS
<1> USE DEF Ready, Running
<1>0. /\ Len(coroutines) \in Nat /\ cursor \in Nat \ {0}
      /\ coroutines \in Seq(Coroutine)
      /\ running => phase = "scripts" /\ cursor <= Len(coroutines)
  BY LenProperties DEF TypeOK
<1>1. CASE StartFrame
  <2>1. /\ phase' = "events" /\ ~running'
        /\ coroutines' = [i \in 1 .. Len(coroutines) |->
                            [coroutines[i] EXCEPT !.ran = FALSE,
                               !.wake = IF @ = 0 THEN 0 ELSE @ - 1]]
    BY <1>0, <1>1 DEF StartFrame
  <2>2. \A i \in 1 .. Len(coroutines) : coroutines[i] \in Coroutine
    BY <1>0, ElementOfSeq
  <2>3. \A i \in 1 .. Len(coroutines) : ~coroutines'[i].ran
    BY <2>1, <2>2 DEF Coroutine
  <2>4. Len(coroutines') = Len(coroutines)
    <3> DEFINE f == coroutines'
               S == {f[i] : i \in 1 .. Len(coroutines)}
    <3>1. f \in [1 .. Len(coroutines) -> S]
      BY <2>1
    <3> HIDE DEF f, S
    <3>2. Len(f) = Len(coroutines)
      BY <1>0, <3>1, FunctionIsSeq
    <3> QED BY <3>2 DEF f
  <2> QED BY <2>1, <2>3, <2>4 DEF WalkOrdered, PassComplete
<1>2. ASSUME NEW t \in Triggers, NEW u \in Edicts,
             coroutines' = Append(coroutines, NewCoroutine(t, u)),
             phase \in {"events", "scripts"}, phase = "scripts" => cursor' = cursor,
             UNCHANGED <<phase, running>>
      PROVE  WalkOrdered'
  <2> DEFINE new == NewCoroutine(t, u)
  <2>1. new \in Coroutine /\ ~new.ran
    BY NewCoroutineType
  <2> HIDE DEF new
  <2>2. /\ Len(coroutines') = Len(coroutines) + 1
        /\ \A i \in 1 .. Len(coroutines) : coroutines'[i] = coroutines[i]
        /\ coroutines'[Len(coroutines) + 1] = new
    BY <1>0, <1>2, <2>1, AppendIs DEF new
  <2>3. \A i \in 1 .. Len(coroutines') : i \in 1 .. Len(coroutines) \/ i = Len(coroutines) + 1
    BY <1>0, <2>2
  <2>4. running' => coroutines'[cursor'].ran
    BY <1>0, <1>2, <2>2 DEF WalkOrdered
  <2>5. phase' = "events" => \A i \in 1 .. Len(coroutines') : ~coroutines'[i].ran
    BY <1>2, <2>1, <2>2, <2>3 DEF WalkOrdered
  <2>6. ASSUME phase = "scripts", NEW i \in 1 .. Len(coroutines')
        PROVE  /\ i < cursor => coroutines'[i].ran \/ coroutines'[i].wake > 0
               /\ i > cursor \/ (i = cursor /\ ~running) => ~coroutines'[i].ran
    <3>1. cursor <= Len(coroutines) + 1
      BY <2>6 DEF TypeOK
    <3>2. CASE i \in 1 .. Len(coroutines)
      BY <2>2, <2>6, <3>2 DEF WalkOrdered
    <3>3. CASE i = Len(coroutines) + 1
      BY <1>0, <2>1, <2>2, <3>1, <3>3
    <3> QED BY <2>3, <3>2, <3>3
  <2> QED BY <1>2, <2>4, <2>5, <2>6 DEF WalkOrdered, PassComplete
<1>3. CASE CallHandler
  <2> DEFINE t == handlers[cursor].trigger
             u == queue[read % MAX_EVENT_QUEUE].edict
  <2>1. t \in Triggers /\ u \in Edicts
    <3>1. t \in Triggers
      BY <1>0, <1>3, HandlerType DEF CallHandler
    <3>2. queue[read % MAX_EVENT_QUEUE] \in Event
      BY SlotOK DEF TypeOK
    <3> QED BY <3>1, <3>2 DEF Event
  <2>2. /\ coroutines' = Append(coroutines, NewCoroutine(t, u)) \/ coroutines' = coroutines
        /\ phase = "events" /\ UNCHANGED <<phase, running>>
    BY <1>3 DEF CallHandler
  <2> HIDE DEF t, u
  <2>3. CASE coroutines' = coroutines
    BY <1>0, <2>2, <2>3 DEF WalkOrdered, PassComplete
  <2> QED BY <1>2, <2>1, <2>2, <2>3
<1>4. ASSUME NEW t \in Triggers, TriggerExecute(t) PROVE WalkOrdered'
  <2>1. coroutines[cursor].unit \in Edicts
    <3>1. cursor \in 1 .. Len(coroutines)
      BY <1>0, <1>4 DEF TriggerExecute
    <3>2. coroutines[cursor] \in Coroutine
      BY <1>0, <3>1, ElementOfSeq
    <3> QED BY <3>2 DEF Coroutine
  <2> QED BY <1>2, <1>4, <2>1 DEF TriggerExecute
<1>5. CASE EventsDone
  BY <1>0, <1>5 DEF EventsDone, WalkOrdered, PassComplete, script
<1>6. CASE Resume
  <2>1. /\ phase = "scripts" /\ phase' = phase /\ ~running
        /\ cursor \in 1 .. Len(coroutines)
    BY <1>0, <1>6 DEF Resume
  <2>2. CASE coroutines[cursor].wake > 0
    <3>1. cursor' = cursor + 1 /\ UNCHANGED <<coroutines, running>>
      BY <1>6, <2>2 DEF Resume
    <3> QED BY <1>0, <2>1, <2>2, <3>1 DEF WalkOrdered, PassComplete
  <2>3. CASE ~(coroutines[cursor].wake > 0)
    <3>1. /\ running' = TRUE /\ cursor' = cursor
          /\ coroutines' = [coroutines EXCEPT ![cursor].ran = TRUE]
      BY <1>6, <2>3 DEF Resume
    <3>2. coroutines[cursor] \in Coroutine
      BY <1>0, <2>1, ElementOfSeq
    <3>3. [coroutines[cursor] EXCEPT !.ran = TRUE].ran
      BY <3>2 DEF Coroutine
    <3>4. /\ Len(coroutines') = Len(coroutines)
          /\ coroutines'[cursor].ran
          /\ \A i \in 1 .. Len(coroutines) : i # cursor => coroutines'[i] = coroutines[i]
      BY <1>0, <2>1, <3>1, <3>3
    <3> QED BY <1>0, <2>1, <3>1, <3>4 DEF WalkOrdered, PassComplete
  <2> QED BY <2>2, <2>3
<1>7. CASE Sleep
  <2>1. PICK n \in 0 .. MaxSleep : coroutines' = [coroutines EXCEPT ![cursor].wake = n]
    BY <1>7 DEF Sleep
  <2>2. /\ phase = "scripts" /\ phase' = phase /\ running /\ running' = FALSE
        /\ cursor' = cursor + 1 /\ cursor \in 1 .. Len(coroutines)
    BY <1>0, <1>7 DEF Sleep
  <2>3. coroutines[cursor] \in Coroutine /\ coroutines[cursor].ran
    BY <1>0, <2>2, ElementOfSeq DEF WalkOrdered
  <2>4. [coroutines[cursor] EXCEPT !.wake = n].ran
    BY <2>3 DEF Coroutine
  <2>5. /\ Len(coroutines') = Len(coroutines)
        /\ coroutines'[cursor].ran
        /\ \A i \in 1 .. Len(coroutines) : i # cursor => coroutines'[i] = coroutines[i]
    BY <1>0, <2>1, <2>2, <2>4
  <2> QED BY <1>0, <2>2, <2>5 DEF WalkOrdered, PassComplete
<1>8. CASE Return
  <2>1. /\ phase = "scripts" /\ phase' = phase /\ running' = FALSE
        /\ cursor' = cursor /\ cursor \in 1 .. Len(coroutines)
        /\ coroutines' = [i \in 1 .. Len(coroutines) - 1 |->
                            IF i < cursor THEN coroutines[i] ELSE coroutines[i + 1]]
    BY <1>0, <1>8 DEF Return
  <2>2. Len(coroutines') = Len(coroutines) - 1
    BY <1>0, <2>1, WithoutIs
  <2>3. ASSUME NEW i \in 1 .. Len(coroutines')
        PROVE  /\ i < cursor => coroutines'[i] = coroutines[i]
               /\ i >= cursor => coroutines'[i] = coroutines[i + 1]
               /\ i + 1 \in 1 .. Len(coroutines)
    BY <1>0, <2>1, <2>2
  <2> QED BY <1>0, <2>1, <2>2, <2>3 DEF WalkOrdered, PassComplete
<1>9. CASE ScriptsDone
  BY <1>0, <1>9 DEF ScriptsDone, WalkOrdered, PassComplete, script
<1>10. ASSUME UNCHANGED <<coroutines, running>>, phase' # "scripts", phase' # "events",
              phase' = phase \/ phase \in {"entities", "touch"}
       PROVE  WalkOrdered'
  BY <1>0, <1>10 DEF WalkOrdered, PassComplete
<1>11. ASSUME UNCHANGED <<coroutines, running, phase>>,
              phase = "scripts" => cursor' = cursor
       PROVE  WalkOrdered'
  BY <1>0, <1>11 DEF WalkOrdered, PassComplete
<1>12. CASE EntitiesDone \/ FrameDone
  BY <1>10, <1>12 DEF EntitiesDone, FrameDone, script
<1>13. CASE PublishEvent \/ EventDone \/ Touch
  BY <1>11, <1>13 DEF PublishEvent, EventDone, Touch, script
<1>14. CASE UNCHANGED vars
  BY <1>11, <1>14 DEF vars, script
<1>15. ASSUME NEW p \in Players, Cancel(p) \/ RemovePlayer(p) PROVE WalkOrdered'
  BY <1>11, <1>15 DEF Cancel, RemovePlayer, script
<1>16. ASSUME NEW u \in Units,
              \/ Walk(u) \/ Die(u) \/ RemoveUnit(u) \/ SetUnitPosition(u)
              \/ \E p \in Players : SetUnitOwner(u, p)
       PROVE  WalkOrdered'
  BY <1>11, <1>16 DEF Walk, Die, RemoveUnit, SetUnitPosition, SetUnitOwner, script
<1>17. ASSUME NEW t \in Triggers, SwitchTrigger(t) PROVE WalkOrdered'
  BY <1>11, <1>17 DEF SwitchTrigger
<1> QED
  BY <1>1, <1>3, <1>4, <1>5, <1>6, <1>7, <1>8, <1>9, <1>12, <1>13, <1>14, <1>15,
     <1>16, <1>17 DEF Next, Leave, Native

LEMMA InitWalk == Init => WalkOrdered
BY DEF Init, WalkOrdered, PassComplete

(* When the walk is over, every coroutine that was due has run, those that  *)
(* others started during the walk too (PassComplete).                       *)
THEOREM PassIsComplete == Spec => []PassComplete
<1>1. WalkOrdered => PassComplete
  BY DEF WalkOrdered
<1> QED BY <1>1, InitType, NextType, InitWalk, NextKeepsWalk, PTL DEF Spec

(* No coroutine is resumed twice in a frame (ResumedOnce).                  *)
THEOREM CoroutinesResumeOnce == Spec => ResumedOnce
<1>1. TypeOK /\ WalkOrdered /\ [Next]_vars
        => [~running /\ running' => ~coroutines[cursor].ran]_vars
  <2> SUFFICES ASSUME TypeOK, WalkOrdered, [Next]_vars, ~running, running'
               PROVE  ~coroutines[cursor].ran
    OBVIOUS
  <2>1. Resume
    BY DEF Next, vars, events, script, PublishEvent, Cancel, StartFrame, CallHandler,
           EventDone, EventsDone, Leave, Sleep, Return, Native, TriggerExecute,
           SwitchTrigger, RemovePlayer, RemoveUnit, SetUnitPosition, SetUnitOwner,
           ScriptsDone, Walk, Die, EntitiesDone, Touch, FrameDone
  <2>2. phase = "scripts" /\ cursor \in 1 .. Len(coroutines)
    BY <2>1, LenProperties DEF Resume, Ready, TypeOK
  <2> QED BY <2>2 DEF WalkOrdered
<1> QED BY <1>1, InitType, NextType, InitWalk, NextKeepsWalk, PTL DEF Spec, ResumedOnce
=============================================================================
