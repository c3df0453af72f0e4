----------------------------- MODULE GameEvents -----------------------------
(***************************************************************************)
(* Events, triggers and the coroutines of map scripts within the frame of  *)
(* the level (g_main.c, g_events.c, jass/jdo.c): what happens to units is  *)
(* published in a ring; the next frame matches each event with the         *)
(* registered handlers and starts a coroutine for the action of each       *)
(* trigger that passes; then every coroutine that is due runs until it     *)
(* sleeps or returns; then the units move and die.                         *)
(*                                                                         *)
(* Abstractions: one region, in which a unit is or is not, stands for the  *)
(* places where EVENT_GAME_ENTER_REGION and EVENT_UNIT_IN_RANGE are told.  *)
(* A player's edict is the player's number.  What a script does is a free  *)
(* choice among the natives that touch this state; conditions have no      *)
(* effects; handlers are those main registered, newest first; a trigger    *)
(* has one action.  A wake time is counted in frames from now.             *)
(***************************************************************************)
EXTENDS Integers, Sequences

CONSTANTS
  Units,            \* edicts of units
  UnitOrder,        \* the units, in the order of their numbers
  MAX_PLAYERS,      \* players, all of them human
  FirstOwner,       \* the player of each unit when the map starts
  Triggers,
  handlers,         \* level.events.handlers
  Nobody,           \* NULL as an edict or a handler
  MAX_EVENT_QUEUE,  \* slots of the ring
  MaxPublished,     \* bound: nothing happens to anybody after so many events
  MaxCoroutines,    \* bound: coroutines alive at a time
  MaxStarted,       \* bound: coroutines that scripts start in a frame
  MaxSleep          \* bound: frames a script sleeps

Players == 0 .. MAX_PLAYERS - 1   \* their numbers, and their edicts
Edicts == Units \cup Players
Handlers == {handlers[i] : i \in 1 .. Len(handlers)}
EventType == {"unit_death", "player_unit_death", "player_defeat",
              "end_cinematic", "enter_region"}

ASSUME EdictAssumption ==
  /\ MAX_PLAYERS \in Nat \ {0}
  /\ Units \cap Players = {} /\ Nobody \notin Edicts /\ Nobody \notin Handlers
  /\ FirstOwner \in [Units -> Players]
  /\ UnitOrder \in Seq(Units)
ASSUME HandlerAssumption ==
  /\ handlers \in Seq([type : EventType, subject : Edicts \cup {Nobody},
                       trigger : Triggers])
  /\ \A h \in Handlers : h.type = "enter_region" => h.subject = Nobody
ASSUME BoundAssumption ==
  /\ MAX_EVENT_QUEUE \in Nat \ {0}
  /\ MaxPublished \in Nat /\ MaxCoroutines \in Nat
  /\ MaxStarted \in Nat /\ MaxSleep \in Nat

VARIABLES
  phase,       \* where G_RunFrame is; "clients" between two frames
  cursor,      \* the place in the list the phase goes through, from 1
  todo,        \* what is left of a loop of G_PublishEvent calls
  queue, write, read,   \* level.events
  pending,     \* history: the events from read on, as they were published
  called,      \* history: the handlers called for the event at read
  disabled,    \* the triggers DisableTrigger turned off
  coroutines,  \* the list of the virtual machine's root
  running,     \* the coroutine at cursor is being resumed
  started,     \* coroutines that scripts started in this frame
  inuse,       \* units that were not freed
  player,      \* s.player of every edict
  inside,      \* s.origin2 of a unit is in the region
  was_inside   \* old_origin of a unit is in the region

ring == <<queue, write, read, pending>>
events == <<todo, ring, called>>
script == <<disabled, coroutines, running, started>>
world == <<inuse, player, inside, was_inside>>
vars == <<phase, cursor, events, script, world>>

Event == [type : EventType, edict : Edicts, responseTo : Handlers \cup {Nobody}]
Published == [type : EventType, edict : Edicts, owner : Players]
Coroutine == [trigger : Triggers, unit : Edicts, wake : 0 .. MaxSleep,
              ran : BOOLEAN]

(* jass_startcoroutine puts a coroutine that is due at the end of the list. *)
NewCoroutine(t, u) == [trigger |-> t, unit |-> u, wake |-> 0, ran |-> FALSE]

NoEvent == [type |-> "end_cinematic", edict |-> 0, responseTo |-> Nobody]

(* G_SpawnEntities clears the level; main has registered its triggers.  The *)
(* s.player of a player's edict is never set and stays 0.                   *)
Init ==
  /\ phase = "clients" /\ cursor = 1 /\ todo = <<>>
  /\ queue = [i \in 0 .. MAX_EVENT_QUEUE - 1 |-> NoEvent]
  /\ write = 0 /\ read = 0 /\ pending = <<>> /\ called = {}
  /\ disabled = {} /\ coroutines = <<>> /\ running = FALSE /\ started = 0
  /\ inuse = Units
  /\ player = [e \in Edicts |-> IF e \in Units THEN FirstOwner[e] ELSE 0]
  /\ inside = [u \in Units |-> FALSE]
  /\ was_inside = [u \in Units |-> FALSE]

-----------------------------------------------------------------------------
Call(type, e, h) == [type |-> type, edict |-> e, responseTo |-> h]

(* The player an event is about: the player, or the owner of the unit.     *)
OwnerOf(e) == IF e \in Players THEN e ELSE player[e]

(* Mutant of Publish: the counter moves before the slot is taken.          *)
PublishAhead(call) ==
  /\ queue' = [queue EXCEPT ![(write + 1) % MAX_EVENT_QUEUE] =
                 Call(call.type, call.edict,
                      IF call.responseTo = Nobody THEN @.responseTo
                      ELSE call.responseTo)]
  /\ write' = write + 1
  /\ pending' = [i \in read .. write |->
                   IF i < write THEN pending[i]
                   ELSE [type |-> call.type, edict |-> call.edict,
                         owner |-> OwnerOf(call.edict)]]
  /\ UNCHANGED read

(* G_PublishEvent and what its caller does to the slot: responseTo is set   *)
(* by G_TouchTriggers alone, and by nobody taken back.                      *)
Publish(call) ==
  /\ queue' = [queue EXCEPT ![write % MAX_EVENT_QUEUE] =
                 Call(call.type, call.edict,
                      IF call.responseTo = Nobody THEN @.responseTo
                      ELSE call.responseTo)]
  /\ write' = write + 1
  /\ pending' = [i \in read .. write |->
                   IF i < write THEN pending[i]
                   ELSE [type |-> call.type, edict |-> call.edict,
                         owner |-> OwnerOf(call.edict)]]
  /\ UNCHANGED read

(* A handler that publishes several events does nothing in between.        *)
PublishEvent ==
  /\ todo # <<>>
  /\ Publish(Head(todo))
  /\ todo' = Tail(todo)
  /\ UNCHANGED <<phase, cursor, called, script, world>>

Ready(p) == phase = p /\ todo = <<>>
MayHappen == write < MaxPublished

(* Cancel: the cinematic ends for the player who cancels, then for each of  *)
(* the others.                                                              *)
Cancel(p) ==
  /\ Ready("clients") /\ MayHappen
  /\ todo' = [i \in 1 .. MAX_PLAYERS |->
                Call("end_cinematic",
                     IF i = 1 THEN p ELSE IF i - 2 < p THEN i - 2 ELSE i - 1,
                     Nobody)]
  /\ UNCHANGED <<phase, cursor, ring, called, script, world>>

(* Time moves on by a frame.                                               *)
StartFrame ==
  /\ Ready("clients")
  /\ phase' = "events" /\ cursor' = 1
  /\ started' = 0
  /\ coroutines' = [i \in 1 .. Len(coroutines) |->
                      [coroutines[i] EXCEPT !.ran = FALSE,
                         !.wake = IF @ = 0 THEN 0 ELSE @ - 1]]
  /\ UNCHANGED <<events, disabled, running, world>>

-----------------------------------------------------------------------------
(* Mutant of Matches: the type of the event is not compared.               *)
MatchesSubject(evt, h) ==
  IF h.type = "enter_region" THEN evt.responseTo = h
  ELSE h.subject \in {evt.edict, player[evt.edict]}

(* The cases of G_ExecuteEvent: a region's handler is recognised by         *)
(* responseTo alone, any other by its type and by the unit or its player.   *)
Matches(evt, h) ==
  IF h.type = "enter_region" THEN evt.responseTo = h
  ELSE /\ h.type = evt.type
       /\ h.subject \in {evt.edict, player[evt.edict]}

(* One turn of the loop of G_ExecuteEvent over the handlers, with           *)
(* jass_calltrigger: the conditions of a disabled trigger are not asked,    *)
(* and any may be false.                                                    *)
CallHandler ==
  /\ Ready("events") /\ read < write /\ cursor <= Len(handlers)
  /\ LET evt == queue[read % MAX_EVENT_QUEUE]
         h == handlers[cursor]
     IN \/ /\ Matches(evt, h) /\ h.trigger \notin disabled
           /\ Len(coroutines) < MaxCoroutines
           /\ coroutines' = Append(coroutines, NewCoroutine(h.trigger, evt.edict))
           /\ called' = called \cup {h}
        \/ UNCHANGED <<coroutines, called>>
  /\ cursor' = cursor + 1
  /\ UNCHANGED <<phase, todo, ring, disabled, running, started, world>>

(* Mutant of EventDone: the loop does not come to the next event.          *)
EventDoneAgain ==
  /\ Ready("events") /\ read < write /\ cursor > Len(handlers)
  /\ cursor' = 1
  /\ called' = {}
  /\ UNCHANGED <<phase, todo, ring, script, world>>

(* The loop of G_RunEvents goes on with the next event.                    *)
EventDone ==
  /\ Ready("events") /\ read < write /\ cursor > Len(handlers)
  /\ read' = read + 1 /\ cursor' = 1
  /\ pending' = [i \in read + 1 .. write - 1 |-> pending[i]]
  /\ called' = {}
  /\ UNCHANGED <<phase, todo, queue, write, script, world>>

EventsDone ==
  /\ Ready("events") /\ read >= write
  /\ phase' = "scripts" /\ cursor' = 1
  /\ UNCHANGED <<events, script, world>>

-----------------------------------------------------------------------------
(* jass_runevents walks the list: what is not due is passed over.          *)
Resume ==
  /\ Ready("scripts") /\ ~running /\ cursor <= Len(coroutines)
  /\ IF coroutines[cursor].wake > 0
     THEN cursor' = cursor + 1 /\ UNCHANGED <<coroutines, running>>
     ELSE /\ running' = TRUE
          /\ coroutines' = [coroutines EXCEPT ![cursor].ran = TRUE]
          /\ UNCHANGED cursor
  /\ UNCHANGED <<phase, events, disabled, started, world>>

Running == Ready("scripts") /\ running

(* Mutant of Sleep: the walk stays at the coroutine that yielded.          *)
SleepStaying ==
  /\ Running
  /\ \E n \in 0 .. MaxSleep : coroutines' = [coroutines EXCEPT ![cursor].wake = n]
  /\ running' = FALSE
  /\ UNCHANGED <<phase, cursor, events, disabled, started, world>>

(* jass_sleep: the coroutine yields, and stays in the list.                *)
Sleep ==
  /\ Running
  /\ \E n \in 0 .. MaxSleep : coroutines' = [coroutines EXCEPT ![cursor].wake = n]
  /\ running' = FALSE /\ cursor' = cursor + 1
  /\ UNCHANGED <<phase, events, disabled, started, world>>

(* Mutant of Return: the walk skips what followed the coroutine.           *)
ReturnSkipping ==
  /\ Running
  /\ coroutines' = [i \in 1 .. Len(coroutines) - 1 |->
                      IF i < cursor THEN coroutines[i] ELSE coroutines[i + 1]]
  /\ running' = FALSE /\ cursor' = cursor + 1
  /\ UNCHANGED <<phase, events, disabled, started, world>>

(* The action returns: the coroutine is taken from the list and freed, and *)
(* the walk goes on with what followed it.                                 *)
Return ==
  /\ Running
  /\ coroutines' = [i \in 1 .. Len(coroutines) - 1 |->
                      IF i < cursor THEN coroutines[i] ELSE coroutines[i + 1]]
  /\ running' = FALSE
  /\ UNCHANGED <<phase, cursor, events, disabled, started, world>>

(* TriggerExecute, and ExecuteFunc and newthread with the trigger of the    *)
(* caller: the unit is the one of the coroutine that runs.                  *)
TriggerExecute(t) ==
  /\ Running
  /\ started < MaxStarted /\ Len(coroutines) < MaxCoroutines
  /\ coroutines' = Append(coroutines, NewCoroutine(t, coroutines[cursor].unit))
  /\ started' = started + 1
  /\ UNCHANGED <<phase, cursor, events, disabled, running, world>>

(* EnableTrigger and DisableTrigger.                                       *)
SwitchTrigger(t) ==
  /\ Running
  /\ disabled' = IF t \in disabled THEN disabled \ {t} ELSE disabled \cup {t}
  /\ UNCHANGED <<phase, cursor, events, coroutines, running, started, world>>

(* RemovePlayer publishes the defeat or victory of a player.               *)
RemovePlayer(p) ==
  /\ Running /\ MayHappen
  /\ todo' = <<Call("player_defeat", p, Nobody)>>
  /\ UNCHANGED <<phase, cursor, ring, called, script, world>>

(* G_FreeEdict zeroes the edict, s.player with it; the origin of the map is *)
(* outside the region.                                                      *)
RemoveUnit(u) ==
  /\ Running /\ u \in inuse
  /\ inuse' = inuse \ {u}
  /\ player' = [player EXCEPT ![u] = 0]
  /\ inside' = [inside EXCEPT ![u] = FALSE]
  /\ was_inside' = [was_inside EXCEPT ![u] = FALSE]
  /\ UNCHANGED <<phase, cursor, events, script>>

SetUnitOwner(u, p) ==
  /\ Running /\ u \in inuse
  /\ player' = [player EXCEPT ![u] = p]
  /\ UNCHANGED <<phase, cursor, events, script, inuse, inside, was_inside>>

SetUnitPosition(u) ==
  /\ Running /\ u \in inuse
  /\ inside' = [inside EXCEPT ![u] = ~@]
  /\ UNCHANGED <<phase, cursor, events, script, inuse, player, was_inside>>

(* The walk is over; G_RunEntities notes where everybody is.               *)
ScriptsDone ==
  /\ Ready("scripts") /\ ~running /\ cursor > Len(coroutines)
  /\ phase' = "entities"
  /\ was_inside' = inside
  /\ UNCHANGED <<cursor, events, script, inuse, player, inside>>

-----------------------------------------------------------------------------
Walk(u) ==
  /\ Ready("entities") /\ MayHappen /\ u \in inuse
  /\ inside' = [inside EXCEPT ![u] = ~@]
  /\ UNCHANGED <<phase, cursor, events, script, inuse, player, was_inside>>

(* unit_die tells of the death twice.                                      *)
Die(u) ==
  /\ Ready("entities") /\ MayHappen /\ u \in inuse
  /\ todo' = <<Call("unit_death", u, Nobody), Call("player_unit_death", u, Nobody)>>
  /\ UNCHANGED <<phase, cursor, ring, called, script, world>>

EntitiesDone ==
  /\ Ready("entities")
  /\ phase' = "touch" /\ cursor' = 1
  /\ UNCHANGED <<events, script, world>>

(* One turn of the two loops that ask of every unit that moved, and of      *)
(* every handler, whether the unit came into the handler's region           *)
(* (G_TouchTriggers).                                                       *)
Touch ==
  /\ Ready("touch") /\ cursor <= Len(UnitOrder) * Len(handlers)
  /\ LET u == UnitOrder[((cursor - 1) \div Len(handlers)) + 1]
         h == handlers[((cursor - 1) % Len(handlers)) + 1]
     IN IF h.type = "enter_region" /\ inside[u] /\ ~was_inside[u]
        THEN Publish(Call("enter_region", u, h))
        ELSE UNCHANGED ring
  /\ cursor' = cursor + 1
  /\ UNCHANGED <<phase, todo, called, script, world>>

FrameDone ==
  /\ Ready("touch") /\ cursor > Len(UnitOrder) * Len(handlers)
  /\ phase' = "clients"
  /\ UNCHANGED <<cursor, events, script, world>>

Leave == Sleep \/ Return
Native ==
  \/ \E t \in Triggers : TriggerExecute(t) \/ SwitchTrigger(t)
  \/ \E p \in Players : RemovePlayer(p)
  \/ \E u \in Units : \/ RemoveUnit(u) \/ SetUnitPosition(u)
                      \/ \E p \in Players : SetUnitOwner(u, p)

Next ==
  \/ PublishEvent
  \/ \E p \in Players : Cancel(p)
  \/ StartFrame \/ CallHandler \/ EventDone \/ EventsDone
  \/ Resume \/ Leave \/ Native \/ ScriptsDone
  \/ \E u \in Units : Walk(u) \/ Die(u)
  \/ EntitiesDone \/ Touch \/ FrameDone

(* A frame is run whenever its time comes, and a script's code is finite: a *)
(* coroutine that runs comes to a sleep or to its end.                      *)
Steps == PublishEvent \/ StartFrame \/ CallHandler \/ EventDone \/ EventsDone
         \/ Resume \/ ScriptsDone \/ EntitiesDone \/ Touch \/ FrameDone
Spec == Init /\ [][Next]_vars
FairSpec == Spec /\ WF_vars(Steps) /\ SF_vars(Leave)

-----------------------------------------------------------------------------
TypeOK ==
  /\ phase \in {"clients", "events", "scripts", "entities", "touch"}
  /\ cursor \in Nat \ {0}
  /\ todo \in Seq(Event)
  /\ queue \in [0 .. MAX_EVENT_QUEUE - 1 -> Event]
  /\ write \in Nat /\ read \in 0 .. write
  /\ pending \in [read .. write - 1 -> Published]
  /\ called \subseteq Handlers
  /\ disabled \subseteq Triggers
  /\ coroutines \in Seq(Coroutine)
  /\ phase = "scripts" => cursor <= Len(coroutines) + 1
  /\ running \in BOOLEAN /\ started \in 0 .. MaxStarted
  /\ running => phase = "scripts" /\ cursor <= Len(coroutines)
  /\ inuse \subseteq Units /\ player \in [Edicts -> Players]
  /\ inside \in [Units -> BOOLEAN] /\ was_inside \in [Units -> BOOLEAN]

Overflow == write - read > MAX_EVENT_QUEUE

(* As long as no more events wait than the ring has slots, each of them is  *)
(* found in its slot as it was published, however often the ring has been   *)
(* gone round (G_PublishEvent, G_RunEvents).                                *)
RingFaithful ==
  ~Overflow =>
    \A i \in read .. write - 1 :
      LET slot == queue[i % MAX_EVENT_QUEUE]
      IN slot.type = pending[i].type /\ slot.edict = pending[i].edict

(* A trigger registered for something that happens to one unit              *)
(* (TriggerRegisterDeathEvent, TriggerRegisterUnitEvent) is called for that *)
(* alone, unless the ring has overflowed: not for another unit, not for a   *)
(* player, not for the second event of the same death.                      *)
UnitHandlersOwn ==
  ~Overflow =>
    \A h \in called :
      h.subject \in Units => /\ pending[read].edict = h.subject
                             /\ pending[read].type = h.type

(* When the walk over the coroutines is over, none that was due has been    *)
(* left out: not the one behind one that returned, not one that another     *)
(* started during the walk (jass_runevents).                                *)
PassComplete ==
  phase \in {"entities", "touch"} =>
    \A i \in 1 .. Len(coroutines) : coroutines[i].ran \/ coroutines[i].wake > 0

(* No coroutine is resumed twice in a frame, though one that sleeps for no  *)
(* time is due again at once and the list changes under the walk.           *)
ResumedOnce ==
  [][~running /\ running' => ~coroutines[cursor].ran]_vars

(* All handlers have been asked about the n-th event itself: what its slot  *)
(* holds when its turn comes is what was published.                         *)
Handled(n) ==
  /\ Ready("events") /\ read = n - 1 /\ read < write
  /\ cursor > Len(handlers)
  /\ queue[read % MAX_EVENT_QUEUE].type = pending[read].type
  /\ queue[read % MAX_EVENT_QUEUE].edict = pending[read].edict

(* The ring, which nobody checks, has gone round over it before its turn.   *)
Overwritten(n) == read < n /\ write >= n + MAX_EVENT_QUEUE

(* Every event is itself handled, whatever the scripts do, unless as many   *)
(* are published before its turn as the ring has slots.                     *)
EveryEventHandled ==
  \A n \in 1 .. MaxPublished + MAX_PLAYERS :
    (write >= n /\ read < n) ~> (Handled(n) \/ Overwritten(n))
=============================================================================
