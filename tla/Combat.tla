------------------------------- MODULE Combat -------------------------------
(***************************************************************************)
(* Units that fight, their missiles and their corpses, in the table of     *)
(* edicts of the Warcraft III game (skills/s_attack.c, m_unit.c, g_phys.c, *)
(* g_ai.c, g_monster.c, g_spawn.c).  A frame runs the edicts one after the *)
(* other by number; a unit's think ends its animation, if it is over, and  *)
(* does what its move has it do.  Between two frames players give orders   *)
(* and scripts kill, remove and revive.                                    *)
(*                                                                         *)
(* Edicts point at each other (goalentity, owner), nothing clears those    *)
(* pointers when an edict is freed, and a freed edict is all zero: to call *)
(* its die or stand is to call NULL.  Freed edicts are given out again     *)
(* only a second of level.time later, and level.time stays 0.              *)
(*                                                                         *)
(* Places are left out: what is within range, has arrived or hits is a     *)
(* choice.  So are combatentity, which only picks an animation, events     *)
(* (GameEvents), routes (FlowField) and pauses.                            *)
(***************************************************************************)
EXTENDS Integers

CONSTANTS
  NumUnits,     \* units of the map, edicts 1 to NumUnits
  Player,       \* the player of each unit
  Armed,        \* units with an attack (attack1.type, attack1.cooldown)
  Ranged,       \* those whose weapon is a missile
  Invulnerable, \* units that take no damage
  Hero,         \* units whose body stays
  MaxHealth,    \* hit points of a unit
  Damages,      \* what an attack may take (ai_rolldamage1, G_AttackDamage)
  DamagePoint, Cooldown, DecayTime, \* in frames
  Interval, FrameTime,  \* AI_ACQUIRE_INTERVAL and FRAMETIME
  MaxEdicts,    \* globals.max_edicts
  MaxOrders     \* bound: what players and scripts do between frames

ASSUME UnitsAssumption ==
  /\ NumUnits \in Nat \ {0} /\ MaxEdicts \in Nat /\ NumUnits <= MaxEdicts
  /\ Player \in [1 .. NumUnits -> Nat]
  /\ Armed \subseteq 1 .. NumUnits /\ Ranged \subseteq Armed
  /\ Invulnerable \subseteq 1 .. NumUnits /\ Hero \subseteq 1 .. NumUnits
  /\ MaxHealth \in Nat \ {0} /\ Damages \subseteq Nat \ {0}
  /\ DamagePoint \in Nat /\ Cooldown \in Nat /\ DecayTime \in Nat \ {0}
  /\ Interval \in Nat \ {0} /\ FrameTime \in Nat /\ MaxOrders \in Nat

VARIABLES
  edicts,   \* g_edicts
  num,      \* globals.num_edicts
  turn,     \* the edict that G_RunEntities runs; 0: between two frames
  end,      \* num_edicts when the frame began (FOR_LOOP reads it once)
  orders,   \* orders and script calls so far
  crashed   \* a NULL pointer was called or written through

vars == <<edicts, num, turn, end, orders, crashed>>

Unit == 1 .. NumUnits
Edict == 1 .. MaxEdicts
Null == 0
Waypoint == MaxEdicts + 1
Down == {"death", "decay"}
Attack == {"walk", "attack", "cooldown"}  \* moves of a_attack
Move == {"none", "stand", "move"} \cup Attack \cup Down

Free == [kind |-> "free", health |-> 0, move |-> "none", wait |-> 0,
         goal |-> Null, owner |-> Null, dead |-> FALSE, hold |-> FALSE]

PlayerOf(t) == IF edicts[t].kind = "unit" THEN Player[t] ELSE 0

-----------------------------------------------------------------------------
Init ==
  /\ edicts = [e \in Edict |-> IF e \in Unit
                 THEN [Free EXCEPT !.kind = "unit", !.health = MaxHealth, !.move = "stand"]
                 ELSE Free]
  /\ num = NumUnits
  /\ turn = 0 /\ end = 0 /\ orders = 0 /\ crashed = FALSE

-----------------------------------------------------------------------------
(* What is done to one edict of a table.                                   *)
Stand(E, e) == [E EXCEPT ![e].move = "stand"]
OrderAttack(E, e, t) == [E EXCEPT ![e].goal = t, ![e].move = "walk"]
OrderMove(E, e) == [E EXCEPT ![e].goal = Waypoint, ![e].move = "move"]
Die(E, e) == [E EXCEPT ![e].move = "death", ![e].dead = TRUE]
FreeEdict(E, e) == [E EXCEPT ![e] = Free]

AttackFrom(E, e) == [E EXCEPT ![e].move = "attack", ![e].wait = DamagePoint]
CoolDown(E, e) ==
  [E EXCEPT ![e].move = "cooldown",
            ![e].wait = IF Cooldown > DamagePoint THEN Cooldown - DamagePoint ELSE 0]

(* Mutant: the timer of a corpse is not set. *)
BeginDecayAtOnce(E, e) ==
  [E EXCEPT ![e].move = "decay", ![e].hold = TRUE, ![e].wait = 0]

BeginDecay(E, e) ==
  [E EXCEPT ![e].move = "decay", ![e].hold = TRUE, ![e].wait = DecayTime]

(* T_Damage: whether the hit kills, whether that calls a NULL pointer, and *)
(* what it does.  Nothing asks whether the target is dead already, nor, of *)
(* a missile, whether its owner is.                                        *)
Lethal(E, t, d) == t \notin Invulnerable /\ E[t].health <= d
Fatal(E, t, a, d) == Lethal(E, t, d) /\ (E[t].kind # "unit" \/ E[a].kind # "unit")
CanAttack(E, t) == t \in Armed /\ E[t].move \notin Attack

T_Damage(E, t, a, d) ==
  IF t \in Invulnerable THEN E
  ELSE IF E[t].health <= d THEN Stand(Die([E EXCEPT ![t].health = 0], t), a)
  ELSE LET hurt == [E EXCEPT ![t].health = @ - d]
       IN IF CanAttack(E, t) THEN OrderAttack(hurt, t, a) ELSE hurt

-----------------------------------------------------------------------------
(* Between two frames.  A player orders the units it has selected, dead    *)
(* ones too, and may name as target whatever it saw there.                 *)
Between == ~crashed /\ turn = 0 /\ orders < MaxOrders
Ordered(E) ==
  /\ Between
  /\ edicts' = E /\ orders' = orders + 1
  /\ UNCHANGED <<num, turn, end, crashed>>

IsUnit(e) == edicts[e].kind = "unit"

SmartOrder(u, t) == /\ IsUnit(u) /\ PlayerOf(t) # PlayerOf(u)
                    /\ Ordered(OrderAttack(edicts, u, t))
MoveOrder(u) == IsUnit(u) /\ Ordered(OrderMove(edicts, u))
StopOrder(u) == IsUnit(u) /\ Ordered(Stand(edicts, u))

(* The natives of scripts: KillUnit sets the life to zero, no more. *)
KillUnit(u) == IsUnit(u) /\ Ordered([edicts EXCEPT ![u].health = 0])
RemoveUnit(u) == IsUnit(u) /\ Ordered(FreeEdict(edicts, u))
ReviveHero(u) ==
  /\ IsUnit(u) /\ u \in Hero
  /\ Ordered([edicts EXCEPT ![u].dead = FALSE, ![u].hold = FALSE,
                            ![u].health = MaxHealth, ![u].move = "stand"])

-----------------------------------------------------------------------------
(* A frame. *)
StartFrame ==
  /\ ~crashed /\ turn = 0
  /\ turn' = 1 /\ end' = num
  /\ UNCHANGED <<edicts, num, orders, crashed>>

(* An edict has had its turn and leaves the table so. *)
Ran(E) ==
  /\ edicts' = E
  /\ turn' = IF turn = end THEN 0 ELSE turn + 1
  /\ UNCHANGED <<end, orders>>

Calm == UNCHANGED <<num, crashed>>
Crash == crashed' = TRUE /\ UNCHANGED <<edicts, num, turn, end, orders>>

(* M_MoveFrame: the animation of the move is over (ends), unless the pose  *)
(* is held: AI_HOLD_FRAME keeps a corpse that is killed again from ever    *)
(* ending its death.                                                       *)
MoveFrame(e, ends) ==
  IF ~ends THEN edicts
  ELSE IF edicts[e].move = "attack" THEN CoolDown(edicts, e)
  ELSE IF edicts[e].move = "death" THEN BeginDecay(edicts, e)
  ELSE edicts

(* unit_runwait: a timer that counts down to its callback; at zero, or     *)
(* started with zero, it does nothing.                                     *)
Waits(E, e) == IF E[e].wait > 1 THEN [E EXCEPT ![e].wait = @ - 1] ELSE E
Elapsed(E, e) == E[e].wait = 1
Reset(E, e) == [E EXCEPT ![e].wait = 0]

(* ai_stand: it takes one of the enemies it sees for a target.  Which      *)
(* frames it looks in depends on level.time: all of them, or none.         *)
Watchful(e) == e \in Armed /\ e % Interval < FrameTime

ThinkStand(E, e) ==
  /\ E[e].move = "stand"
  /\ \/ Ran(E)
     \/ /\ Watchful(e)
        /\ \E t \in Unit : /\ E[t].kind = "unit" /\ Player[t] # Player[e] /\ ~E[t].dead
                           /\ Ran(OrderAttack(E, e, t))
  /\ Calm

ThinkMove(E, e) == E[e].move = "move" /\ (Ran(E) \/ Ran(Stand(E, e))) /\ Calm
ThinkWalk(E, e) == E[e].move = "walk" /\ (Ran(E) \/ Ran(AttackFrom(E, e))) /\ Calm
ThinkDeath(E, e) == E[e].move = "death" /\ Ran(E) /\ Calm

ThinkCooldown(E, e) ==
  /\ E[e].move = "cooldown"
  /\ \/ Ran([E EXCEPT ![e].move = "walk"])
     \/ Ran(IF Elapsed(E, e) THEN AttackFrom(Reset(E, e), e) ELSE Waits(E, e))
  /\ Calm

ThinkDecay(E, e) ==
  /\ E[e].move = "decay"
  /\ Ran(IF e \in Hero THEN E
         ELSE IF Elapsed(E, e) THEN FreeEdict(E, e) ELSE Waits(E, e))
  /\ Calm

(* damage_target and throw_missile, at the attack's damage point: whatever *)
(* the goal has become since the attack began.                             *)
ThinkAttack(E, e) == E[e].move = "attack" /\ ~Elapsed(E, e) /\ Ran(Waits(E, e)) /\ Calm

Strike(E, e) ==
  /\ E[e].move = "attack" /\ Elapsed(E, e) /\ e \notin Ranged
  /\ \E d \in Damages :
       IF Fatal(E, E[e].goal, e, d) THEN Crash
       ELSE Ran(T_Damage(Reset(E, e), E[e].goal, e, d)) /\ Calm

(* Mutant: G_Spawn gives out the first edict that is free. *)
SpawnReusing ==
  IF \E e \in Edict : edicts[e].kind = "free"
  THEN CHOOSE e \in Edict : edicts[e].kind = "free"
                            /\ \A f \in 1 .. e - 1 : edicts[f].kind # "free"
  ELSE Null

(* G_Spawn: the next edict; none is given out again.  gi.error comes back. *)
Spawn == IF num < MaxEdicts THEN num + 1 ELSE Null

Missile(t, owner) == [Free EXCEPT !.kind = "missile", !.goal = t, !.owner = owner]

Throw(E, e) ==
  /\ E[e].move = "attack" /\ Elapsed(E, e) /\ e \in Ranged
  /\ IF Spawn = Null THEN Crash
     ELSE /\ Ran([Reset(E, e) EXCEPT ![Spawn] = Missile(E[e].goal, e)])
          /\ num' = IF Spawn > num THEN Spawn ELSE num
          /\ UNCHANGED crashed

(* Hit points come back to the living (G_RunEntity). *)
Regenerated(E, e) ==
  {E} \cup IF E[e].kind = "unit" /\ 0 < E[e].health /\ E[e].health < MaxHealth
           THEN {[E EXCEPT ![e].health = @ + 1]} ELSE {}

Think(E, e) ==
  \/ ThinkStand(E, e) \/ ThinkMove(E, e) \/ ThinkWalk(E, e) \/ ThinkAttack(E, e)
  \/ ThinkCooldown(E, e) \/ ThinkDeath(E, e) \/ ThinkDecay(E, e)
  \/ Strike(E, e) \/ Throw(E, e)

RunUnit(e, ends) ==
  /\ ~crashed /\ turn = e /\ edicts[e].kind = "unit"
  /\ ends => ~edicts[e].hold /\ edicts[e].move \in {"attack", "death"}
  /\ \E E \in Regenerated(MoveFrame(e, ends), e) : Think(E, e)

(* Mutant: a missile is freed before it does its damage, owner and all. *)
HitFreed(m, d) ==
  IF Fatal(FreeEdict(edicts, m), edicts[m].goal, m, d) THEN Crash
  ELSE Ran(T_Damage(FreeEdict(edicts, m), edicts[m].goal, m, d)) /\ Calm

(* SV_Physics_Toss: the missile flies on to where its target is now, hits  *)
(* it and is freed.                                                        *)
Hit(m, d) ==
  IF Fatal(edicts, edicts[m].goal, edicts[m].owner, d) THEN Crash
  ELSE Ran(FreeEdict(T_Damage(edicts, edicts[m].goal, edicts[m].owner, d), m)) /\ Calm

RunMissile(m) ==
  /\ ~crashed /\ turn = m /\ edicts[m].kind = "missile"
  /\ (Ran(edicts) /\ Calm) \/ \E d \in Damages : Hit(m, d)

RunFree(e) == ~crashed /\ turn = e /\ edicts[e].kind = "free" /\ Ran(edicts) /\ Calm

RunEntity ==
  \E e \in Edict : RunUnit(e, TRUE) \/ RunUnit(e, FALSE) \/ RunMissile(e) \/ RunFree(e)

Order ==
  \E u \in Unit : \/ MoveOrder(u) \/ StopOrder(u) \/ KillUnit(u) \/ RemoveUnit(u)
                  \/ ReviveHero(u) \/ \E t \in Unit : SmartOrder(u, t)

Next == StartFrame \/ RunEntity \/ Order

(* Frames come for ever, and in them animations come to their end. *)
Spec ==
  /\ Init /\ [][Next]_vars
  /\ WF_vars(StartFrame \/ RunEntity)
  /\ \A u \in Unit : SF_vars(RunUnit(u, TRUE))

-----------------------------------------------------------------------------
(* Units and missiles keep to their edicts, and whoever is pointed at was  *)
(* a unit: as no edict is given out twice, no attack and no missile ever   *)
(* turns on an edict that has become something else.                       *)
TypeOK ==
  /\ edicts \in [Edict -> [kind : {"free", "unit", "missile"}, health : 0 .. MaxHealth,
                           move : Move, wait : Nat, goal : Unit \cup {Null, Waypoint},
                           owner : Unit \cup {Null}, dead : BOOLEAN, hold : BOOLEAN]]
  /\ \A e \in Edict :
       /\ edicts[e].kind = "unit" => e \in Unit /\ edicts[e].move # "none"
       /\ edicts[e].kind = "unit" /\ edicts[e].move \in Attack => edicts[e].goal \in Unit
       /\ edicts[e].kind = "missile" =>
            e \notin Unit /\ edicts[e].goal \in Unit /\ edicts[e].owner \in Unit
       /\ e > num => edicts[e] = Free
  /\ num \in NumUnits .. MaxEdicts
  /\ end \in 0 .. num /\ turn \in 0 .. end
  /\ orders \in 0 .. MaxOrders /\ crashed \in BOOLEAN

(* Fighting alone never brings the game down: it takes the removal of a    *)
(* unit, by a script or by decay, or a table used up by missiles.          *)
CrashNeedsRemoval ==
  crashed => num = MaxEdicts \/ \E u \in Unit : edicts[u].kind = "free"

(* Who has died and is left alone is removed in the end (m_unit.c:12).     *)
(* What disturbs it: an order, the kill of a missile it threw, or a blow   *)
(* that falls on the corpse: this one starts the death again under         *)
(* AI_HOLD_FRAME and leaves the body for good.                             *)
Rots(u) == /\ edicts[u].kind = "unit" /\ u \notin Hero
           /\ \/ edicts[u].move = "decay"
              \/ edicts[u].move = "death" /\ ~edicts[u].hold
Disturbed(u) == \/ edicts[u].move \notin Down
                \/ edicts[u].move = "death" /\ edicts[u].hold

CorpseGoes ==
  \A u \in Unit : Rots(u) ~> edicts[u].kind = "free" \/ Disturbed(u) \/ crashed
==============================================================================
