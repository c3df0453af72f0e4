----------------------------- MODULE CombatProofs -----------------------------
(***************************************************************************)
(* What TLAPS proves of the fight (Combat.tla), for any number of units,   *)
(* players and edicts, any weapons and any timers.                         *)
(*                                                                         *)
(* Nothing clears a pointer to an edict that is freed.  What keeps the     *)
(* game from calling a die or a stand of NULL is a fact about the whole    *)
(* table: a goal and an owner name edicts of units, these are never given  *)
(* out again, so what they name is the unit it was or nothing at all.  The *)
(* table is therefore the unit of the proof: Table(E) says that E is such  *)
(* a table, each operator that a turn is built from maps tables to tables, *)
(* and CrashNeedsRemoval follows where a NULL pointer is called.           *)
(***************************************************************************)
EXTENDS Combat, TLAPS

Entry == [kind : {"free", "unit", "missile"}, health : 0 .. MaxHealth,
          move : Move, wait : Nat, goal : Unit \cup {Null, Waypoint},
          owner : Unit \cup {Null}, dead : BOOLEAN, hold : BOOLEAN]

(* An entry that may stand at edict e. *)
Fits(e, r) ==
  /\ r \in Entry
  /\ r.kind = "unit" => e \in Unit /\ r.move # "none"
  /\ r.kind = "unit" /\ r.move \in Attack => r.goal \in Unit
  /\ r.kind = "missile" => e \notin Unit /\ r.goal \in Unit /\ r.owner \in Unit

Table(E) ==
  /\ E \in [Edict -> Entry]
  /\ \A e \in Edict : Fits(e, E[e])
  /\ \A e \in Edict : e > num => E[e] = Free

Counters ==
  /\ num \in NumUnits .. MaxEdicts
  /\ end \in 0 .. num /\ turn \in 0 .. end
  /\ orders \in 0 .. MaxOrders /\ crashed \in BOOLEAN

IInv == Table(edicts) /\ Counters /\ CrashNeedsRemoval

-----------------------------------------------------------------------------
(* The numbers of edicts. *)
LEMMA Numbers ==
  /\ NumUnits \in Nat \ {0} /\ MaxEdicts \in Nat /\ NumUnits <= MaxEdicts
  /\ Unit \subseteq Edict /\ Edict \subseteq Nat /\ Null \notin Edict
  BY UnitsAssumption DEF Unit, Edict, Null

LEMMA FreeFits == Free.kind = "free" /\ \A e : Fits(e, Free)
<1>1. Free \in Entry
  BY UnitsAssumption DEF Free, Entry, Move
<1>2. QED  BY <1>1 DEF Fits, Free

(* A table in which one edict, of those in use, gets another entry. *)
LEMMA ChangedTable ==
  ASSUME NEW E, Table(E), num \in Nat, NEW e \in Edict, e <= num,
         NEW r, Fits(e, r)
  PROVE  Table([E EXCEPT ![e] = r])
<1> DEFINE X == [E EXCEPT ![e] = r]
<1>1. X \in [Edict -> Entry]
  BY DEF Table, Fits
<1>2. X[e] = r /\ \A f \in Edict : f # e => X[f] = E[f]
  BY DEF Table
<1>3. \A f \in Edict : Fits(f, X[f])
  BY <1>2 DEF Table
<1>4. \A f \in Edict : f > num => X[f] = Free
  <2>1. ~(e > num)  BY Numbers
  <2>2. QED  BY <2>1, <1>2 DEF Table
<1>5. QED  BY <1>1, <1>3, <1>4 DEF Table

LEMMA EntryOf ==
  ASSUME NEW E, Table(E), NEW e \in Edict
  PROVE  Fits(e, E[e]) /\ E[e] \in Entry
  BY DEF Table, Fits

(* A unit is in use, and stands at an edict of the map. *)
LEMMA UnitInUse ==
  ASSUME num \in NumUnits .. MaxEdicts, NEW e \in Unit
  PROVE  e \in Edict /\ e <= num /\ num \in Nat
  BY Numbers DEF Unit

LEMMA UnitOfTable ==
  ASSUME NEW E, Table(E), NEW e \in Edict, E[e].kind = "unit"
  PROVE  e \in Unit
  BY EntryOf DEF Fits

(* Whoever is a unit or nothing: the edicts of the map hold no missile. *)
LEMMA UnitOrFree ==
  ASSUME NEW E, Table(E), NEW e \in Unit, E[e].kind # "unit"
  PROVE  E[e].kind = "free"
<1>1. e \in Edict  BY Numbers
<1>2. QED  BY <1>1, EntryOf DEF Fits, Entry

-----------------------------------------------------------------------------
(* Each operator maps tables to tables. *)
LEMMA StandTable ==
  ASSUME NEW E, Table(E), num \in NumUnits .. MaxEdicts, NEW e \in Unit
  PROVE  Table(Stand(E, e))
<1>1. e \in Edict /\ e <= num /\ num \in Nat  BY UnitInUse
<1>2. E \in [Edict -> Entry]  BY DEF Table
<1> DEFINE r == [E[e] EXCEPT !.move = "stand"]
<1>3. Stand(E, e) = [E EXCEPT ![e] = r]
  BY <1>1, <1>2 DEF Stand
<1>4. r \in Entry
  BY <1>1, <1>2 DEF Entry, Move
<1>5. Fits(e, r)
  BY <1>1, <1>4, EntryOf DEF Fits, Entry, Attack
<1> HIDE DEF r
<1>6. Table([E EXCEPT ![e] = r])  BY <1>1, <1>5, ChangedTable
<1>7. QED  BY <1>3, <1>6

LEMMA OrderAttackTable ==
  ASSUME NEW E, Table(E), num \in NumUnits .. MaxEdicts, NEW e \in Unit, NEW t \in Unit
  PROVE  Table(OrderAttack(E, e, t))
<1>1. e \in Edict /\ e <= num /\ num \in Nat  BY UnitInUse
<1>2. E \in [Edict -> Entry]  BY DEF Table
<1> DEFINE r == [E[e] EXCEPT !.goal = t, !.move = "walk"]
<1>3. OrderAttack(E, e, t) = [E EXCEPT ![e] = r]
  BY <1>1, <1>2 DEF OrderAttack
<1>4. r \in Entry
  BY <1>1, <1>2 DEF Entry, Move, Attack
<1>5. Fits(e, r)
  BY <1>1, <1>4, EntryOf DEF Fits, Entry, Attack
<1> HIDE DEF r
<1>6. Table([E EXCEPT ![e] = r])  BY <1>1, <1>5, ChangedTable
<1>7. QED  BY <1>3, <1>6

LEMMA OrderMoveTable ==
  ASSUME NEW E, Table(E), num \in NumUnits .. MaxEdicts, NEW e \in Unit
  PROVE  Table(OrderMove(E, e))
<1>1. e \in Edict /\ e <= num /\ num \in Nat  BY UnitInUse
<1>2. E \in [Edict -> Entry]  BY DEF Table
<1> DEFINE r == [E[e] EXCEPT !.goal = Waypoint, !.move = "move"]
<1>3. OrderMove(E, e) = [E EXCEPT ![e] = r]
  BY <1>1, <1>2 DEF OrderMove
<1>4. r \in Entry
  BY <1>1, <1>2 DEF Entry, Move
<1>5. Fits(e, r)
  BY <1>1, <1>4, EntryOf DEF Fits, Entry, Attack
<1> HIDE DEF r
<1>6. Table([E EXCEPT ![e] = r])  BY <1>1, <1>5, ChangedTable
<1>7. QED  BY <1>3, <1>6

LEMMA DieTable ==
  ASSUME NEW E, Table(E), num \in NumUnits .. MaxEdicts, NEW e \in Unit
  PROVE  Table(Die(E, e))
<1>1. e \in Edict /\ e <= num /\ num \in Nat  BY UnitInUse
<1>2. E \in [Edict -> Entry]  BY DEF Table
<1> DEFINE r == [E[e] EXCEPT !.move = "death", !.dead = TRUE]
<1>3. Die(E, e) = [E EXCEPT ![e] = r]
  BY <1>1, <1>2 DEF Die
<1>4. r \in Entry
  BY <1>1, <1>2 DEF Entry, Move, Down
<1>5. Fits(e, r)
  BY <1>1, <1>4, EntryOf DEF Fits, Entry, Attack, Down
<1> HIDE DEF r
<1>6. Table([E EXCEPT ![e] = r])  BY <1>1, <1>5, ChangedTable
<1>7. QED  BY <1>3, <1>6

LEMMA HealthTable ==
  ASSUME NEW E, Table(E), num \in NumUnits .. MaxEdicts, NEW e \in Unit, NEW h \in 0 .. MaxHealth
  PROVE  Table([E EXCEPT ![e].health = h])
<1>1. e \in Edict /\ e <= num /\ num \in Nat  BY UnitInUse
<1>2. E \in [Edict -> Entry]  BY DEF Table
<1> DEFINE r == [E[e] EXCEPT !.health = h]
<1>3. [E EXCEPT ![e].health = h] = [E EXCEPT ![e] = r]
  BY <1>1, <1>2
<1>4. r \in Entry
  BY <1>1, <1>2 DEF Entry
<1>5. Fits(e, r)
  BY <1>1, <1>4, EntryOf DEF Fits, Entry, Attack
<1> HIDE DEF r
<1>6. QED  BY <1>1, <1>3, <1>5, ChangedTable

LEMMA WaitTable ==
  ASSUME NEW E, Table(E), num \in NumUnits .. MaxEdicts, NEW e \in Unit, NEW n \in Nat
  PROVE  Table([E EXCEPT ![e].wait = n])
<1>1. e \in Edict /\ e <= num /\ num \in Nat  BY UnitInUse
<1>2. E \in [Edict -> Entry]  BY DEF Table
<1> DEFINE r == [E[e] EXCEPT !.wait = n]
<1>3. [E EXCEPT ![e].wait = n] = [E EXCEPT ![e] = r]
  BY <1>1, <1>2
<1>4. r \in Entry
  BY <1>1, <1>2 DEF Entry
<1>5. Fits(e, r)
  BY <1>1, <1>4, EntryOf DEF Fits, Entry, Attack
<1> HIDE DEF r
<1>6. QED  BY <1>1, <1>3, <1>5, ChangedTable

LEMMA FreeEdictTable ==
  ASSUME NEW E, Table(E), num \in NumUnits .. MaxEdicts,
         NEW e \in Edict
  PROVE  Table(FreeEdict(E, e))
<1>1. E \in [Edict -> Entry]  BY DEF Table
<1> DEFINE X == [E EXCEPT ![e] = Free]
<1>2. X[e] = Free /\ \A f \in Edict : f # e => X[f] = E[f]
  BY <1>1
<1>3. X \in [Edict -> Entry]
  BY FreeFits DEF Table, Fits
<1>4. \A f \in Edict : Fits(f, X[f])
  BY <1>2, FreeFits DEF Table
<1>5. \A f \in Edict : f > num => X[f] = Free
  BY <1>2 DEF Table
<1>6. QED  BY <1>3, <1>4, <1>5 DEF Table, FreeEdict

LEMMA AttackFromTable ==
  ASSUME NEW E, Table(E), num \in NumUnits .. MaxEdicts, NEW e \in Unit,
         E[e].goal \in Unit
  PROVE  Table(AttackFrom(E, e))
<1>1. e \in Edict /\ e <= num /\ num \in Nat  BY UnitInUse
<1>2. E \in [Edict -> Entry]  BY DEF Table
<1> DEFINE r == [E[e] EXCEPT !.move = "attack", !.wait = DamagePoint]
<1>3. AttackFrom(E, e) = [E EXCEPT ![e] = r]
  BY <1>1, <1>2 DEF AttackFrom
<1>4. r \in Entry
  BY <1>1, <1>2, UnitsAssumption DEF Entry, Move, Attack
<1>5. Fits(e, r)
  BY <1>1, <1>4, EntryOf DEF Fits, Entry, Attack
<1> HIDE DEF r
<1>6. Table([E EXCEPT ![e] = r])  BY <1>1, <1>5, ChangedTable
<1>7. QED  BY <1>3, <1>6

LEMMA WalkTable ==
  ASSUME NEW E, Table(E), num \in NumUnits .. MaxEdicts, NEW e \in Unit,
         E[e].goal \in Unit
  PROVE  Table([E EXCEPT ![e].move = "walk"])
<1>1. e \in Edict /\ e <= num /\ num \in Nat  BY UnitInUse
<1>2. E \in [Edict -> Entry]  BY DEF Table
<1> DEFINE r == [E[e] EXCEPT !.move = "walk"]
<1>3. [E EXCEPT ![e].move = "walk"] = [E EXCEPT ![e] = r]
  BY <1>1, <1>2
<1>4. r \in Entry
  BY <1>1, <1>2 DEF Entry, Move, Attack
<1>5. Fits(e, r)
  BY <1>1, <1>4, EntryOf DEF Fits, Entry, Attack
<1> HIDE DEF r
<1>6. Table([E EXCEPT ![e] = r])  BY <1>1, <1>5, ChangedTable
<1>7. QED  BY <1>3, <1>6

LEMMA CoolDownTable ==
  ASSUME NEW E, Table(E), num \in NumUnits .. MaxEdicts, NEW e \in Unit,
         E[e].goal \in Unit
  PROVE  Table(CoolDown(E, e))
<1>1. e \in Edict /\ e <= num /\ num \in Nat  BY UnitInUse
<1>2. E \in [Edict -> Entry]  BY DEF Table
<1> DEFINE w == IF Cooldown > DamagePoint THEN Cooldown - DamagePoint ELSE 0
           r == [E[e] EXCEPT !.move = "cooldown", !.wait = w]
<1>w. w \in Nat
  BY UnitsAssumption
<1>3. CoolDown(E, e) = [E EXCEPT ![e] = r]
  BY <1>1, <1>2 DEF CoolDown
<1> HIDE DEF w
<1>4. r \in Entry
  BY <1>1, <1>2, <1>w, EntryOf DEF Entry, Move, Attack
<1>5. Fits(e, r)
  BY <1>1, <1>4, EntryOf DEF Fits, Entry, Attack
<1> HIDE DEF r
<1>6. Table([E EXCEPT ![e] = r])  BY <1>1, <1>5, ChangedTable
<1>7. QED  BY <1>3, <1>6

LEMMA BeginDecayTable ==
  ASSUME NEW E, Table(E), num \in NumUnits .. MaxEdicts, NEW e \in Unit
  PROVE  Table(BeginDecay(E, e))
<1>1. e \in Edict /\ e <= num /\ num \in Nat  BY UnitInUse
<1>2. E \in [Edict -> Entry]  BY DEF Table
<1> DEFINE r == [E[e] EXCEPT !.move = "decay", !.hold = TRUE, !.wait = DecayTime]
<1>3. BeginDecay(E, e) = [E EXCEPT ![e] = r]
  BY <1>1, <1>2 DEF BeginDecay
<1>4. r \in Entry
  BY <1>1, <1>2, UnitsAssumption DEF Entry, Move, Down
<1>5. Fits(e, r)
  BY <1>1, <1>4, EntryOf DEF Fits, Entry, Attack, Down
<1> HIDE DEF r
<1>6. Table([E EXCEPT ![e] = r])  BY <1>1, <1>5, ChangedTable
<1>7. QED  BY <1>3, <1>6

LEMMA ReviveTable ==
  ASSUME NEW E, Table(E), num \in NumUnits .. MaxEdicts, NEW e \in Unit
  PROVE  Table([E EXCEPT ![e].dead = FALSE, ![e].hold = FALSE,
                   ![e].health = MaxHealth, ![e].move = "stand"])
<1>1. e \in Edict /\ e <= num /\ num \in Nat  BY UnitInUse
<1>2. E \in [Edict -> Entry]  BY DEF Table
<1> DEFINE r == [E[e] EXCEPT !.dead = FALSE, !.hold = FALSE,
                           !.health = MaxHealth, !.move = "stand"]
<1>3. [E EXCEPT ![e].dead = FALSE, ![e].hold = FALSE,
                   ![e].health = MaxHealth, ![e].move = "stand"] = [E EXCEPT ![e] = r]
  BY <1>1, <1>2
<1>e. E[e] \in Entry  BY <1>1, <1>2
<1>m. MaxHealth \in 0 .. MaxHealth  BY UnitsAssumption
<1>4. r \in Entry
  BY <1>e, <1>m DEF Entry, Move
<1>5. Fits(e, r)
  BY <1>1, <1>4, EntryOf DEF Fits, Entry, Attack
<1> HIDE DEF r
<1>6. Table([E EXCEPT ![e] = r])  BY <1>1, <1>5, ChangedTable
<1>7. QED  BY <1>3, <1>6

LEMMA ResetTable ==
  ASSUME NEW E, Table(E), num \in NumUnits .. MaxEdicts, NEW e \in Unit
  PROVE  Table(Reset(E, e))
  BY WaitTable DEF Reset

LEMMA WaitsTable ==
  ASSUME NEW E, Table(E), num \in NumUnits .. MaxEdicts, NEW e \in Unit
  PROVE  Table(Waits(E, e))
<1>1. CASE E[e].wait > 1
  <2>1. e \in Edict  BY UnitInUse
  <2>2. E[e].wait \in Nat  BY <2>1, EntryOf DEF Entry
  <2>3. E[e].wait - 1 \in Nat  BY <2>2, <1>1
  <2>4. Table([E EXCEPT ![e].wait = E[e].wait - 1])  BY <2>3, WaitTable
  <2>5. Waits(E, e) = [E EXCEPT ![e].wait = E[e].wait - 1]
    BY <1>1 DEF Waits
  <2>6. QED  BY <2>4, <2>5
<1>2. CASE ~(E[e].wait > 1)
  BY <1>2 DEF Waits
<1>3. QED  BY <1>1, <1>2

(* The blow on a living target, in terms of the table in which it is hurt. *)
LEMMA DamageHurts ==
  ASSUME NEW E, NEW t, NEW a, NEW d, NEW hurt,
         t \notin Invulnerable, ~(E[t].health <= d),
         hurt = [E EXCEPT ![t].health = @ - d]
  PROVE  T_Damage(E, t, a, d) =
           IF CanAttack(hurt, t) THEN OrderAttack(hurt, t, a) ELSE hurt
  BY SMT DEF T_Damage, CanAttack, OrderAttack

(* A blow on an edict of the map, whatever that has become. *)
LEMMA DamageTable ==
  ASSUME NEW E, Table(E), num \in NumUnits .. MaxEdicts,
         NEW t \in Unit, NEW a \in Unit, NEW d \in Damages
  PROVE  Table(T_Damage(E, t, a, d))
<1>0. t \in Edict  BY UnitInUse
<1>1. E[t].health \in 0 .. MaxHealth  BY <1>0, EntryOf DEF Entry
<1>2. CASE t \in Invulnerable
  BY <1>2 DEF T_Damage
<1>3. CASE t \notin Invulnerable /\ E[t].health <= d
  <2> DEFINE F == [E EXCEPT ![t].health = 0]
  <2>1. 0 \in 0 .. MaxHealth  BY UnitsAssumption
  <2>2. Table(F)  BY <2>1, HealthTable
  <2>3. T_Damage(E, t, a, d) = Stand(Die(F, t), a)
    BY <1>3 DEF T_Damage
  <2> HIDE DEF F
  <2>4. Table(Die(F, t))  BY <2>2, DieTable
  <2>5. Table(Stand(Die(F, t), a))  BY <2>4, StandTable
  <2>6. QED  BY <2>3, <2>5
<1>4. CASE t \notin Invulnerable /\ ~(E[t].health <= d)
  <2> DEFINE h == E[t].health - d
             F == [E EXCEPT ![t].health = h]
  <2>1. d \in Nat  BY UnitsAssumption
  <2>2. h \in 0 .. MaxHealth  BY <1>1, <1>4, <2>1, UnitsAssumption
  <2>3. T_Damage(E, t, a, d) = IF CanAttack(F, t) THEN OrderAttack(F, t, a) ELSE F
    <3>1. E \in [Edict -> Entry]  BY DEF Table
    <3>2. F = [E EXCEPT ![t].health = @ - d]
      BY <1>0, <3>1
    <3> HIDE DEF F
    <3>3. QED  BY <1>4, <3>2, DamageHurts
  <2> HIDE DEF h
  <2>4. Table(F)  BY <2>2, HealthTable
  <2> HIDE DEF F
  <2>5. Table(OrderAttack(F, t, a))  BY <2>4, OrderAttackTable
  <2>6. QED  BY <2>3, <2>4, <2>5
<1>5. QED  BY <1>2, <1>3, <1>4

-----------------------------------------------------------------------------
(* The turn of a unit.  Its table E, after the end of an animation and the *)
(* hit points that came back, holds the same kinds of edicts as before.    *)
Turn(E, e) ==
  /\ Table(E) /\ E[e].kind = "unit"
  /\ \A f \in Edict : E[f].kind = edicts[f].kind

(* How a turn may end but for a missile that is thrown. *)
Tabled == \E E : Table(E) /\ Ran(E) /\ Calm
Fallen == Crash /\ \E u \in Unit : edicts[u].kind = "free"

LEMMA MoveFrameTurn ==
  ASSUME Table(edicts), num \in NumUnits .. MaxEdicts, NEW e \in Unit,
         edicts[e].kind = "unit", NEW ends
  PROVE  Turn(MoveFrame(e, ends), e)
<1> DEFINE E == edicts
<1>0. e \in Edict /\ E \in [Edict -> Entry]  BY UnitInUse DEF Table
<1>1. CASE MoveFrame(e, ends) = edicts
  BY <1>1 DEF Turn
<1>2. CASE E[e].move = "attack" /\ MoveFrame(e, ends) = CoolDown(E, e)
  <2>1. E[e].goal \in Unit  BY <1>0, <1>2, EntryOf DEF Fits, Attack
  <2>2. Table(CoolDown(E, e))  BY <2>1, CoolDownTable
  <2>3. \A f \in Edict : CoolDown(E, e)[f].kind = E[f].kind
    BY <1>0 DEF CoolDown, Entry
  <2>4. QED  BY <1>0, <1>2, <2>2, <2>3 DEF Turn
<1>3. CASE MoveFrame(e, ends) = BeginDecay(E, e)
  <2>1. Table(BeginDecay(E, e))  BY BeginDecayTable
  <2>2. \A f \in Edict : BeginDecay(E, e)[f].kind = E[f].kind
    BY <1>0 DEF BeginDecay, Entry
  <2>3. QED  BY <1>0, <1>3, <2>1, <2>2 DEF Turn
<1>4. QED  BY <1>1, <1>2, <1>3 DEF MoveFrame

LEMMA RegeneratedTurn ==
  ASSUME num \in NumUnits .. MaxEdicts, NEW e \in Unit, NEW F, Turn(F, e),
         NEW E \in Regenerated(F, e)
  PROVE  Turn(E, e)
<1>0. e \in Edict /\ F \in [Edict -> Entry]  BY UnitInUse DEF Turn, Table
<1>1. CASE E = F
  BY <1>1
<1>2. CASE E = [F EXCEPT ![e].health = @ + 1] /\ F[e].health < MaxHealth
  <2> DEFINE h == F[e].health + 1
  <2>1. F[e].health \in 0 .. MaxHealth  BY <1>0 DEF Entry
  <2>2. h \in 0 .. MaxHealth  BY <1>2, <2>1, UnitsAssumption
  <2>3. E = [F EXCEPT ![e].health = h]  BY <1>0, <1>2
  <2> HIDE DEF h
  <2>4. Table(F)  BY DEF Turn
  <2>5. Table([F EXCEPT ![e].health = h])  BY <2>2, <2>4, HealthTable
  <2>6. \A f \in Edict : E[f].kind = F[f].kind
    BY <1>0, <2>3 DEF Entry
  <2>7. QED  BY <1>0, <2>3, <2>5, <2>6 DEF Turn
<1>3. QED  BY <1>1, <1>2 DEF Regenerated

(* A target that is struck is one of the units, so that a blow that calls  *)
(* a NULL pointer finds it, or who strikes it, removed.                    *)
LEMMA FatalIsRemoval ==
  ASSUME NEW E, Table(E), \A f \in Edict : E[f].kind = edicts[f].kind,
         NEW t \in Unit, NEW a \in Unit, NEW d, Fatal(E, t, a, d)
  PROVE  \E u \in Unit : edicts[u].kind = "free"
<1>1. PICK u \in {t, a} : E[u].kind # "unit"  BY DEF Fatal
<1>2. u \in Unit /\ u \in Edict  BY <1>1, Numbers
<1>3. E[u].kind = "free"  BY <1>1, <1>2, UnitOrFree
<1>4. QED  BY <1>2, <1>3

LEMMA WaitsTurn ==
  ASSUME num \in NumUnits .. MaxEdicts, NEW e \in Unit, NEW E, Turn(E, e)
  PROVE  /\ e \in Edict /\ Table(E)
         /\ E[e].move \in Attack => E[e].goal \in Unit
         /\ Table(Waits(E, e)) /\ Table(Reset(E, e)) /\ Table(Stand(E, e))
<1>1. e \in Edict /\ Table(E) /\ E[e].kind = "unit"
  BY UnitInUse DEF Turn
<1>2. E[e].move \in Attack => E[e].goal \in Unit
  BY <1>1, EntryOf DEF Fits
<1>3. QED  BY <1>1, <1>2, WaitsTable, ResetTable, StandTable

LEMMA ThinkTurn ==
  ASSUME num \in NumUnits .. MaxEdicts, NEW e \in Unit, NEW E, Turn(E, e),
         Think(E, e), ~Throw(E, e)
  PROVE  Tabled \/ Fallen
<1> USE DEF Tabled
<1>0. /\ e \in Edict /\ Table(E)
      /\ E[e].move \in Attack => E[e].goal \in Unit
      /\ Table(Waits(E, e)) /\ Table(Reset(E, e)) /\ Table(Stand(E, e))
  BY WaitsTurn
<1>1. CASE ThinkStand(E, e)
  <2>1. \A t \in Unit : Table(OrderAttack(E, e, t))
    BY <1>0, OrderAttackTable
  <2>2. QED  BY <1>0, <1>1, <2>1 DEF ThinkStand
<1>2. CASE ThinkMove(E, e)
  BY <1>0, <1>2 DEF ThinkMove
<1>3. CASE ThinkWalk(E, e)
  <2>1. E[e].goal \in Unit  BY <1>0, <1>3 DEF ThinkWalk, Attack
  <2>2. Table(AttackFrom(E, e))  BY <1>0, <2>1, AttackFromTable
  <2>3. QED  BY <1>0, <1>3, <2>2 DEF ThinkWalk
<1>4. CASE ThinkAttack(E, e)
  BY <1>0, <1>4 DEF ThinkAttack
<1>5. CASE ThinkCooldown(E, e)
  <2>1. E[e].goal \in Unit  BY <1>0, <1>5 DEF ThinkCooldown, Attack
  <2>2. Table([E EXCEPT ![e].move = "walk"])  BY <1>0, <2>1, WalkTable
  <2>3. Reset(E, e)[e].goal \in Unit
    BY <1>0, <2>1 DEF Reset, Table, Entry
  <2>4. Table(AttackFrom(Reset(E, e), e))  BY <1>0, <2>3, AttackFromTable
  <2>5. CASE Ran([E EXCEPT ![e].move = "walk"])
    BY <1>5, <2>2, <2>5 DEF ThinkCooldown
  <2>6. CASE Ran(IF Elapsed(E, e) THEN AttackFrom(Reset(E, e), e) ELSE Waits(E, e))
    BY <1>0, <1>5, <2>4, <2>6 DEF ThinkCooldown
  <2>7. QED  BY <1>5, <2>5, <2>6 DEF ThinkCooldown
<1>6. CASE ThinkDeath(E, e)
  BY <1>0, <1>6 DEF ThinkDeath
<1>7. CASE ThinkDecay(E, e)
  <2>1. Table(FreeEdict(E, e))  BY <1>0, FreeEdictTable
  <2>2. QED  BY <1>0, <1>7, <2>1 DEF ThinkDecay
<1>8. CASE Strike(E, e)
  <2>1. PICK d \in Damages :
          IF Fatal(E, E[e].goal, e, d) THEN Crash
          ELSE Ran(T_Damage(Reset(E, e), E[e].goal, e, d)) /\ Calm
    BY <1>8 DEF Strike
  <2>2. E[e].goal \in Unit  BY <1>0, <1>8 DEF Strike, Attack
  <2>3. CASE Fatal(E, E[e].goal, e, d)
    <3>1. \E u \in Unit : edicts[u].kind = "free"
      BY <2>2, <2>3, FatalIsRemoval DEF Turn
    <3>2. QED  BY <2>1, <2>3, <3>1 DEF Fallen
  <2>4. CASE ~Fatal(E, E[e].goal, e, d)
    <3>1. Table(T_Damage(Reset(E, e), E[e].goal, e, d))
      BY <1>0, <2>2, DamageTable
    <3>2. QED  BY <2>1, <2>4, <3>1
  <2>5. QED  BY <2>3, <2>4
<1>9. QED
  BY <1>1, <1>2, <1>3, <1>4, <1>5, <1>6, <1>7, <1>8 DEF Think

(* A missile is thrown into the edict that comes next, which is free and   *)
(* belongs to no unit; or the table is used up.                            *)
LEMMA ThrowTurn ==
  ASSUME Counters, NEW e \in Unit, NEW E, Turn(E, e), Throw(E, e)
  PROVE  \/ Crash /\ num = MaxEdicts
         \/ /\ \E F : Ran(F)
            /\ num' = num + 1 /\ num < MaxEdicts /\ crashed' = crashed
            /\ Table(edicts)'
<1>0. num \in NumUnits .. MaxEdicts /\ num \in Nat
  BY Numbers DEF Counters
<1>1. CASE Spawn = Null
  <2>1. ~(num < MaxEdicts)  BY <1>0, <1>1 DEF Spawn, Null
  <2>2. num = MaxEdicts  BY <1>0, <2>1, Numbers
  <2>3. QED  BY <1>1, <2>2 DEF Throw
<1>2. CASE Spawn # Null
  <2>1. num < MaxEdicts /\ Spawn = num + 1
    BY <1>2 DEF Spawn
  <2> DEFINE s == num + 1
             R == Reset(E, e)
             r == Missile(E[e].goal, e)
  <2>2. s \in Edict /\ s \notin Unit /\ s > num
    BY <1>0, <2>1, Numbers DEF Edict, Unit
  <2>3. /\ e \in Edict /\ E[e].goal \in Unit /\ Table(R)
    <3>1. E[e].move \in Attack  BY DEF Throw, Attack
    <3>2. QED  BY <1>0, <3>1, WaitsTurn
  <2>4. /\ Ran([Reset(E, e) EXCEPT ![Spawn] = Missile(E[e].goal, e)])
        /\ num' = (IF Spawn > num THEN Spawn ELSE num) /\ UNCHANGED crashed
    BY <1>2 DEF Throw
  <2>5. num' = s  BY <2>1, <2>2, <2>4
  <2>6. edicts' = [R EXCEPT ![s] = r]  BY <2>1, <2>4 DEF Ran
  <2>7. Fits(s, r)
    <3>1. r \in Entry
      <4>1. Free \in Entry  BY FreeFits DEF Fits
      <4>2. r = [Free EXCEPT !.kind = "missile", !.goal = E[e].goal, !.owner = e]
        BY DEF Missile
      <4>3. QED  BY <2>3, <4>1, <4>2 DEF Entry
    <3>2. r.kind = "missile" /\ r.goal = E[e].goal /\ r.owner = e
      BY DEF Missile, Free
    <3>3. QED  BY <2>2, <2>3, <3>1, <3>2 DEF Fits
  <2> HIDE DEF s, R, r
  <2>8. R \in [Edict -> Entry]  BY <2>3 DEF Table
  <2>9. edicts' \in [Edict -> Entry]
    BY <2>2, <2>6, <2>7, <2>8 DEF Fits
  <2>10. edicts'[s] = r /\ \A f \in Edict : f # s => edicts'[f] = R[f]
    BY <2>2, <2>6, <2>8
  <2>11. \A f \in Edict : Fits(f, edicts'[f])
    BY <2>3, <2>7, <2>10 DEF Table
  <2>12. \A f \in Edict : f > s => edicts'[f] = Free
    <3>1. SUFFICES ASSUME NEW f \in Edict, f > s PROVE edicts'[f] = Free
      OBVIOUS
    <3>2. s = num + 1  BY DEF s
    <3>3. f \in Nat  BY Numbers
    <3>4. f # s /\ f > num  BY <1>0, <3>1, <3>2, <3>3
    <3>5. QED  BY <2>3, <2>10, <3>4 DEF Table
  <2>13. Table(edicts)'  BY <2>5, <2>9, <2>11, <2>12 DEF Table
  <2>14. num' = num + 1  BY <2>5 DEF s
  <2>15. QED  BY <2>1, <2>4, <2>13, <2>14
<1>3. QED  BY <1>1, <1>2

(* The turn of a missile. *)
LEMMA MissileTurn ==
  ASSUME Table(edicts), num \in NumUnits .. MaxEdicts, NEW m \in Edict,
         RunMissile(m)
  PROVE  Tabled \/ Fallen
<1>0. edicts[m].goal \in Unit /\ edicts[m].owner \in Unit
  BY EntryOf DEF RunMissile, Fits
<1>1. CASE Ran(edicts) /\ Calm
  BY <1>1 DEF Tabled
<1>2. CASE \E d \in Damages : Hit(m, d)
  <2>1. PICK d \in Damages : Hit(m, d)  BY <1>2
  <2> DEFINE t == edicts[m].goal
             a == edicts[m].owner
  <2>2. CASE Fatal(edicts, t, a, d)
    <3>1. \E u \in Unit : edicts[u].kind = "free"
      BY <1>0, <2>2, FatalIsRemoval
    <3>2. QED  BY <2>1, <2>2, <3>1 DEF Hit, Fallen
  <2>3. CASE ~Fatal(edicts, t, a, d)
    <3>1. Table(T_Damage(edicts, t, a, d))  BY <1>0, DamageTable
    <3>2. Table(FreeEdict(T_Damage(edicts, t, a, d), m))
      BY <3>1, FreeEdictTable
    <3>3. QED  BY <2>1, <2>3, <3>2 DEF Hit, Tabled
  <2>4. QED  BY <2>2, <2>3
<1>3. QED  BY <1>1, <1>2 DEF RunMissile

-----------------------------------------------------------------------------
(* The invariant of the fight. *)
LEMMA InitIInv == Init => IInv
<1> SUFFICES ASSUME Init PROVE IInv
  OBVIOUS
<1> DEFINE u == [Free EXCEPT !.kind = "unit", !.health = MaxHealth,
                             !.move = "stand"]
<1>1. u \in Entry
  <2>1. Free \in Entry  BY FreeFits DEF Fits
  <2>2. MaxHealth \in 0 .. MaxHealth /\ "stand" \in Move
    BY UnitsAssumption DEF Move
  <2>3. QED  BY <2>1, <2>2 DEF Entry
<1>2. \A e \in Unit : Fits(e, u)  BY <1>1 DEF Fits, Free, Attack
<1>3. \A e \in Edict : edicts[e] = IF e \in Unit THEN u ELSE Free
  BY DEF Init
<1> HIDE DEF u
<1>4. \A e \in Edict : Fits(e, edicts[e])
  BY <1>2, <1>3, FreeFits
<1>5. edicts \in [Edict -> Entry]
  <2>1. edicts = [e \in Edict |-> edicts[e]]  BY DEF Init
  <2>2. QED  BY <1>4, <2>1 DEF Fits
<1>6. \A e \in Edict : e > num => edicts[e] = Free
  BY <1>3, Numbers DEF Init, Unit
<1>7. Table(edicts)  BY <1>4, <1>5, <1>6 DEF Table
<1>8. Counters
  <2>1. /\ NumUnits \in NumUnits .. MaxEdicts
        /\ 0 \in 0 .. NumUnits /\ 0 \in 0 .. 0 /\ 0 \in 0 .. MaxOrders
    <3>1. NumUnits \in Nat /\ MaxEdicts \in Nat /\ MaxOrders \in Nat
          /\ NumUnits <= MaxEdicts
      BY UnitsAssumption
    <3>2. QED  BY <3>1
  <2>2. num = NumUnits /\ turn = 0 /\ end = 0 /\ orders = 0 /\ crashed = FALSE
    BY DEF Init
  <2>3. QED  BY <2>1, <2>2 DEF Counters
<1>9. CrashNeedsRemoval  BY DEF Init, CrashNeedsRemoval
<1>10. QED  BY <1>7, <1>8, <1>9 DEF IInv

(* The turn passes to the next edict, or the frame is over. *)
LEMMA RanCounters ==
  ASSUME Counters, NEW E, Ran(E), turn # 0
  PROVE  turn' \in 0 .. end' /\ end' = end /\ orders' = orders /\ edicts' = E
<1>1. end \in Nat /\ turn \in 0 .. end
  <2>1. num \in Nat  BY Numbers DEF Counters
  <2>2. QED  BY <2>1 DEF Counters
<1>2. (IF turn = end THEN 0 ELSE turn + 1) \in 0 .. end
  BY <1>1
<1>3. QED  BY <1>2 DEF Ran

LEMMA RunIInv ==
  ASSUME IInv, RunEntity
  PROVE  IInv'
<1>0. Table(edicts) /\ Counters /\ num \in NumUnits .. MaxEdicts
  BY DEF IInv, Counters
<1>1. PICK e \in Edict : \/ RunUnit(e, TRUE) \/ RunUnit(e, FALSE)
                         \/ RunMissile(e) \/ RunFree(e)
  BY DEF RunEntity
<1>2. turn # 0 /\ ~crashed
  <2>1. turn = e /\ ~crashed  BY <1>1 DEF RunUnit, RunMissile, RunFree
  <2>2. QED  BY <2>1, Numbers DEF Null
<1>3. ASSUME Tabled PROVE IInv'
  <2>1. PICK E : Table(E) /\ Ran(E) /\ Calm  BY <1>3 DEF Tabled
  <2>2. /\ turn' \in 0 .. end' /\ end' = end /\ orders' = orders
        /\ edicts' = E /\ num' = num /\ crashed' = crashed
    BY <1>0, <1>2, <2>1, RanCounters DEF Calm
  <2>3. Table(edicts)'  BY <2>1, <2>2 DEF Table
  <2>4. Counters'  BY <1>0, <2>2 DEF Counters
  <2>5. CrashNeedsRemoval'  BY <1>2, <2>2 DEF CrashNeedsRemoval
  <2>6. QED  BY <2>3, <2>4, <2>5 DEF IInv
<1>4. ASSUME Crash, num = MaxEdicts \/ \E u \in Unit : edicts[u].kind = "free"
      PROVE  IInv'
  <2>1. Table(edicts)'  BY <1>0, <1>4 DEF Crash, Table
  <2>2. Counters'  BY <1>0, <1>4 DEF Crash, Counters
  <2>3. CrashNeedsRemoval'  BY <1>4 DEF Crash, CrashNeedsRemoval
  <2>4. QED  BY <2>1, <2>2, <2>3 DEF IInv
<1>5. ASSUME NEW ends, RunUnit(e, ends) PROVE IInv'
  <2>1. e \in Unit  BY <1>0, <1>5, UnitOfTable DEF RunUnit
  <2>2. PICK E \in Regenerated(MoveFrame(e, ends), e) : Think(E, e)
    BY <1>5 DEF RunUnit
  <2>3. Turn(MoveFrame(e, ends), e)
    BY <1>0, <1>5, <2>1, MoveFrameTurn DEF RunUnit
  <2>4. Turn(E, e)  BY <1>0, <2>1, <2>2, <2>3, RegeneratedTurn
  <2>5. CASE ~Throw(E, e)
    <3>1. Tabled \/ Fallen  BY <1>0, <2>1, <2>2, <2>4, <2>5, ThinkTurn
    <3>2. QED  BY <3>1, <1>3, <1>4 DEF Fallen
  <2>6. CASE Throw(E, e)
    <3>1. CASE Crash /\ num = MaxEdicts
      BY <3>1, <1>4
    <3>2. CASE /\ \E F : Ran(F)
               /\ num' = num + 1 /\ num < MaxEdicts /\ crashed' = crashed
               /\ Table(edicts)'
      <4>1. turn' \in 0 .. end' /\ end' = end /\ orders' = orders
        BY <1>0, <1>2, <3>2, RanCounters
      <4>2. num' \in NumUnits .. MaxEdicts /\ end' \in 0 .. num'
        <5>1. /\ num \in NumUnits .. MaxEdicts /\ num \in Nat
              /\ end \in 0 .. num
          BY <1>0, Numbers DEF Counters
        <5>2. num + 1 \in NumUnits .. MaxEdicts /\ end \in 0 .. num + 1
          BY <3>2, <5>1, Numbers
        <5>3. QED  BY <3>2, <4>1, <5>2
      <4>3. Counters'  BY <1>0, <3>2, <4>1, <4>2 DEF Counters
      <4>4. CrashNeedsRemoval'  BY <1>2, <3>2 DEF CrashNeedsRemoval
      <4>5. QED  BY <3>2, <4>3, <4>4 DEF IInv
    <3>3. QED  BY <1>0, <2>1, <2>4, <2>6, <3>1, <3>2, ThrowTurn
  <2>7. QED  BY <2>5, <2>6
<1>6. CASE RunMissile(e)
  <2>1. Tabled \/ Fallen  BY <1>0, <1>6, MissileTurn
  <2>2. QED  BY <2>1, <1>3, <1>4 DEF Fallen
<1>7. CASE RunFree(e)
  <2>1. Tabled  BY <1>0, <1>7 DEF RunFree, Tabled
  <2>2. QED  BY <2>1, <1>3
<1>8. QED  BY <1>1, <1>5, <1>6, <1>7

(* What players and scripts do between two frames. *)
LEMMA OrderIInv ==
  ASSUME IInv, Order
  PROVE  IInv'
<1>0. Table(edicts) /\ Counters /\ num \in NumUnits .. MaxEdicts
  BY DEF IInv, Counters
<1>1. ASSUME NEW E, Table(E), Ordered(E) PROVE IInv'
  <2>1. /\ edicts' = E /\ num' = num /\ turn' = turn /\ end' = end
        /\ crashed' = crashed /\ ~crashed /\ orders' = orders + 1
        /\ orders < MaxOrders
    BY <1>1 DEF Ordered, Between
  <2>2. orders' \in 0 .. MaxOrders
    <3>1. orders \in 0 .. MaxOrders  BY <1>0 DEF Counters
    <3>2. orders + 1 \in 0 .. MaxOrders  BY <2>1, <3>1, UnitsAssumption
    <3>3. QED  BY <2>1, <3>2
  <2>3. Table(edicts)'  BY <1>1, <2>1 DEF Table
  <2>4. Counters'  BY <1>0, <2>1, <2>2 DEF Counters
  <2>5. CrashNeedsRemoval'  BY <2>1 DEF CrashNeedsRemoval
  <2>6. QED  BY <2>3, <2>4, <2>5 DEF IInv
<1>2. PICK u \in Unit : \/ MoveOrder(u) \/ StopOrder(u) \/ KillUnit(u)
                        \/ RemoveUnit(u) \/ ReviveHero(u)
                        \/ \E t \in Unit : SmartOrder(u, t)
  BY DEF Order
<1>3. CASE MoveOrder(u)
  <2>1. Table(OrderMove(edicts, u))  BY <1>0, OrderMoveTable
  <2>2. QED  BY <1>1, <1>3, <2>1 DEF MoveOrder
<1>4. CASE StopOrder(u)
  <2>1. Table(Stand(edicts, u))  BY <1>0, StandTable
  <2>2. QED  BY <1>1, <1>4, <2>1 DEF StopOrder
<1>5. CASE KillUnit(u)
  <2>1. 0 \in 0 .. MaxHealth  BY UnitsAssumption
  <2>2. Table([edicts EXCEPT ![u].health = 0])  BY <1>0, <2>1, HealthTable
  <2>3. QED  BY <1>1, <1>5, <2>2 DEF KillUnit
<1>6. CASE RemoveUnit(u)
  <2>1. Table(FreeEdict(edicts, u))  BY <1>0, Numbers, FreeEdictTable
  <2>2. QED  BY <1>1, <1>6, <2>1 DEF RemoveUnit
<1>7. CASE ReviveHero(u)
  <2> DEFINE E == [edicts EXCEPT ![u].dead = FALSE, ![u].hold = FALSE,
                          ![u].health = MaxHealth, ![u].move = "stand"]
  <2>1. Table(E)  BY <1>0, ReviveTable
  <2>2. Ordered(E)  BY <1>7 DEF ReviveHero
  <2>3. QED  BY <1>1, <2>1, <2>2
<1>8. CASE \E t \in Unit : SmartOrder(u, t)
  <2>1. PICK t \in Unit : SmartOrder(u, t)  BY <1>8
  <2>2. Table(OrderAttack(edicts, u, t))  BY <1>0, OrderAttackTable
  <2>3. QED  BY <1>1, <2>1, <2>2 DEF SmartOrder
<1>9. QED  BY <1>2, <1>3, <1>4, <1>5, <1>6, <1>7, <1>8

LEMMA StartFrameIInv ==
  ASSUME IInv, StartFrame
  PROVE  IInv'
<1>1. num \in NumUnits .. MaxEdicts  BY DEF IInv, Counters
<1>2. num \in 0 .. num /\ 1 \in 0 .. num
  BY <1>1, Numbers
<1>3. turn' = 1 /\ end' = num /\ UNCHANGED <<edicts, num, orders, crashed>>
  BY DEF StartFrame
<1>4. Table(edicts)'  BY <1>3 DEF IInv, Table
<1>5. Counters'  BY <1>2, <1>3 DEF IInv, Counters
<1>6. CrashNeedsRemoval'  BY <1>3 DEF IInv, CrashNeedsRemoval
<1>7. QED  BY <1>4, <1>5, <1>6 DEF IInv

THEOREM IInvHolds == Spec => []IInv
<1>1. IInv /\ [Next]_vars => IInv'
  <2> SUFFICES ASSUME IInv, [Next]_vars PROVE IInv'
    OBVIOUS
  <2>1. CASE UNCHANGED vars
    BY <2>1 DEF vars, IInv, Table, Counters, CrashNeedsRemoval
  <2>2. CASE Next
    BY <2>2, StartFrameIInv, RunIInv, OrderIInv DEF Next
  <2>3. QED  BY <2>1, <2>2
<1>2. QED  BY <1>1, InitIInv, PTL DEF Spec

(* Units and missiles keep to their edicts, and whoever is pointed at was  *)
(* a unit: in no fight does a missile or an attack turn on an edict that   *)
(* has become something else (s_attack.c, g_phys.c).                       *)
THEOREM TypeCorrect == Spec => []TypeOK
<1>1. IInv => TypeOK
  <2> SUFFICES ASSUME IInv PROVE TypeOK
    OBVIOUS
  <2>1. Table(edicts)  BY DEF IInv
  <2>2. edicts \in [Edict -> Entry]  BY <2>1 DEF Table
  <2>3. \A e \in Edict :
          /\ edicts[e].kind = "unit" => e \in Unit /\ edicts[e].move # "none"
          /\ edicts[e].kind = "unit" /\ edicts[e].move \in Attack => edicts[e].goal \in Unit
          /\ edicts[e].kind = "missile" =>
               e \notin Unit /\ edicts[e].goal \in Unit /\ edicts[e].owner \in Unit
          /\ e > num => edicts[e] = Free
    BY <2>1, EntryOf DEF Table, Fits
  <2>4. Counters  BY DEF IInv
  <2>5. QED  BY <2>2, <2>3, <2>4 DEF TypeOK, Entry, Counters
<1>2. QED  BY <1>1, IInvHolds, PTL

(* Fighting alone never calls a NULL pointer: it takes a unit that a       *)
(* script or decay has removed, or a table of edicts used up by missiles   *)
(* (g_spawn.c, T_Damage), however many units fight and with what weapons.  *)
THEOREM NoCrashWithoutRemoval == Spec => []CrashNeedsRemoval
<1>1. IInv => CrashNeedsRemoval  BY DEF IInv
<1>2. QED  BY <1>1, IInvHolds, PTL
==============================================================================
