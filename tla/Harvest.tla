------------------------------- MODULE Harvest -------------------------------
(***************************************************************************)
(* Workers who fetch gold and lumber in the Warcraft III game              *)
(* (skills/s_goldmine.c, skills/s_harvest_lumber.c).  A worker walks to    *)
(* the mine, is inside for a while, brings its load to the town hall and   *)
(* goes back; when the mine is full it waits at the entrance, until one    *)
(* who leaves calls those who wait.  The mine only has a counter of those  *)
(* inside.  A tree is struck until it has no life; the worker then takes   *)
(* its load home, or looks for another tree.                               *)
(*                                                                         *)
(* An order, a blow that is answered, or death puts a worker into another  *)
(* move wherever it is, inside the mine too, and nothing tells the mine.   *)
(*                                                                         *)
(* A walk and a timer take any number of frames, and end; there is one     *)
(* mine, which is never removed, and one player.  A load is 32 bits wide   *)
(* and cannot grow that far; what a player has, 16 bits, wraps.            *)
(***************************************************************************)
EXTENDS Integers, FiniteSets

CONSTANTS
  NumWorkers,
  Tree,
  Mine,           \* the mine, as a goal
  MiningCapacity, \* MINING_CAPACITY: how many fit in the mine
  GoldLoad,       \* HARVEST_GOLD_CAPACITY
  LumberLoad,     \* HARVEST_LUMBER_CAPACITY
  TreeDamage,     \* HARVEST_TREE_DAMAGE
  TreeHealth,
  USHORT,         \* the size of stats[], 2^16
  MaxOrders       \* bound: what happens to workers and the hall from outside

ASSUME HarvestAssumption ==
  /\ NumWorkers \in Nat \ {0} /\ MiningCapacity \in Nat \ {0}
  /\ Mine \notin Tree /\ IsFiniteSet(Tree)
  /\ GoldLoad \in Nat \ {0} /\ LumberLoad \in Nat \ {0}
  /\ TreeDamage \in Nat \ {0} /\ TreeHealth \in Nat \ {0}
  /\ USHORT \in Nat /\ MaxOrders \in Nat
  /\ GoldLoad * (MaxOrders + 1) < USHORT   \* no delivery is worth nothing

VARIABLES
  worker,       \* the edict of each: currentmove, secondarygoal, what it carries
  peonsinside,  \* of the mine
  trees,        \* health of each tree
  hall,         \* the player has a town hall
  stats,        \* PLAYERSTATE_RESOURCE_GOLD and _LUMBER
  taken,        \* history: gold mined and lumber cut so far, as stats counts
  stranded,     \* history: counted by the mine and no longer inside
  orders

vars == <<worker, peonsinside, trees, hall, stats, taken, stranded, orders>>

Worker == 1 .. NumWorkers
Gold == {"walkmine", "wait", "minegold", "goldback"}    \* moves of a_goldmine
Lumber == {"walktree", "swing", "swung", "cooldown", "lumberback"}
                 \* moves of a_harvest; "swung" is "swing" past its damage point
Move == {"stand", "other"} \cup Gold \cup Lumber
In(move) == {w \in Worker : worker[w].move = move}

Add(a, b) == (a + b) % USHORT
Dead(t) == trees[t] = 0

Init ==
  /\ worker = [w \in Worker |-> [move |-> "stand", second |-> Mine, gold |-> 0, lumber |-> 0]]
  /\ peonsinside = 0 /\ hall = TRUE
  /\ trees = [t \in Tree |-> TreeHealth]
  /\ stats = [gold |-> 0, lumber |-> 0] /\ taken = stats
  /\ stranded = 0 /\ orders = 0

Sets(w, move) == worker' = [worker EXCEPT ![w].move = move]
HarvestStart(w, target) ==
  worker' = [worker EXCEPT ![w].second = target,
               ![w].move = IF target = Mine THEN "walkmine" ELSE "walktree"]

-----------------------------------------------------------------------------
(* Gold. *)
WalkMine(w) ==
  /\ worker[w].move = "walkmine"
  /\ IF peonsinside < MiningCapacity
     THEN Sets(w, "minegold") /\ peonsinside' = peonsinside + 1
     ELSE Sets(w, "wait") /\ UNCHANGED peonsinside
  /\ UNCHANGED <<trees, hall, stats, taken, stranded, orders>>

(* Those who wait are called in the order of their edicts, and go in while *)
(* there is room.                                                          *)
Admitted(inside) ==
  {w \in In("wait") :
     inside + Cardinality({v \in In("wait") : v < w}) < MiningCapacity}

Loaded(w) == [worker[w] EXCEPT !.gold = @ + GoldLoad,
                               !.move = IF hall THEN "goldback" ELSE "stand"]

(* Mutant: those who wait are called before the counter goes down. *)
WalkBackCalling(w) ==
  /\ worker[w].move = "minegold"
  /\ LET called == Admitted(peonsinside)
     IN /\ peonsinside' = peonsinside + Cardinality(called) - 1
        /\ worker' = [v \in Worker |->
             IF v = w THEN Loaded(w)
             ELSE IF v \in called THEN [worker[v] EXCEPT !.move = "minegold"]
             ELSE worker[v]]
  /\ taken' = [taken EXCEPT !.gold = Add(@, GoldLoad)]
  /\ UNCHANGED <<trees, hall, stats, stranded, orders>>

(* Mutant: the counter does not go down. *)
WalkBackCounted(w) ==
  /\ worker[w].move = "minegold"
  /\ worker' = [worker EXCEPT ![w] = Loaded(w)]
  /\ taken' = [taken EXCEPT !.gold = Add(@, GoldLoad)]
  /\ UNCHANGED <<peonsinside, trees, hall, stats, stranded, orders>>

(* harvestgold_walkback, when the time inside is over. *)
WalkBack(w) ==
  /\ worker[w].move = "minegold"
  /\ LET called == Admitted(peonsinside - 1)
     IN /\ peonsinside' = peonsinside - 1 + Cardinality(called)
        /\ worker' = [v \in Worker |->
             IF v = w THEN Loaded(w)
             ELSE IF v \in called THEN [worker[v] EXCEPT !.move = "minegold"]
             ELSE worker[v]]
  /\ taken' = [taken EXCEPT !.gold = Add(@, GoldLoad)]
  /\ UNCHANGED <<trees, hall, stats, stranded, orders>>

(* Mutant: the load stays with the worker. *)
DeliverGoldKeeping(w) ==
  /\ worker[w].move = "goldback"
  /\ Sets(w, "walkmine")
  /\ stats' = [stats EXCEPT !.gold = Add(@, worker[w].gold)]
  /\ UNCHANGED <<peonsinside, trees, hall, taken, stranded, orders>>

(* ai_goldmine_walkback at its goal, the hall or what was the hall. *)
DeliverGold(w) ==
  /\ worker[w].move = "goldback"
  /\ worker' = [worker EXCEPT ![w].move = "walkmine", ![w].gold = 0]
  /\ stats' = [stats EXCEPT !.gold = Add(@, worker[w].gold)]
  /\ UNCHANGED <<peonsinside, trees, hall, taken, stranded, orders>>

-----------------------------------------------------------------------------
(* Lumber.  A live tree within range, if there is one. *)
LookForAnotherTree(w) ==
  Sets(w, "stand") \/ \E t \in Tree : ~Dead(t) /\ HarvestStart(w, t)

HomeOrStand(w) == Sets(w, IF hall THEN "lumberback" ELSE "stand")

WalkTree(w) ==
  /\ worker[w].move = "walktree"
  /\ IF Dead(worker[w].second) THEN LookForAnotherTree(w) ELSE Sets(w, "swing")
  /\ UNCHANGED <<peonsinside, trees, hall, stats, taken, stranded, orders>>

(* ai_chop, at the damage point of a swing: once in a swing. *)
Chop(w) ==
  LET t == worker[w].second
      cut == IF Dead(t) THEN 0 ELSE TreeDamage
  IN /\ worker[w].move = "swing"
     /\ worker' = [worker EXCEPT ![w].lumber = @ + cut, ![w].move = "swung"]
     /\ taken' = [taken EXCEPT !.lumber = Add(@, cut)]
     /\ trees' = [trees EXCEPT ![t] = IF @ < TreeDamage THEN 0 ELSE @ - TreeDamage]
     /\ UNCHANGED <<peonsinside, hall, stats, stranded, orders>>

(* harvest_cooldown, at the end of the animation. *)
CoolDown(w) ==
  /\ worker[w].move \in {"swing", "swung"}
  /\ IF worker[w].lumber >= LumberLoad THEN HomeOrStand(w)
     ELSE IF Dead(worker[w].second) THEN LookForAnotherTree(w)
     ELSE Sets(w, "cooldown")
  /\ UNCHANGED <<peonsinside, trees, hall, stats, taken, stranded, orders>>

Swing(w) ==
  /\ worker[w].move = "cooldown"
  /\ Sets(w, "swing")
  /\ UNCHANGED <<peonsinside, trees, hall, stats, taken, stranded, orders>>

DeliverLumber(w) ==
  /\ worker[w].move = "lumberback"
  /\ worker' = [worker EXCEPT ![w].move = "walktree", ![w].lumber = 0]
  /\ stats' = [stats EXCEPT !.lumber = Add(@, worker[w].lumber)]
  /\ UNCHANGED <<peonsinside, trees, hall, taken, stranded, orders>>

-----------------------------------------------------------------------------
(* From outside: the orders of the player, any other order, a blow that is *)
(* answered or death, and the town hall, lost or built.                    *)
Outside == orders < MaxOrders /\ orders' = orders + 1
Leaves(w) ==
  stranded' = IF worker[w].move = "minegold" THEN stranded + 1 ELSE stranded

HarvestOrder(w, target) ==
  /\ Outside /\ Leaves(w)
  /\ HarvestStart(w, target)
  /\ UNCHANGED <<peonsinside, trees, hall, stats, taken>>

OtherOrder(w) ==
  /\ Outside /\ Leaves(w)
  /\ Sets(w, "other")
  /\ UNCHANGED <<peonsinside, trees, hall, stats, taken>>

TownHall ==
  /\ Outside
  /\ hall' = ~hall
  /\ UNCHANGED <<worker, peonsinside, trees, stats, taken, stranded>>

-----------------------------------------------------------------------------
Think(w) ==
  \/ WalkMine(w) \/ WalkBack(w) \/ DeliverGold(w)
  \/ WalkTree(w) \/ Chop(w) \/ CoolDown(w) \/ Swing(w) \/ DeliverLumber(w)

Next ==
  \/ \E w \in Worker : \/ Think(w) \/ OtherOrder(w)
                       \/ \E target \in Tree \cup {Mine} : HarvestOrder(w, target)
  \/ TownHall

(* Every unit thinks in every frame; its walks and its timers end. *)
Spec == Init /\ [][Next]_vars /\ \A w \in Worker : WF_vars(Think(w))

-----------------------------------------------------------------------------
(* The types, and what the mine's counter says: it counts those inside and *)
(* those who were called away from inside, never more than fit; and nobody *)
(* waits while there is room (harvestgold_walkback calls them).            *)
TypeOK ==
  /\ worker \in [Worker -> [move : Move, second : Tree \cup {Mine},
                            gold : Nat, lumber : Nat]]
  /\ \A w \in Worker : /\ worker[w].move \in Gold => worker[w].second = Mine
                       /\ worker[w].move \in Lumber => worker[w].second \in Tree
  /\ trees \in [Tree -> 0 .. TreeHealth]
  /\ hall \in BOOLEAN /\ orders \in 0 .. MaxOrders
  /\ stats \in [gold : 0 .. USHORT - 1, lumber : 0 .. USHORT - 1]
  /\ taken \in [gold : 0 .. USHORT - 1, lumber : 0 .. USHORT - 1]
  /\ stranded \in Nat
  /\ peonsinside = Cardinality(In("minegold")) + stranded
  /\ peonsinside \in 0 .. MiningCapacity
  /\ In("wait") # {} => peonsinside = MiningCapacity

(* What is carried by all together, or was cut from all trees, as the set  *)
(* of its pieces.                                                          *)
Pieces(load) == UNION {{k} \X (1 .. load[k]) : k \in DOMAIN load}
Sum(load) == Cardinality(Pieces(load))

Carried(kind) == [w \in Worker |-> worker[w][kind]]
Strokes(life) == (life + TreeDamage - 1) \div TreeDamage
Felled == [t \in Tree |-> TreeDamage * (Strokes(TreeHealth) - Strokes(trees[t]))]

(* Nothing is lost or doubled, however workers are sent to and fro between *)
(* mine, trees and hall: what was taken is with the player or is carried.  *)
(* And no tree gives more than its life is worth.                          *)
NothingLost ==
  /\ taken.gold = Add(stats.gold, Sum(Carried("gold")))
  /\ taken.lumber = Add(stats.lumber, Sum(Carried("lumber")))
  /\ taken.lumber = Sum(Felled) % USHORT

(* As long as someone is at work in the mine and not all its places are    *)
(* taken by workers who were called away, gold keeps coming in.            *)
Mining == hall /\ stranded < MiningCapacity /\ \E w \in Worker : worker[w].move \in Gold

MiningGoesOn ==
  \A n \in 0 .. USHORT - 1 : stats.gold = n /\ Mining ~> stats.gold # n \/ ~Mining
==============================================================================
