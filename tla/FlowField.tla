------------------------------ MODULE FlowField ------------------------------
(***************************************************************************)
(* How the walking units of the Warcraft III game share flow fields.  A    *)
(* unit that cannot go straight to its goal follows a field of directions  *)
(* baked by flooding the map from the goal (common/routing.c).  A few      *)
(* fields are kept, each with a generation number; a goal remembers the    *)
(* generation of its field (game/g_monster.c), and a unit asks for the     *)
(* field by that number (game/g_ai.c).  Placing a building changes the map *)
(* and throws the fields away (game/skills/s_build.c).                     *)
(*                                                                         *)
(* A field stands for the cell its flood began at and the obstacles it was *)
(* baked around.  Which cells a straight line or a footprint covers, and   *)
(* which open cell is the closest, are free choices.                       *)
(***************************************************************************)
EXTENDS Integers, FiniteSets, Sequences, SequencesExt

CONSTANTS
  Unit,         \* the units that walk, and that others may attack
  PoolSize,     \* MAX_WAYPOINTS: how many waypoints there are to reuse
  Cell, Corner, \* the cells of the path map, and the one at its corner
  SlotCount,    \* HEATMAP_CACHE_SLOTS
  Budget,       \* HEATMAP_BUILD_BUDGET
  DWORD,        \* how many values a generation number has
  None,         \* no goal, no target, no field
  MaxBakes,     \* bound: buildings placed
  MaxOrders     \* bound: orders given

ASSUME SetAssumption ==
  /\ IsFiniteSet(Unit) /\ Corner \in Cell
  /\ Unit \cap Int = {} /\ None \notin Unit \cup Int \cup Cell
  /\ None \notin [to : Cell, bakes : Nat]
ASSUME PoolAssumption == PoolSize \in Nat /\ PoolSize > Cardinality(Unit)
ASSUME CacheAssumption == SlotCount \in Nat \ {0} /\ Budget \in Nat
ASSUME WidthAssumption == DWORD \in Nat /\ DWORD > Budget + 1
ASSUME BoundAssumption == MaxBakes \in Nat /\ MaxOrders \in Nat

VARIABLES
  original,   \* pathmap.original: the cells blocked by what does not move
  data,       \* pathmap.data: those of the map last worked on
  place,      \* where each unit and waypoint is
  second,     \* a waypoint's secondarygoal
  goal,       \* a unit's goalentity
  waypoint,   \* current_waypoint, modulo PoolSize
  heatmap2,   \* the generation a goal has a field of
  cache,      \* heatmap_cache
  used,       \* the slots in use, the least recently used first
  generation, \* heatmap_next_generation
  builds,     \* g_heatmap_builds_this_frame
  asked,      \* history: where a goal's field was to lead, and after which bake
  bakes,      \* how often the obstacles were baked
  orders      \* how many orders were given

world == <<original, data, place>>
routing == <<second, goal, waypoint>>
fields == <<heatmap2, cache, used, generation, builds>>
vars == <<world, routing, fields, asked, bakes, orders>>

Waypoint == 0..PoolSize-1
Goal == Unit \cup Waypoint
Slot == 0..SlotCount-1
Field == [to : Cell, around : SUBSET Cell]

(* An entry of the cache; its field stays allocated when it is invalid. *)
NoEntry == [target |-> None, generation |-> 0, field |-> None]
InUse(s) == cache[s].generation # 0
Invalid(c) == [s \in Slot |-> [c[s] EXCEPT !.target = None, !.generation = 0]]

Init ==
  /\ original \in SUBSET Cell
  /\ data = original
  /\ place \in [Goal -> Cell]
  /\ \A w \in Waypoint : place[w] = Corner
  /\ second = [w \in Waypoint |-> None]
  /\ goal = [u \in Unit |-> None]
  /\ waypoint = 0
  /\ heatmap2 = [g \in Goal |-> 0]
  /\ cache = [s \in Slot |-> NoEntry]
  /\ used = <<>>
  /\ generation = 1
  /\ builds = 0
  /\ asked = [g \in Goal |-> None]
  /\ bakes = 0
  /\ orders = 0

-----------------------------------------------------------------------------
(* Orders.  A waypoint is taken from a ring of them, in use or not.        *)

(* Mutant: the counter is not taken modulo the pool's size. *)
PooledPlain(k) == waypoint + k

Pooled(k) == (waypoint + k) % PoolSize

(* Mutant: a waypoint used again keeps the generation it had. *)
Waypoint_addKeeping(n, at) ==
  LET added(w) == {k \in 0..n-1 : w = Pooled(k)}
  IN /\ place' = [g \in Goal |-> IF added(g) # {}
                                 THEN at[CHOOSE k \in added(g) : TRUE]
                                 ELSE place[g]]
     /\ asked' = [g \in Goal |-> IF added(g) # {} THEN None ELSE asked[g]]
     /\ waypoint' = Pooled(n)
     /\ UNCHANGED heatmap2

(* Waypoint_add of n waypoints, the k-th at the cell at[k]. *)
Waypoint_add(n, at) ==
  LET added(w) == {k \in 0..n-1 : w = Pooled(k)}
  IN /\ place' = [g \in Goal |-> IF added(g) # {}
                                 THEN at[CHOOSE k \in added(g) : TRUE]
                                 ELSE place[g]]
     /\ heatmap2' = [g \in Goal |-> IF added(g) # {} THEN 0 ELSE heatmap2[g]]
     /\ asked' = [g \in Goal |-> IF added(g) # {} THEN None ELSE asked[g]]
     /\ waypoint' = Pooled(n)

Ordered ==
  /\ orders < MaxOrders
  /\ orders' = orders + 1
  /\ UNCHANGED <<cache, used, generation, builds, bakes, original>>

(* CM_ClosestPathablePointForRadius: the map is copied afresh and every    *)
(* unit is stamped on it, where it stands and around.                      *)
Stamp == \E stamped \in SUBSET Cell :
           /\ {place[u] : u \in Unit} \subseteq stamped
           /\ data' = original \cup stamped

(* move_selectlocation: the units selected are sent to a waypoint each, in *)
(* the order of rank, and all of these share one as the route to follow.   *)
SelectLocation(us) ==
  /\ Ordered
  /\ \E at \in [0..Cardinality(us) -> Cell],
        rank \in {r \in [us -> 1..Cardinality(us)] : IsInjective(r)} :
       /\ Waypoint_add(Cardinality(us) + 1, at)
       /\ second' = [w \in Waypoint |->
                       IF \E u \in us : w = Pooled(rank[u]) THEN Pooled(0)
                       ELSE IF w = Pooled(0) THEN None ELSE second[w]]
       /\ goal' = [u \in Unit |-> IF u \in us THEN Pooled(rank[u])
                                              ELSE goal[u]]
  /\ Stamp

(* One waypoint for all of them: unit_issueorder stamps the units and      *)
(* sends one, build_menu_send_builder sends every unit selected.           *)
SendTo(us) ==
  /\ Ordered
  /\ \E c \in Cell : Waypoint_add(1, [k \in {0} |-> c])
  /\ second' = [second EXCEPT ![Pooled(0)] = None]
  /\ goal' = [u \in Unit |-> IF u \in us THEN Pooled(0) ELSE goal[u]]

IssueOrder(u) == SendTo({u}) /\ Stamp
SendBuilder(us) == SendTo(us) /\ UNCHANGED data

(* order_attack: the goal is the unit attacked, wherever it walks. *)
Attack(u, v) ==
  /\ Ordered
  /\ u # v
  /\ goal' = [goal EXCEPT ![u] = v]
  /\ UNCHANGED <<data, place, second, waypoint, heatmap2, asked>>

-----------------------------------------------------------------------------
(* The cache of fields.                                                    *)

(* A slot that is used becomes the most recently used one. *)
Touched(s) ==
  LET before == {i \in DOMAIN used : used[i] = s}
  IN Append(IF before = {} THEN used ELSE RemoveAt(used, CHOOSE i \in before : TRUE),
            s)

(* CM_ActivateCachedFlow: the slots a generation finds, at most one. *)
Found(gen) == {s \in Slot : gen # 0 /\ cache[s].generation = gen}

(* M_RefreshHeatmap: a goal's field is that of its route. *)
Route(g) == IF g \in Waypoint /\ second[g] # None THEN second[g] ELSE g

(* level.time: nothing assigns it, so that no field is ever 400 ms old. *)
Stale == FALSE
Reusable(r) == r \in Waypoint \/ ~Stale \/ builds >= Budget

(* The cell a field shall lead to: the goal's, or the open one closest. *)
Resolved(r) == IF place[r] \in data /\ data # Cell THEN Cell \ data
                                                   ELSE {place[r]}

(* The slot to bake into: the first one free, or the least recently used. *)
Evicted == LET free == {s \in Slot : ~InUse(s)}
           IN IF free = {} THEN Head(used)
              ELSE CHOOSE s \in free : \A t \in free : s <= t

(* Generation 0 means that there is no field. *)
Successor(gen) == IF (gen + 1) % DWORD = 0 THEN 1 ELSE (gen + 1) % DWORD

(* The field is baked from a fresh copy of the map, around what is static. *)
Baked(t) == [to |-> t, around |-> original]

(* Mutant: a field is baked without looking in the cache. *)
BuildHeatmapAlways(t, s) ==
  /\ s = Evicted
  /\ data' = original
  /\ cache' = [cache EXCEPT ![s] =
       [target |-> t, generation |-> generation, field |-> Baked(t)]]
  /\ generation' = Successor(generation)
  /\ used' = Touched(s)

(* CM_BuildHeatmap: a field to the cell t, found in the cache or baked;    *)
(* the slot is s.                                                          *)
BuildHeatmap(t, s) ==
  /\ \/ /\ cache[s].target = t
        /\ UNCHANGED <<cache, generation, data>>
     \/ /\ \A o \in Slot : cache[o].target # t
        /\ s = Evicted
        /\ data' = original
        /\ cache' = [cache EXCEPT ![s] =
             [target |-> t, generation |-> generation, field |-> Baked(t)]]
        /\ generation' = Successor(generation)
  /\ used' = Touched(s)

(* unit_changeangle.  The line to the goal is clear, or not; or there is   *)
(* no field, and the unit heads for its goal all the same; or it follows   *)
(* the field found with its route's generation, or the one baked for it.   *)

GoStraight(u) ==
  /\ place[goal[u]] \notin data
  /\ UNCHANGED <<data, asked, fields>>

FollowCached(u) ==
  LET r == Route(goal[u])
  IN \E s \in Found(heatmap2[r]) :
       /\ Reusable(r)
       /\ used' = Touched(s)
       /\ UNCHANGED <<data, heatmap2, cache, generation, builds, asked>>

GoWithoutField(u) ==
  /\ Found(heatmap2[Route(goal[u])]) = {}
  /\ builds >= Budget
  /\ UNCHANGED <<data, asked, fields>>

FollowBuilt(u) ==
  LET r == Route(goal[u])
  IN /\ Found(heatmap2[r]) = {} \/ ~Reusable(r)
     /\ builds < Budget
     /\ builds' = builds + 1
     /\ \E t \in Resolved(r), s \in Slot :
          /\ BuildHeatmap(t, s)
          /\ heatmap2' = [heatmap2 EXCEPT ![r] = cache'[s].generation]
          /\ asked' = [asked EXCEPT ![r] = [to |-> t, bakes |-> bakes]]

(* A unit turns to its goal and takes a step, where nothing static is. *)
Think(u) ==
  /\ goal[u] # None
  /\ GoStraight(u) \/ FollowCached(u) \/ GoWithoutField(u) \/ FollowBuilt(u)
  /\ \E c \in (Cell \ original) \cup {place[u]} :
       place' = [place EXCEPT ![u] = c]
  /\ UNCHANGED <<original, routing, bakes, orders>>

(* CM_BakeStaticObstacles, when a builder has reached its site: what is on *)
(* the map becomes an obstacle, and every field is thrown away; the map    *)
(* last worked on stays as it was.                                         *)
PlaceBuilding ==
  /\ bakes < MaxBakes
  /\ bakes' = bakes + 1
  /\ \E footprint \in SUBSET Cell : original' = original \cup footprint
  /\ cache' = Invalid(cache)
  /\ used' = <<>>
  /\ generation' = 1
  /\ UNCHANGED <<data, place, routing, heatmap2, builds, asked, orders>>

Next ==
  \/ \E us \in (SUBSET Unit) \ {{}} : SelectLocation(us) \/ SendBuilder(us)
  \/ \E u \in Unit : IssueOrder(u) \/ Think(u)
  \/ \E u, v \in Unit : Attack(u, v)
  \/ PlaceBuilding

Spec == Init /\ [][Next]_vars

-----------------------------------------------------------------------------
TypeOK ==
  /\ original \in SUBSET Cell /\ data \in SUBSET Cell
  /\ place \in [Goal -> Cell]
  /\ second \in [Waypoint -> Waypoint \cup {None}]
  /\ goal \in [Unit -> Goal \cup {None}]
  /\ waypoint \in Waypoint
  /\ heatmap2 \in [Goal -> 0..DWORD-1]
  /\ cache \in [Slot -> [target : Cell \cup {None}, generation : 0..DWORD-1,
                         field : Field \cup {None}]]
  /\ used \in Seq(Slot)
  /\ generation \in 1..DWORD-1
  /\ builds \in 0..Budget
  /\ asked \in [Goal -> [to : Cell, bakes : 0..MaxBakes] \cup {None}]
  /\ bakes \in 0..MaxBakes
  /\ orders \in 0..MaxOrders

(* No two fields in the cache lead to one cell or have one generation, and *)
(* the next bake takes a number that none of them has: a unit that asks    *)
(* for a field by its generation cannot be given another.  This is what    *)
(* CM_BuildHeatmap's numbering and its lookup by target cell are for.  And *)
(* each was baked around the obstacles there are now, whatever buildings   *)
(* were placed and however units stood on the map while a destination was  *)
(* looked for.                                                             *)
CacheCoherent ==
  /\ \A s, t \in Slot : InUse(s) /\ InUse(t) /\ s # t =>
       /\ cache[s].target # cache[t].target
       /\ cache[s].generation # cache[t].generation
  /\ \A s \in Slot : InUse(s) =>
       cache[s].generation < generation /\ cache[s].field.around = original

(* As long as no building is placed, the generation a goal remembers      *)
(* finds the field baked to where this goal was when it asked for one, or  *)
(* none, although fields are evicted and waypoints reused: the generation  *)
(* handshake of get_flow_direction.                                        *)
OwnFieldUntilBake ==
  \A g \in Goal : \A s \in Found(heatmap2[g]) :
    /\ asked[g] # None
    /\ asked[g].bakes = bakes => cache[s].field.to = asked[g].to
==============================================================================
