---------------------------- MODULE HarvestProofs ----------------------------
(***************************************************************************)
(* The mine's counter is right, and nothing that was taken is lost, for    *)
(* any number of workers, of trees, of places in the mine and of orders.   *)
(*                                                                         *)
(* TypeOK, which has the counter in it, is inductive as it stands.  The    *)
(* one step that takes an argument is the one that calls those who wait:   *)
(* as someone waits, the mine was full, so that one place has become free; *)
(* the waiting worker of the least number, and no other, has fewer than    *)
(* one before it.                                                          *)
(*                                                                         *)
(* Books is NothingLost with what its steps need: a sum is the number of   *)
(* pieces in a set, which is finite, so that it changes by as much as one  *)
(* of its numbers does (SumChanges) and no induction over workers or trees *)
(* is made; and no tree has more blows left than at first (Struck).        *)
(***************************************************************************)
EXTENDS Harvest, FiniteSetTheorems, WellFoundedInduction, TLAPS

-----------------------------------------------------------------------------
(* Workers, and how one of them changes. *)

Record == [move : Move, second : Tree \cup {Mine}, gold : Nat, lumber : Nat]
Sane(r) == /\ r \in Record
           /\ r.move \in Gold => r.second = Mine
           /\ r.move \in Lumber => r.second \in Tree
Workers(f) == f \in [Worker -> Record] /\ \A w \in Worker : Sane(f[w])

At(f, move) == {w \in Worker : f[w].move = move}
Only(w, f, g) == \A v \in Worker \ {w} : g[v] = f[v]

LEMMA Numbers ==
  /\ NumWorkers \in Nat /\ MiningCapacity \in Nat \ {0}
  /\ GoldLoad \in Nat /\ LumberLoad \in Nat /\ TreeDamage \in Nat
  /\ TreeHealth \in Nat /\ USHORT \in Nat \ {0} /\ MaxOrders \in Nat
  /\ Mine \notin Tree
<1>1. GoldLoad * (MaxOrders + 1) \in Nat
  BY HarvestAssumption
<1> QED BY <1>1, HarvestAssumption

LEMMA AtFinite ==
  ASSUME NEW f, NEW move
  PROVE  IsFiniteSet(At(f, move)) /\ Cardinality(At(f, move)) \in Nat
<1>1. IsFiniteSet(Worker)
  BY Numbers, FS_Interval DEF Worker
<1>2. At(f, move) \subseteq Worker
  BY DEF At
<1> QED BY <1>1, <1>2, FS_Subset, FS_CardinalityType

(* One worker changes: what its record must be for all to stay sane. *)
LEMMA OneChanges ==
  ASSUME NEW f, Workers(f), NEW w \in Worker, NEW r, Sane(r)
  PROVE  /\ Workers([f EXCEPT ![w] = r])
         /\ Only(w, f, [f EXCEPT ![w] = r])
         /\ [f EXCEPT ![w] = r][w] = r
BY DEF Workers, Sane, Only

(* One worker changes that is not in the mine and does not come to it. *)
LEMMA Elsewhere ==
  ASSUME NEW f, NEW g, NEW w \in Worker, Only(w, f, g),
         f[w].move # "minegold", g[w].move \notin {"minegold", "wait"}
  PROVE  /\ At(g, "minegold") = At(f, "minegold")
         /\ At(g, "wait") \subseteq At(f, "wait")
BY DEF Only, At

LEMMA ComesIn ==
  ASSUME NEW f, NEW g, NEW w \in Worker, Only(w, f, g),
         f[w].move # "minegold", g[w].move = "minegold"
  PROVE  Cardinality(At(g, "minegold")) = Cardinality(At(f, "minegold")) + 1
<1>1. At(g, "minegold") = At(f, "minegold") \cup {w}
  BY DEF Only, At
<1>2. w \notin At(f, "minegold")
  BY DEF At
<1> QED BY <1>1, <1>2, AtFinite, FS_AddElement

LEMMA GoesOut ==
  ASSUME NEW f, NEW g, NEW w \in Worker, Only(w, f, g),
         f[w].move = "minegold", g[w].move # "minegold"
  PROVE  Cardinality(At(g, "minegold")) = Cardinality(At(f, "minegold")) - 1
<1>1. At(g, "minegold") = At(f, "minegold") \ {w}
  BY DEF Only, At
<1>2. w \in At(f, "minegold")
  BY DEF At
<1> QED BY <1>1, <1>2, AtFinite, FS_RemoveElement

-----------------------------------------------------------------------------
(* The least of those who wait. *)
LEMMA HasLeast ==
  ASSUME NEW S \in SUBSET Nat, S # {}
  PROVE  \E x \in S : \A y \in S : x <= y
<1>1. PICK x \in S : \A y \in S : <<y, x>> \notin OpToRel(<, Nat)
  BY WFMin, NatLessThanWellFounded, Zenon
<1>2. \A y \in S : ~(y < x)
  BY <1>1, Zenon DEF OpToRel
<1> QED BY <1>2

LEMMA NoneBefore ==
  ASSUME NEW w \in Worker
  PROVE  /\ IsFiniteSet({v \in In("wait") : v < w})
         /\ Cardinality({v \in In("wait") : v < w}) \in Nat
         /\ Cardinality({v \in In("wait") : v < w}) = 0
              <=> \A v \in In("wait") : ~(v < w)
<1> DEFINE B == {v \in In("wait") : v < w}
<1>1. IsFiniteSet(B)
  <2>1. B \subseteq At(worker, "wait")
    BY DEF In, At
  <2> QED BY <2>1, AtFinite, FS_Subset
<1>2. Cardinality(B) \in Nat /\ (Cardinality(B) = 0 <=> B = {})
  BY <1>1, FS_CardinalityType, FS_EmptySet
<1> QED BY <1>1, <1>2

(* With one place free, one of those who wait goes in. *)
LEMMA OneAdmitted ==
  ASSUME In("wait") # {}
  PROVE  \E m \in In("wait") : Admitted(MiningCapacity - 1) = {m}
<1>1. In("wait") \in SUBSET Nat /\ In("wait") \subseteq Worker
  BY Numbers DEF In, Worker
<1>2. PICK m \in In("wait") : \A v \in In("wait") : m <= v
  BY <1>1, HasLeast
<1>3. ASSUME NEW w \in In("wait")
      PROVE  MiningCapacity - 1 + Cardinality({v \in In("wait") : v < w})
               < MiningCapacity <=> w = m
  <2> DEFINE c == Cardinality({v \in In("wait") : v < w})
  <2>1. c \in Nat /\ (c = 0 <=> \A v \in In("wait") : ~(v < w))
    BY <1>1, NoneBefore
  <2>2. (\A v \in In("wait") : ~(v < w)) <=> w = m
    BY <1>1, <1>2
  <2> HIDE DEF c
  <2>3. MiningCapacity - 1 + c < MiningCapacity <=> c = 0
    BY <2>1, Numbers
  <2>4. MiningCapacity - 1 + c < MiningCapacity <=> w = m
    BY <2>1, <2>2, <2>3
  <2> QED BY <2>4 DEF c
<1> QED BY <1>3 DEF Admitted

LEMMA NoneAdmitted ==
  ASSUME NEW inside, In("wait") = {}
  PROVE  Admitted(inside) = {}
BY DEF Admitted

-----------------------------------------------------------------------------
(* The invariant in parts: the records, the mine, and all else. *)

Counted(f, inside, away) ==
  /\ inside = Cardinality(At(f, "minegold")) + away
  /\ inside \in 0 .. MiningCapacity
  /\ At(f, "wait") # {} => inside = MiningCapacity

Others ==
  /\ trees \in [Tree -> 0 .. TreeHealth]
  /\ hall \in BOOLEAN /\ orders \in 0 .. MaxOrders
  /\ stats \in [gold : 0 .. USHORT - 1, lumber : 0 .. USHORT - 1]
  /\ taken \in [gold : 0 .. USHORT - 1, lumber : 0 .. USHORT - 1]
  /\ stranded \in Nat

LEMMA Parts ==
  TypeOK <=> Workers(worker) /\ Counted(worker, peonsinside, stranded) /\ Others
BY DEF TypeOK, Workers, Sane, Record, Counted, Others, At, In

LEMMA PartsNext ==
  TypeOK' <=> /\ Workers(worker') /\ Counted(worker', peonsinside', stranded')
              /\ Others'
BY DEF TypeOK, Workers, Sane, Record, Counted, Others, At, In

LEMMA Wraps ==
  ASSUME NEW a \in Nat, NEW b \in Nat
  PROVE  Add(a, b) \in 0 .. USHORT - 1
BY Numbers DEF Add

LEMMA Resources ==
  ASSUME NEW s \in [gold : 0 .. USHORT - 1, lumber : 0 .. USHORT - 1],
         NEW n \in Nat
  PROVE  /\ [s EXCEPT !.gold = Add(@, n)]
              \in [gold : 0 .. USHORT - 1, lumber : 0 .. USHORT - 1]
         /\ [s EXCEPT !.lumber = Add(@, n)]
              \in [gold : 0 .. USHORT - 1, lumber : 0 .. USHORT - 1]
<1>1. s.gold \in Nat /\ s.lumber \in Nat
  BY Numbers
<1>2. /\ Add(s.gold, n) \in 0 .. USHORT - 1
      /\ Add(s.lumber, n) \in 0 .. USHORT - 1
  BY <1>1, Wraps
<1> QED BY <1>2

(* A worker takes another move, or sets out anew. *)
LEMMA TakesMove ==
  ASSUME NEW w \in Worker, Workers(worker), NEW move \in Move,
         move \in Gold => worker[w].second = Mine,
         move \in Lumber => worker[w].second \in Tree,
         Sets(w, move)
  PROVE  \E r : Sane(r) /\ r.move = move /\ worker' = [worker EXCEPT ![w] = r]
<1> DEFINE r == [worker[w] EXCEPT !.move = move]
<1>1. Sane(worker[w])
  BY DEF Workers
<1>2. Sane(r) /\ r.move = move
  BY <1>1 DEF Sane, Record
<1>3. worker' = [worker EXCEPT ![w] = r]
  BY DEF Sets, Workers
<1> QED BY <1>2, <1>3

LEMMA SetsOut ==
  ASSUME NEW w \in Worker, Workers(worker), NEW target \in Tree \cup {Mine},
         HarvestStart(w, target)
  PROVE  \E r : /\ Sane(r) /\ r.move \in {"walkmine", "walktree"}
                /\ worker' = [worker EXCEPT ![w] = r]
<1> DEFINE move == IF target = Mine THEN "walkmine" ELSE "walktree"
           r == [worker[w] EXCEPT !.second = target, !.move = move]
<1>1. Sane(worker[w])
  BY DEF Workers
<1>2. Sane(r) /\ r.move \in {"walkmine", "walktree"}
  BY <1>1, Numbers DEF Sane, Record, Move, Gold, Lumber
<1>3. worker' = [worker EXCEPT ![w] = r]
  BY DEF HarvestStart, Workers
<1> QED BY <1>2, <1>3

(* What a step outside the mine keeps. *)
LEMMA MineUntouched ==
  ASSUME TypeOK, NEW w \in Worker, worker[w].move # "minegold",
         NEW r, Sane(r), r.move \notin {"minegold", "wait"},
         worker' = [worker EXCEPT ![w] = r],
         UNCHANGED <<peonsinside, stranded>>
  PROVE  Workers(worker') /\ Counted(worker', peonsinside', stranded')
<1>1. Workers(worker) /\ Counted(worker, peonsinside, stranded)
  BY Parts
<1>2. Workers(worker') /\ Only(w, worker, worker') /\ worker'[w] = r
  BY <1>1, OneChanges
<1>3. /\ At(worker', "minegold") = At(worker, "minegold")
      /\ At(worker', "wait") \subseteq At(worker, "wait")
  BY <1>2, Elsewhere
<1> QED BY <1>1, <1>2, <1>3 DEF Counted

-----------------------------------------------------------------------------
(* The mine. *)

LEMMA WalkMineKeeps ==
  ASSUME TypeOK, NEW w \in Worker, WalkMine(w)
  PROVE  TypeOK'
<1>1. Workers(worker) /\ Counted(worker, peonsinside, stranded) /\ Others
  BY Parts
<1>2. /\ worker[w].move = "walkmine" /\ worker[w].second = Mine
      /\ UNCHANGED <<trees, hall, stats, taken, stranded, orders>>
  BY <1>1 DEF WalkMine, Workers, Sane, Gold
<1>3. Others'
  BY <1>1, <1>2 DEF Others
<1>4. peonsinside \in Nat /\ peonsinside <= MiningCapacity
  BY <1>1, Numbers DEF Counted
<1>5. CASE peonsinside < MiningCapacity
  <2>1. Sets(w, "minegold") /\ peonsinside' = peonsinside + 1
    BY <1>5 DEF WalkMine
  <2>2. PICK r : Sane(r) /\ r.move = "minegold" /\ worker' = [worker EXCEPT ![w] = r]
    BY <1>1, <1>2, <2>1, TakesMove DEF Move, Gold, Lumber
  <2>3. Workers(worker') /\ Only(w, worker, worker') /\ worker'[w].move = "minegold"
    BY <1>1, <2>2, OneChanges
  <2>4. Cardinality(At(worker', "minegold")) = Cardinality(At(worker, "minegold")) + 1
    BY <1>2, <2>3, ComesIn
  <2>5. At(worker, "wait") = {}
    BY <1>1, <1>4, <1>5 DEF Counted
  <2>6. At(worker', "wait") = {}
    BY <2>3, <2>5 DEF At, Only
  <2>7. Cardinality(At(worker, "minegold")) \in Nat /\ stranded \in Nat
    BY <1>1, AtFinite DEF Others
  <2>8. peonsinside' = Cardinality(At(worker', "minegold")) + stranded'
    BY <1>1, <1>2, <2>1, <2>4, <2>7 DEF Counted
  <2>9. peonsinside' \in 0 .. MiningCapacity
    BY <1>4, <1>5, <2>1, Numbers
  <2> QED BY <1>3, <2>3, <2>6, <2>8, <2>9, PartsNext DEF Counted
<1>6. CASE peonsinside >= MiningCapacity
  <2>1. Sets(w, "wait") /\ peonsinside' = peonsinside
    BY <1>4, <1>6, Numbers DEF WalkMine
  <2>2. PICK r : Sane(r) /\ r.move = "wait" /\ worker' = [worker EXCEPT ![w] = r]
    BY <1>1, <1>2, <2>1, TakesMove DEF Move, Gold, Lumber
  <2>3. Workers(worker') /\ Only(w, worker, worker') /\ worker'[w].move = "wait"
    BY <1>1, <2>2, OneChanges
  <2>4. At(worker', "minegold") = At(worker, "minegold")
    BY <1>2, <2>3 DEF At, Only
  <2>5. peonsinside' = MiningCapacity
    BY <1>4, <1>6, <2>1, Numbers
  <2> QED BY <1>1, <1>2, <1>3, <2>1, <2>3, <2>4, <2>5, PartsNext DEF Counted
<1> QED BY <1>4, <1>5, <1>6, Numbers

LEMMA LoadedSane ==
  ASSUME Workers(worker), NEW w \in Worker, worker[w].move = "minegold"
  PROVE  Sane(Loaded(w)) /\ Loaded(w).move \in {"goldback", "stand"}
<1>1. Sane(worker[w]) /\ worker[w].second = Mine /\ worker[w].gold \in Nat
  BY DEF Workers, Sane, Gold, Record
<1>2. worker[w].gold + GoldLoad \in Nat
  BY <1>1, Numbers
<1>3. Loaded(w) = [worker[w] EXCEPT !.gold = worker[w].gold + GoldLoad,
                                    !.move = IF hall THEN "goldback" ELSE "stand"]
  BY DEF Loaded
<1> QED BY <1>1, <1>2, <1>3 DEF Sane, Record, Move, Gold, Lumber

(* The one who leaves, and the one who comes in its place or nobody. *)
LEMMA WalkBackKeeps ==
  ASSUME TypeOK, NEW w \in Worker, WalkBack(w)
  PROVE  TypeOK'
<1> DEFINE out == [worker EXCEPT ![w] = Loaded(w)]
<1>1. Workers(worker) /\ Counted(worker, peonsinside, stranded) /\ Others
  BY Parts
<1>2. /\ worker[w].move = "minegold"
      /\ UNCHANGED <<trees, hall, stats, stranded, orders>>
      /\ taken' = [taken EXCEPT !.gold = Add(@, GoldLoad)]
  BY DEF WalkBack
<1>3. Others'
  <2>1. taken' \in [gold : 0 .. USHORT - 1, lumber : 0 .. USHORT - 1]
    BY <1>1, <1>2, Resources, Numbers DEF Others
  <2> QED BY <1>1, <1>2, <2>1 DEF Others
<1>4. /\ Workers(out) /\ Only(w, worker, out)
      /\ out[w].move \in {"goldback", "stand"}
  BY <1>1, <1>2, LoadedSane, OneChanges
<1>5. /\ Cardinality(At(out, "minegold")) = Cardinality(At(worker, "minegold")) - 1
      /\ At(out, "wait") = At(worker, "wait")
  <2>1. Cardinality(At(out, "minegold")) = Cardinality(At(worker, "minegold")) - 1
    <3> HIDE DEF out
    <3> QED BY <1>2, <1>4, GoesOut
  <2>2. At(out, "wait") = At(worker, "wait")
    <3> HIDE DEF out
    <3> QED BY <1>2, <1>4 DEF At, Only
  <2> QED BY <2>1, <2>2
<1>6. /\ Cardinality(At(worker, "minegold")) \in Nat /\ stranded \in Nat
      /\ Cardinality(At(out, "minegold")) \in Nat
      /\ peonsinside = Cardinality(At(worker, "minegold")) + stranded
      /\ peonsinside \in 1 .. MiningCapacity
  <2>1. /\ Cardinality(At(worker, "minegold")) \in Nat /\ stranded \in Nat
        /\ Cardinality(At(out, "minegold")) \in Nat
        /\ peonsinside = Cardinality(At(worker, "minegold")) + stranded
        /\ peonsinside \in 0 .. MiningCapacity
    BY <1>1, AtFinite DEF Counted, Others
  <2> QED BY <1>5, <2>1, Numbers
<1>7. peonsinside' = peonsinside - 1 + Cardinality(Admitted(peonsinside - 1))
  BY DEF WalkBack
<1>8. worker' = [v \in Worker |->
             IF v = w THEN Loaded(w)
             ELSE IF v \in Admitted(peonsinside - 1)
                  THEN [worker[v] EXCEPT !.move = "minegold"] ELSE worker[v]]
  BY DEF WalkBack
<1>9. In("wait") = At(worker, "wait")
  BY DEF In, At
<1>10. CASE In("wait") = {}
  <2>1. Admitted(peonsinside - 1) = {}
    BY <1>10, NoneAdmitted
  <2>2. worker' = out
    BY <1>1, <1>8, <2>1 DEF Workers
  <2>3. peonsinside' = peonsinside - 1
    <3>1. Cardinality(Admitted(peonsinside - 1)) = 0
      BY <2>1, FS_EmptySet
    <3> QED BY <1>6, <1>7, <3>1
  <2> HIDE DEF out
  <2>4. peonsinside' = Cardinality(At(worker', "minegold")) + stranded'
    BY <1>2, <1>5, <1>6, <2>2, <2>3
  <2>5. peonsinside' \in 0 .. MiningCapacity
    BY <1>6, <2>3, Numbers
  <2>6. At(worker', "wait") = {}
    BY <1>5, <1>9, <1>10, <2>2
  <2> QED BY <1>3, <1>4, <2>2, <2>4, <2>5, <2>6, PartsNext DEF Counted
<1>11. CASE In("wait") # {}
  <2>1. peonsinside = MiningCapacity
    BY <1>1, <1>9, <1>11 DEF Counted
  <2>2. PICK m \in In("wait") : Admitted(peonsinside - 1) = {m}
    BY <1>11, <2>1, OneAdmitted
  <2>3. m \in Worker /\ m # w /\ worker[m].move = "wait" /\ out[m] = worker[m]
    BY <1>1, <1>2, <2>2 DEF In, Workers
  <2> DEFINE r == [worker[m] EXCEPT !.move = "minegold"]
  <2>4. Sane(r) /\ r.move = "minegold"
    <3>1. Sane(worker[m]) /\ worker[m].second = Mine
      BY <1>1, <2>3 DEF Workers, Sane, Gold
    <3> QED BY <3>1 DEF Sane, Record, Move, Gold, Lumber
  <2>5. worker' = [out EXCEPT ![m] = r]
    BY <1>1, <1>8, <2>2, <2>3 DEF Workers
  <2> HIDE DEF out, r
  <2>6. /\ Workers(worker') /\ Only(m, out, worker')
        /\ worker'[m].move = "minegold" /\ out[m].move # "minegold"
    <3>1. /\ Workers([out EXCEPT ![m] = r]) /\ Only(m, out, [out EXCEPT ![m] = r])
          /\ [out EXCEPT ![m] = r][m] = r
      BY <1>4, <2>3, <2>4, OneChanges
    <3>2. out[m].move = "wait"
      BY <2>3
    <3> QED BY <2>4, <2>5, <3>1, <3>2
  <2>7. Cardinality(At(worker', "minegold")) = Cardinality(At(out, "minegold")) + 1
    BY <2>3, <2>6, ComesIn
  <2>8. peonsinside' = peonsinside
    <3>1. Cardinality(Admitted(peonsinside - 1)) = 1
      BY <2>2, FS_Singleton
    <3> QED BY <1>6, <1>7, <3>1
  <2>9. peonsinside' = Cardinality(At(worker', "minegold")) + stranded'
    BY <1>2, <1>5, <1>6, <2>7, <2>8
  <2>10. peonsinside' \in 0 .. MiningCapacity
    BY <1>6, <2>8, Numbers
  <2> QED BY <1>3, <2>1, <2>6, <2>8, <2>9, <2>10, PartsNext DEF Counted
<1> QED BY <1>10, <1>11

LEMMA DeliverGoldKeeps ==
  ASSUME TypeOK, NEW w \in Worker, DeliverGold(w)
  PROVE  TypeOK'
<1> DEFINE r == [worker[w] EXCEPT !.move = "walkmine", !.gold = 0]
<1>1. Workers(worker) /\ Others
  BY Parts
<1>2. Sane(worker[w]) /\ worker[w].move = "goldback" /\ worker[w].second = Mine
  BY <1>1 DEF DeliverGold, Workers, Sane, Gold
<1>3. Sane(r) /\ r.move = "walkmine"
  BY <1>2 DEF Sane, Record, Move, Gold, Lumber
<1>4. worker' = [worker EXCEPT ![w] = r]
  BY <1>1 DEF DeliverGold, Workers
<1>5. UNCHANGED <<peonsinside, stranded>>
  BY DEF DeliverGold
<1>6. worker[w].gold \in Nat
  BY <1>2 DEF Sane, Record
<1>7. stats' \in [gold : 0 .. USHORT - 1, lumber : 0 .. USHORT - 1]
  BY <1>1, <1>6, Resources DEF DeliverGold, Others
<1>8. Others'
  BY <1>1, <1>7 DEF DeliverGold, Others
<1> HIDE DEF r
<1>9. Workers(worker') /\ Counted(worker', peonsinside', stranded')
  BY <1>2, <1>3, <1>4, <1>5, MineUntouched
<1> QED BY <1>8, <1>9, PartsNext

-----------------------------------------------------------------------------
(* Lumber.  A worker at it takes moves outside the mine only. *)

LEMMA LumberMove ==
  ASSUME TypeOK, NEW w \in Worker, worker[w].move \in Lumber,
         NEW move \in Lumber \cup {"stand"}, Sets(w, move),
         UNCHANGED <<peonsinside, stranded>>
  PROVE  Workers(worker') /\ Counted(worker', peonsinside', stranded')
<1>1. Workers(worker)
  BY Parts
<1>2. worker[w].second \in Tree /\ worker[w].move # "minegold"
  BY <1>1 DEF Workers, Sane, Lumber
<1>3. move \in Move /\ move \notin Gold /\ move \notin {"minegold", "wait"}
  BY DEF Move, Gold, Lumber
<1>4. PICK r : Sane(r) /\ r.move = move /\ worker' = [worker EXCEPT ![w] = r]
  BY <1>1, <1>2, <1>3, TakesMove
<1> QED BY <1>2, <1>3, <1>4, MineUntouched

LEMMA AnotherTree ==
  ASSUME TypeOK, NEW w \in Worker, worker[w].move \in Lumber,
         LookForAnotherTree(w), UNCHANGED <<peonsinside, stranded>>
  PROVE  Workers(worker') /\ Counted(worker', peonsinside', stranded')
<1>1. CASE Sets(w, "stand")
  BY <1>1, LumberMove
<1>2. ASSUME NEW t \in Tree, HarvestStart(w, t)
      PROVE  Workers(worker') /\ Counted(worker', peonsinside', stranded')
  <2>1. Workers(worker) /\ worker[w].move # "minegold"
    BY Parts DEF Lumber
  <2>2. PICK r : /\ Sane(r) /\ r.move \in {"walkmine", "walktree"}
                 /\ worker' = [worker EXCEPT ![w] = r]
    BY <1>2, <2>1, SetsOut
  <2> QED BY <2>1, <2>2, MineUntouched
<1> QED BY <1>1, <1>2 DEF LookForAnotherTree

LEMMA WalkTreeKeeps ==
  ASSUME TypeOK, NEW w \in Worker, WalkTree(w)
  PROVE  TypeOK'
<1>1. /\ worker[w].move \in Lumber
      /\ UNCHANGED <<peonsinside, trees, hall, stats, taken, stranded, orders>>
      /\ LookForAnotherTree(w) \/ Sets(w, "swing")
  BY DEF WalkTree, Lumber
<1>2. Workers(worker') /\ Counted(worker', peonsinside', stranded')
  BY <1>1, AnotherTree, LumberMove DEF Lumber
<1>3. Others'
  BY <1>1, Parts DEF Others
<1> QED BY <1>2, <1>3, PartsNext

LEMMA CoolDownKeeps ==
  ASSUME TypeOK, NEW w \in Worker, CoolDown(w)
  PROVE  TypeOK'
<1>1. /\ worker[w].move \in Lumber
      /\ UNCHANGED <<peonsinside, trees, hall, stats, taken, stranded, orders>>
      /\ \/ LookForAnotherTree(w)
         \/ \E move \in Lumber \cup {"stand"} : Sets(w, move)
  BY DEF CoolDown, Lumber, HomeOrStand
<1>2. Workers(worker') /\ Counted(worker', peonsinside', stranded')
  BY <1>1, AnotherTree, LumberMove
<1>3. Others'
  BY <1>1, Parts DEF Others
<1> QED BY <1>2, <1>3, PartsNext

LEMMA SwingKeeps ==
  ASSUME TypeOK, NEW w \in Worker, Swing(w)
  PROVE  TypeOK'
<1>1. /\ worker[w].move \in Lumber
      /\ UNCHANGED <<peonsinside, trees, hall, stats, taken, stranded, orders>>
      /\ Sets(w, "swing")
  BY DEF Swing, Lumber
<1>2. Workers(worker') /\ Counted(worker', peonsinside', stranded')
  BY <1>1, LumberMove DEF Lumber
<1>3. Others'
  BY <1>1, Parts DEF Others
<1> QED BY <1>2, <1>3, PartsNext

LEMMA ChopKeeps ==
  ASSUME TypeOK, NEW w \in Worker, Chop(w)
  PROVE  TypeOK'
<1> DEFINE t == worker[w].second
           cut == IF Dead(t) THEN 0 ELSE TreeDamage
           r == [worker[w] EXCEPT !.lumber = worker[w].lumber + cut,
                                  !.move = "swung"]
<1>1. Workers(worker) /\ Others
  BY Parts
<1>2. /\ worker[w].move = "swing"
      /\ worker' = [worker EXCEPT ![w].lumber = @ + cut, ![w].move = "swung"]
      /\ taken' = [taken EXCEPT !.lumber = Add(@, cut)]
      /\ trees' = [trees EXCEPT ![t] =
                     IF @ < TreeDamage THEN 0 ELSE @ - TreeDamage]
      /\ UNCHANGED <<peonsinside, hall, stats, stranded, orders>>
  BY DEF Chop
<1>3. Sane(worker[w]) /\ t \in Tree
  BY <1>1, <1>2 DEF Workers, Sane, Lumber
<1>4. cut \in Nat
  BY Numbers
<1>5. taken' \in [gold : 0 .. USHORT - 1, lumber : 0 .. USHORT - 1]
  <2> HIDE DEF cut
  <2> QED BY <1>1, <1>2, <1>4, Resources DEF Others
<1>6. trees' \in [Tree -> 0 .. TreeHealth]
  <2>1. \A n \in 0 .. TreeHealth :
          (IF n < TreeDamage THEN 0 ELSE n - TreeDamage) \in 0 .. TreeHealth
    BY Numbers
  <2>2. trees[t] \in 0 .. TreeHealth
    BY <1>1, <1>3 DEF Others
  <2> QED BY <1>1, <1>2, <1>3, <2>1, <2>2 DEF Others
<1>7. Others'
  BY <1>1, <1>2, <1>5, <1>6 DEF Others
<1> HIDE DEF cut
<1>8. Sane(r) /\ r.move = "swung"
  <2>1. worker[w].lumber + cut \in Nat
    BY <1>3, <1>4 DEF Sane, Record
  <2> QED BY <1>3, <2>1 DEF Sane, Record, Move, Gold, Lumber
<1>9. worker' = [worker EXCEPT ![w] = r]
  BY <1>1, <1>2 DEF Workers
<1> HIDE DEF r
<1>10. Workers(worker') /\ Counted(worker', peonsinside', stranded')
  BY <1>2, <1>8, <1>9, MineUntouched
<1> QED BY <1>7, <1>10, PartsNext

LEMMA DeliverLumberKeeps ==
  ASSUME TypeOK, NEW w \in Worker, DeliverLumber(w)
  PROVE  TypeOK'
<1> DEFINE r == [worker[w] EXCEPT !.move = "walktree", !.lumber = 0]
<1>1. Workers(worker) /\ Others
  BY Parts
<1>2. /\ Sane(worker[w]) /\ worker[w].move = "lumberback"
      /\ worker[w].second \in Tree
  BY <1>1 DEF DeliverLumber, Workers, Sane, Lumber
<1>3. Sane(r) /\ r.move = "walktree"
  BY <1>2 DEF Sane, Record, Move, Gold, Lumber
<1>4. worker' = [worker EXCEPT ![w] = r]
  BY <1>1 DEF DeliverLumber, Workers
<1>5. UNCHANGED <<peonsinside, stranded>>
  BY DEF DeliverLumber
<1>6. worker[w].lumber \in Nat
  BY <1>2 DEF Sane, Record
<1>7. stats' \in [gold : 0 .. USHORT - 1, lumber : 0 .. USHORT - 1]
  BY <1>1, <1>6, Resources DEF DeliverLumber, Others
<1>8. Others'
  BY <1>1, <1>7 DEF DeliverLumber, Others
<1> HIDE DEF r
<1>9. Workers(worker') /\ Counted(worker', peonsinside', stranded')
  BY <1>2, <1>3, <1>4, <1>5, MineUntouched
<1> QED BY <1>8, <1>9, PartsNext

-----------------------------------------------------------------------------
(* From outside. *)

(* Who is called away from the mine stays in its counter. *)
LEMMA LeavesKeeps ==
  ASSUME TypeOK, NEW w \in Worker, Leaves(w), NEW r, Sane(r),
         r.move \notin {"minegold", "wait"},
         worker' = [worker EXCEPT ![w] = r], peonsinside' = peonsinside
  PROVE  /\ Workers(worker') /\ Counted(worker', peonsinside', stranded')
         /\ stranded' \in Nat
<1>1. Workers(worker) /\ Counted(worker, peonsinside, stranded) /\ stranded \in Nat
  BY Parts DEF Others
<1>2. CASE worker[w].move # "minegold"
  BY <1>1, <1>2, MineUntouched DEF Leaves
<1>3. CASE worker[w].move = "minegold"
  <2>1. stranded' = stranded + 1
    BY <1>3 DEF Leaves
  <2>2. Workers(worker') /\ Only(w, worker, worker') /\ worker'[w] = r
    BY <1>1, OneChanges
  <2>3. /\ Cardinality(At(worker', "minegold")) = Cardinality(At(worker, "minegold")) - 1
        /\ Cardinality(At(worker, "minegold")) \in Nat
    BY <1>3, <2>2, GoesOut, AtFinite
  <2>4. At(worker', "wait") \subseteq At(worker, "wait")
    BY <2>2 DEF At, Only
  <2>5. peonsinside' = Cardinality(At(worker', "minegold")) + stranded'
    <3>1. peonsinside = Cardinality(At(worker, "minegold")) + stranded
      BY <1>1 DEF Counted
    <3> QED BY <1>1, <2>1, <2>3, <3>1
  <2>6. /\ peonsinside' \in 0 .. MiningCapacity
        /\ At(worker', "wait") # {} => peonsinside' = MiningCapacity
    BY <1>1, <2>4 DEF Counted
  <2>7. stranded' \in Nat
    BY <1>1, <2>1
  <2>8. Counted(worker', peonsinside', stranded')
    BY <2>5, <2>6 DEF Counted
  <2> QED BY <2>2, <2>7, <2>8
<1> QED BY <1>2, <1>3

LEMMA OutsideKeeps ==
  ASSUME orders \in 0 .. MaxOrders, Outside
  PROVE  orders' \in 0 .. MaxOrders
BY Numbers DEF Outside

LEMMA HarvestOrderKeeps ==
  ASSUME TypeOK, NEW w \in Worker, NEW target \in Tree \cup {Mine},
         HarvestOrder(w, target)
  PROVE  TypeOK'
<1>1. Workers(worker) /\ Others
  BY Parts
<1>2. PICK r : /\ Sane(r) /\ r.move \in {"walkmine", "walktree"}
               /\ worker' = [worker EXCEPT ![w] = r]
  BY <1>1, SetsOut DEF HarvestOrder
<1>3. /\ Workers(worker') /\ Counted(worker', peonsinside', stranded')
      /\ stranded' \in Nat
  BY <1>2, LeavesKeeps DEF HarvestOrder
<1>4. Others'
  BY <1>1, <1>3, OutsideKeeps DEF HarvestOrder, Others
<1> QED BY <1>3, <1>4, PartsNext

LEMMA OtherOrderKeeps ==
  ASSUME TypeOK, NEW w \in Worker, OtherOrder(w)
  PROVE  TypeOK'
<1>1. Workers(worker) /\ Others
  BY Parts
<1>2. PICK r : Sane(r) /\ r.move = "other" /\ worker' = [worker EXCEPT ![w] = r]
  BY <1>1, TakesMove DEF OtherOrder, Move, Gold, Lumber
<1>3. /\ Workers(worker') /\ Counted(worker', peonsinside', stranded')
      /\ stranded' \in Nat
  BY <1>2, LeavesKeeps DEF OtherOrder
<1>4. Others'
  BY <1>1, <1>3, OutsideKeeps DEF OtherOrder, Others
<1> QED BY <1>3, <1>4, PartsNext

LEMMA TownHallKeeps ==
  ASSUME TypeOK, TownHall
  PROVE  TypeOK'
<1>1. Workers(worker) /\ Counted(worker, peonsinside, stranded) /\ Others
  BY Parts
<1>2. Workers(worker') /\ Counted(worker', peonsinside', stranded')
  BY <1>1 DEF TownHall
<1>3. Others'
  BY <1>1, OutsideKeeps DEF TownHall, Others
<1> QED BY <1>2, <1>3, PartsNext

-----------------------------------------------------------------------------
LEMMA InitHolds ==
  ASSUME Init
  PROVE  TypeOK
<1>1. Workers(worker)
  BY Numbers DEF Init, Workers, Sane, Record, Move, Gold, Lumber
<1>2. At(worker, "minegold") = {} /\ At(worker, "wait") = {}
  BY DEF Init, At
<1>3. Counted(worker, peonsinside, stranded)
  <2>1. Cardinality(At(worker, "minegold")) = 0
    BY <1>2, FS_EmptySet
  <2> QED BY <1>2, <2>1, Numbers DEF Init, Counted
<1>4. Others
  BY Numbers DEF Init, Others
<1> QED BY <1>1, <1>3, <1>4, Parts

LEMMA StepKeeps ==
  ASSUME TypeOK, [Next]_vars
  PROVE  TypeOK'
<1>1. ASSUME NEW w \in Worker, Think(w)
      PROVE  TypeOK'
  BY <1>1, WalkMineKeeps, WalkBackKeeps, DeliverGoldKeeps, WalkTreeKeeps,
     ChopKeeps, CoolDownKeeps, SwingKeeps, DeliverLumberKeeps DEF Think
<1>2. ASSUME NEW w \in Worker, OtherOrder(w)
      PROVE  TypeOK'
  BY <1>2, OtherOrderKeeps
<1>3. ASSUME NEW w \in Worker, NEW target \in Tree \cup {Mine},
             HarvestOrder(w, target)
      PROVE  TypeOK'
  BY <1>3, HarvestOrderKeeps
<1>4. CASE TownHall
  BY <1>4, TownHallKeeps
<1>5. CASE UNCHANGED vars
  <2>1. Workers(worker) /\ Counted(worker, peonsinside, stranded) /\ Others
    BY Parts
  <2>2. Workers(worker') /\ Counted(worker', peonsinside', stranded') /\ Others'
    BY <1>5, <2>1 DEF vars, Others
  <2> QED BY <2>2, PartsNext
<1> QED BY <1>1, <1>2, <1>3, <1>4, <1>5 DEF Next

(* The mine's counter counts those inside and those called away from       *)
(* inside, is never above the capacity, and is at it while anybody waits   *)
(* (harvestgold_minegold, harvestgold_walkback); with the types of all.    *)
THEOREM MineCounted == Spec => []TypeOK
<1>1. Init => TypeOK
  BY InitHolds
<1>2. TypeOK /\ [Next]_vars => TypeOK'
  BY StepKeeps
<1> QED BY <1>1, <1>2, PTL DEF Spec
-----------------------------------------------------------------------------
(* Quotient and remainder. *)

LEMMA DivMod ==
  ASSUME NEW x \in Int, NEW n \in Nat \ {0}
  PROVE  /\ x \div n \in Int
         /\ x % n \in 0 .. n - 1
         /\ x = n * (x \div n) + (x % n)
BY SMT

(* A quotient is unique, and so is its remainder. *)
LEMMA DivisionIs ==
  ASSUME NEW x \in Int, NEW n \in Nat \ {0}, NEW q \in Int,
         NEW r \in 0 .. n - 1, x = n * q + r
  PROVE  x \div n = q /\ x % n = r
<1> DEFINE a == x \div n
           t == x % n
<1>1. a \in Int /\ t \in 0 .. n - 1 /\ x = n * a + t
  BY DivMod
<1> SUFFICES a = q /\ t = r
  OBVIOUS
<1> HIDE DEF a, t
<1>2. \A c \in Int : c >= 1 => n * c >= n
  BY SMT
<1>3. CASE a = q
  BY <1>1, <1>3
<1>4. CASE a < q
  <2>1. n * (q - a) >= n
    BY <1>1, <1>2, <1>4
  <2>2. n * q - n * a = n * (q - a)
    BY <1>1, SMT
  <2> QED BY <1>1, <2>1, <2>2
<1>5. CASE q < a
  <2>1. n * (a - q) >= n
    BY <1>1, <1>2, <1>5
  <2>2. n * a - n * q = n * (a - q)
    BY <1>1, SMT
  <2> QED BY <1>1, <2>1, <2>2
<1> QED BY <1>1, <1>3, <1>4, <1>5

(* Wrapping first makes no difference to a sum. *)
LEMMA AddWrapped ==
  ASSUME NEW a \in Nat, NEW b \in Nat
  PROVE  /\ Add(a % USHORT, b) = (a + b) % USHORT
         /\ a % USHORT \in 0 .. USHORT - 1
<1> DEFINE n == USHORT
           m == a % n
           q == a \div n
           s == (a + b) % n
           p == (a + b) \div n
           d == p - q
<1>0. n \in Nat \ {0}
  BY Numbers
<1>1. q \in Int /\ m \in 0 .. n - 1 /\ a = n * q + m
  BY <1>0, DivMod
<1>2. p \in Int /\ s \in 0 .. n - 1 /\ a + b = n * p + s
  BY <1>0, DivMod
<1>3. m \in Nat /\ m + b \in Nat /\ d \in Int
  BY <1>0, <1>1, <1>2
<1>4. Add(m, b) = (m + b) % n
  BY DEF Add
<1> HIDE DEF n, m, q, s, p
<1>5. m + b = n * d + s
  <2>1. n * (p - q) = n * p - n * q
    BY <1>0, <1>1, <1>2, SMT
  <2>2. n * p \in Int /\ n * q \in Int
    BY <1>0, <1>1, <1>2, SMT
  <2> QED BY <1>0, <1>1, <1>2, <1>3, <2>1, <2>2
<1> DEFINE c == m + b
<1>6. c \in Int /\ c = n * d + s
  BY <1>3, <1>5
<1> HIDE DEF c, d
<1>7. c % n = s
  BY <1>0, <1>2, <1>3, <1>6, DivisionIs
<1> QED BY <1>1, <1>4, <1>7 DEF c, m, n, s

LEMMA AddAdd ==
  ASSUME NEW a \in Nat, NEW b \in Nat, NEW c \in Nat
  PROVE  Add(Add(a, b), c) = Add(a, b + c)
<1> DEFINE d == a + b
<1>1. d \in Nat /\ Add(a, b) = d % USHORT /\ Add(a, b + c) = (d + c) % USHORT
  BY DEF Add
<1> HIDE DEF d
<1> QED BY <1>1, AddWrapped

(* What a blow does to the number of blows a tree still takes. *)
LEMMA Struck ==
  ASSUME NEW n \in Nat, n > 0
  PROVE  LET after == IF n < TreeDamage THEN 0 ELSE n - TreeDamage
         IN /\ Strokes(n) \in Nat /\ Strokes(after) \in Nat
            /\ Strokes(after) = Strokes(n) - 1
<1> DEFINE D == TreeDamage
<1>0. D \in Nat \ {0}
  BY HarvestAssumption
<1> HIDE DEF D
<1>1. Strokes(0) = 0
  <2>1. 0 + D - 1 \in Int /\ 0 + D - 1 = D * 0 + (D - 1) /\ D - 1 \in 0 .. D - 1
    BY <1>0
  <2> DEFINE x == 0 + D - 1
             r == D - 1
  <2>2. x \in Int /\ x = D * 0 + r /\ r \in 0 .. D - 1
    BY <2>1
  <2> HIDE DEF x, r
  <2>3. x \div D = 0
    BY <1>0, <2>2, DivisionIs
  <2> QED BY <2>3 DEF x, Strokes, D
<1>2. CASE n < D
  <2> DEFINE x == n + D - 1
             r == n - 1
  <2>1. x \in Int /\ r \in 0 .. D - 1 /\ x = D * 1 + r
    BY <1>0, <1>2
  <2> HIDE DEF x, r
  <2>2. x \div D = 1
    BY <1>0, <2>1, DivisionIs
  <2>3. Strokes(n) = 1
    BY <2>2 DEF x, Strokes, D
  <2> QED BY <1>1, <1>2, <2>3 DEF D
<1>3. CASE ~(n < D)
  <2> DEFINE x == n - D + D - 1
             y == n + D - 1
             q == x \div D
             r == x % D
             p == q + 1
  <2>1. x \in Nat /\ y = x + D /\ y \in Int
    BY <1>0, <1>3
  <2> HIDE DEF x, y
  <2>2. q \in Int /\ r \in 0 .. D - 1 /\ x = D * q + r
    BY <1>0, <2>1, DivMod
  <2> HIDE DEF q, r
  <2>3. D * (q + 1) = D * q + D /\ D * q \in Int
    BY <1>0, <2>2, SMT
  <2>4. p \in Int /\ y = D * p + r
    BY <1>0, <2>1, <2>2, <2>3
  <2>5. p >= 1
    <3>1. CASE q < 0
      <4>1. \A c \in Int : c < 0 => D * c <= - D
        BY <1>0, SMT
      <4> QED BY <1>0, <2>1, <2>2, <2>3, <3>1, <4>1
    <3> QED BY <2>2, <3>1
  <2> HIDE DEF p
  <2>6. y \div D = p
    BY <1>0, <2>1, <2>2, <2>4, DivisionIs
  <2>7. Strokes(n) = p /\ Strokes(n - D) = q
    BY <2>6 DEF x, y, q, Strokes, D
  <2>8. q = p - 1 /\ p \in Nat /\ q \in Nat
    BY <2>2, <2>4, <2>5 DEF p
  <2> QED BY <1>3, <2>7, <2>8 DEF D
<1> QED BY <1>2, <1>3

-----------------------------------------------------------------------------
(* Sums.  The pieces of each index lie apart from those of all others.     *)

Part(k, n) == {k} \X (1 .. n)

LEMMA PartCount ==
  ASSUME NEW k, NEW n \in Nat
  PROVE  /\ IsFiniteSet(Part(k, n)) /\ Cardinality(Part(k, n)) = n
         /\ \A p \in Part(k, n) : p[1] = k
<1>1. IsFiniteSet({k}) /\ Cardinality({k}) = 1
  BY FS_Singleton
<1>2. IsFiniteSet(1 .. n) /\ Cardinality(1 .. n) = n
  <2>1. IsFiniteSet(1 .. n) /\ Cardinality(1 .. n) = IF 1 > n THEN 0 ELSE n - 1 + 1
    BY FS_Interval
  <2> QED BY <2>1
<1> DEFINE I == 1 .. n
<1> HIDE DEF I
<1>3. IsFiniteSet({k} \X I) /\ Cardinality({k} \X I) = 1 * n
  BY <1>1, <1>2, FS_Product DEF I
<1>4. \A p \in Part(k, n) : p[1] = k
  BY DEF Part
<1> QED BY <1>3, <1>4 DEF Part, I

(* When one number changes, the sum changes by as much. *)
LEMMA SumChanges ==
  ASSUME NEW K, NEW load \in [K -> Nat], NEW k \in K, NEW n \in Nat,
         IsFiniteSet(Pieces(load))
  PROVE  LET new == [load EXCEPT ![k] = n]
         IN /\ IsFiniteSet(Pieces(new))
            /\ Sum(load) \in Nat /\ Sum(load) - load[k] \in Nat
            /\ Sum(new) = Sum(load) - load[k] + n
<1> DEFINE new == [load EXCEPT ![k] = n]
           Rest == UNION {Part(j, load[j]) : j \in K \ {k}}
<1>1. Pieces(load) = Rest \cup Part(k, load[k])
  BY DEF Pieces, Part
<1>2. Pieces(new) = Rest \cup Part(k, n)
  <2>1. DOMAIN new = K /\ new[k] = n /\ \A j \in K \ {k} : new[j] = load[j]
    OBVIOUS
  <2> HIDE DEF new
  <2> QED BY <2>1 DEF Pieces, Part
<1>3. \A p \in Rest : p[1] # k
  <2>1. ASSUME NEW j \in K \ {k}, NEW p \in Part(j, load[j])
        PROVE  p[1] # k
    <3>1. load[j] \in Nat
      OBVIOUS
    <3>2. p[1] = j
      BY <2>1, <3>1, PartCount
    <3> QED BY <3>2
  <2> QED BY <2>1
<1>4. /\ IsFiniteSet(Part(k, load[k])) /\ Cardinality(Part(k, load[k])) = load[k]
      /\ IsFiniteSet(Part(k, n)) /\ Cardinality(Part(k, n)) = n
      /\ \A p \in Part(k, load[k]) : p[1] = k
      /\ \A p \in Part(k, n) : p[1] = k
      /\ load[k] \in Nat
  BY PartCount
<1> HIDE DEF Rest, new
<1>5. IsFiniteSet(Rest)
  <2>1. Rest \subseteq Pieces(load)
    BY <1>1
  <2> QED BY <2>1, FS_Subset
<1>6. Rest \cap Part(k, load[k]) = {} /\ Rest \cap Part(k, n) = {}
  BY <1>3, <1>4
<1>7. Cardinality({}) = 0 /\ Cardinality(Rest) \in Nat
  BY <1>5, FS_EmptySet, FS_CardinalityType
<1>8. Cardinality(Pieces(load)) = Cardinality(Rest) + load[k]
  <2>1. Cardinality(Rest \cup Part(k, load[k]))
          = Cardinality(Rest) + load[k] - Cardinality({})
    BY <1>4, <1>5, <1>6, FS_Union
  <2> QED BY <1>1, <1>4, <1>7, <2>1
<1>9. /\ IsFiniteSet(Pieces(new))
      /\ Cardinality(Pieces(new)) = Cardinality(Rest) + n
  <2>1. /\ Cardinality(Rest \cup Part(k, n))
             = Cardinality(Rest) + n - Cardinality({})
        /\ IsFiniteSet(Rest \cup Part(k, n))
    BY <1>4, <1>5, <1>6, FS_Union
  <2> QED BY <1>2, <1>7, <2>1
<1>10. /\ IsFiniteSet(Pieces(new))
       /\ Sum(load) \in Nat /\ Sum(load) - load[k] \in Nat
       /\ Sum(new) = Sum(load) - load[k] + n
  BY <1>4, <1>7, <1>8, <1>9 DEF Sum
<1> QED BY <1>10 DEF new

LEMMA SumOfNothing ==
  ASSUME NEW K
  PROVE  /\ IsFiniteSet(Pieces([k \in K |-> 0]))
         /\ Sum([k \in K |-> 0]) = 0
<1>1. Pieces([k \in K |-> 0]) = {}
  BY DEF Pieces
<1> QED BY <1>1, FS_EmptySet DEF Sum

-----------------------------------------------------------------------------
(* What is kept: the books of one kind of load, and those of the trees.    *)

Booked(load, had, took) ==
  /\ load \in [Worker -> Nat] /\ IsFiniteSet(Pieces(load))
  /\ took = Add(had, Sum(load))

Given(load, took) ==
  /\ load \in [Tree -> Nat] /\ IsFiniteSet(Pieces(load))
  /\ took = Sum(load) % USHORT

LEMMA Takes ==
  ASSUME NEW load, NEW had \in Nat, NEW took, Booked(load, had, took),
         NEW w \in Worker, NEW n \in Nat
  PROVE  Booked([load EXCEPT ![w] = load[w] + n], had, Add(took, n))
<1> DEFINE m == load[w] + n
           new == [load EXCEPT ![w] = m]
<1>1. load \in [Worker -> Nat] /\ load[w] \in Nat /\ m \in Nat
  BY DEF Booked
<1> HIDE DEF m
<1>2. /\ IsFiniteSet(Pieces(new)) /\ Sum(load) \in Nat
      /\ Sum(new) = Sum(load) - load[w] + m
  BY <1>1, SumChanges DEF Booked
<1>3. new \in [Worker -> Nat]
  BY <1>1
<1> HIDE DEF new
<1>4. Sum(new) = Sum(load) + n
  BY <1>1, <1>2 DEF m
<1>5. Add(took, n) = Add(had, Sum(new))
  BY <1>2, <1>4, AddAdd DEF Booked
<1> QED BY <1>2, <1>3, <1>5 DEF Booked, new, m

LEMMA Brings ==
  ASSUME NEW load, NEW had \in Nat, NEW took, Booked(load, had, took),
         NEW w \in Worker
  PROVE  Booked([load EXCEPT ![w] = 0], Add(had, load[w]), took)
<1> DEFINE z == 0
           new == [load EXCEPT ![w] = z]
<1>1. load \in [Worker -> Nat] /\ load[w] \in Nat /\ z \in Nat
  BY DEF Booked
<1> HIDE DEF z
<1>2. /\ IsFiniteSet(Pieces(new)) /\ Sum(load) \in Nat
      /\ Sum(load) - load[w] \in Nat
      /\ Sum(new) = Sum(load) - load[w] + z
  BY <1>1, SumChanges DEF Booked
<1>3. new \in [Worker -> Nat]
  BY <1>1
<1> HIDE DEF new
<1>4. Sum(new) \in Nat /\ Sum(load) = load[w] + Sum(new)
  BY <1>1, <1>2 DEF z
<1>5. took = Add(Add(had, load[w]), Sum(new))
  BY <1>1, <1>4, AddAdd DEF Booked
<1> QED BY <1>2, <1>3, <1>5 DEF Booked, new, z

LEMMA Gives ==
  ASSUME NEW load, NEW took, Given(load, took), NEW t \in Tree, NEW n \in Nat
  PROVE  Given([load EXCEPT ![t] = load[t] + n], Add(took, n))
<1> DEFINE m == load[t] + n
           new == [load EXCEPT ![t] = m]
<1>1. load \in [Tree -> Nat] /\ load[t] \in Nat /\ m \in Nat
  BY DEF Given
<1> HIDE DEF m
<1>2. /\ IsFiniteSet(Pieces(new)) /\ Sum(load) \in Nat
      /\ Sum(new) = Sum(load) - load[t] + m
  BY <1>1, SumChanges DEF Given
<1>3. new \in [Tree -> Nat]
  BY <1>1
<1> HIDE DEF new
<1>4. Sum(new) = Sum(load) + n
  BY <1>1, <1>2 DEF m
<1>5. Add(took, n) = Sum(new) % USHORT
  BY <1>2, <1>4, AddWrapped DEF Given
<1> QED BY <1>2, <1>3, <1>5 DEF Given, new, m

(* The inductive invariant. *)
Books ==
  /\ Booked(Carried("gold"), stats.gold, taken.gold)
  /\ Booked(Carried("lumber"), stats.lumber, taken.lumber)
  /\ Given(Felled, taken.lumber)
  /\ \A t \in Tree : /\ Strokes(trees[t]) \in Nat
                     /\ Strokes(TreeHealth) - Strokes(trees[t]) \in Nat

IInv == TypeOK /\ Books

LEMMA Amounts ==
  ASSUME TypeOK
  PROVE  /\ stats.gold \in Nat /\ stats.lumber \in Nat
         /\ taken.gold \in Nat /\ taken.lumber \in Nat
         /\ \A w \in Worker : /\ worker[w] \in Record
                              /\ worker[w].gold \in Nat
                              /\ worker[w].lumber \in Nat
         /\ worker \in [Worker -> Record]
         /\ trees \in [Tree -> Nat]
<1>1. 0 .. USHORT - 1 \subseteq Nat /\ 0 .. TreeHealth \subseteq Nat
  BY Numbers
<1>2. Workers(worker) /\ Others
  BY Parts
<1> QED BY <1>1, <1>2 DEF Workers, Record, Others

(* A step that loads nobody, and fells nothing. *)
LEMMA BooksStay ==
  ASSUME Books, UNCHANGED <<stats, taken, trees>>,
         \A w \in Worker : /\ worker'[w].gold = worker[w].gold
                           /\ worker'[w].lumber = worker[w].lumber
  PROVE  Books'
<1>1. Carried("gold")' = Carried("gold")
  BY DEF Carried
<1>2. Carried("lumber")' = Carried("lumber")
  BY DEF Carried
<1>3. Felled' = Felled
  BY DEF Felled, Strokes
<1> QED BY <1>1, <1>2, <1>3 DEF Books, Booked, Given, Strokes

LEMMA MovesLoaded ==
  ASSUME TypeOK, NEW w \in Worker, NEW move, Sets(w, move), NEW v \in Worker
  PROVE  worker'[v].gold = worker[v].gold /\ worker'[v].lumber = worker[v].lumber
<1>1. worker \in [Worker -> Record] /\ worker[w] \in Record
  BY Amounts
<1>2. /\ [worker[w] EXCEPT !.move = move].gold = worker[w].gold
      /\ [worker[w] EXCEPT !.move = move].lumber = worker[w].lumber
  BY <1>1 DEF Record
<1> QED BY <1>1, <1>2 DEF Sets

LEMMA SetsOutLoaded ==
  ASSUME TypeOK, NEW w \in Worker, NEW target, HarvestStart(w, target),
         NEW v \in Worker
  PROVE  worker'[v].gold = worker[v].gold /\ worker'[v].lumber = worker[v].lumber
<1> DEFINE move == IF target = Mine THEN "walkmine" ELSE "walktree"
           r == [worker[w] EXCEPT !.second = target, !.move = move]
<1>1. worker \in [Worker -> Record] /\ worker[w] \in Record
  BY Amounts
<1>2. worker' = [worker EXCEPT ![w] = r]
  BY <1>1 DEF HarvestStart
<1> HIDE DEF move
<1>3. r.gold = worker[w].gold /\ r.lumber = worker[w].lumber
  BY <1>1 DEF Record
<1> QED BY <1>1, <1>2, <1>3

LEMMA AnotherTreeLoaded ==
  ASSUME TypeOK, NEW w \in Worker, LookForAnotherTree(w), NEW v \in Worker
  PROVE  worker'[v].gold = worker[v].gold /\ worker'[v].lumber = worker[v].lumber
BY MovesLoaded, SetsOutLoaded DEF LookForAnotherTree

-----------------------------------------------------------------------------
(* The steps that load, cut and deliver. *)

LEMMA WalkBackBooks ==
  ASSUME TypeOK, Books, NEW w \in Worker, WalkBack(w)
  PROVE  Books'
<1> DEFINE g == Carried("gold")
           new == [g EXCEPT ![w] = g[w] + GoldLoad]
<1>1. /\ worker \in [Worker -> Record] /\ \A v \in Worker : worker[v] \in Record
      /\ stats.gold \in Nat
  BY Amounts
<1>2. Loaded(w).gold = worker[w].gold + GoldLoad /\ Loaded(w).lumber = worker[w].lumber
  BY <1>1 DEF Loaded, Record
<1>3. \A v \in Worker : /\ [worker[v] EXCEPT !.move = "minegold"].gold = worker[v].gold
                        /\ [worker[v] EXCEPT !.move = "minegold"].lumber
                             = worker[v].lumber
  BY <1>1 DEF Record
<1>4. /\ \A v \in Worker : /\ worker'[v].gold = IF v = w THEN worker[w].gold + GoldLoad
                                                         ELSE worker[v].gold
                           /\ worker'[v].lumber = worker[v].lumber
      /\ taken' = [taken EXCEPT !.gold = Add(@, GoldLoad)]
      /\ UNCHANGED <<stats, trees>>
  BY <1>2, <1>3 DEF WalkBack
<1>5. Carried("gold")' = new
  BY <1>4 DEF Carried
<1>6. Carried("lumber")' = Carried("lumber")
  BY <1>4 DEF Carried
<1>7. taken'.gold = Add(taken.gold, GoldLoad) /\ taken'.lumber = taken.lumber
  <2>1. taken \in [gold : 0 .. USHORT - 1, lumber : 0 .. USHORT - 1]
    BY DEF TypeOK
  <2> QED BY <1>4, <2>1
<1>8. Booked(new, stats.gold, Add(taken.gold, GoldLoad))
  BY <1>1, Takes, Numbers DEF Books
<1>9. Felled' = Felled
  BY <1>4 DEF Felled, Strokes
<1> HIDE DEF new
<1> QED BY <1>4, <1>5, <1>6, <1>7, <1>8, <1>9 DEF Books, Booked, Given, Strokes

LEMMA DeliverGoldBooks ==
  ASSUME TypeOK, Books, NEW w \in Worker, DeliverGold(w)
  PROVE  Books'
<1> DEFINE g == Carried("gold")
           new == [g EXCEPT ![w] = 0]
           r == [worker[w] EXCEPT !.move = "walkmine", !.gold = 0]
<1>1. /\ worker \in [Worker -> Record] /\ worker[w] \in Record
      /\ stats.gold \in Nat
  BY Amounts
<1>2. worker' = [worker EXCEPT ![w] = r]
  BY <1>1 DEF DeliverGold
<1>3. r.gold = 0 /\ r.lumber = worker[w].lumber
  BY <1>1 DEF Record
<1> HIDE DEF r
<1>4. Carried("gold")' = new
  BY <1>1, <1>2, <1>3 DEF Carried
<1>5. Carried("lumber")' = Carried("lumber")
  BY <1>1, <1>2, <1>3 DEF Carried
<1>6. stats'.gold = Add(stats.gold, g[w]) /\ stats'.lumber = stats.lumber
  <2>1. stats \in [gold : 0 .. USHORT - 1, lumber : 0 .. USHORT - 1]
    BY DEF TypeOK
  <2> QED BY <2>1 DEF DeliverGold, Carried
<1>7. Booked(new, Add(stats.gold, g[w]), taken.gold)
  BY <1>1, Brings DEF Books
<1>8. Felled' = Felled /\ UNCHANGED <<taken, trees>>
  BY DEF DeliverGold, Felled, Strokes
<1> HIDE DEF new, g
<1> QED BY <1>4, <1>5, <1>6, <1>7, <1>8 DEF Books, Booked, Given, Strokes

LEMMA DeliverLumberBooks ==
  ASSUME TypeOK, Books, NEW w \in Worker, DeliverLumber(w)
  PROVE  Books'
<1> DEFINE l == Carried("lumber")
           new == [l EXCEPT ![w] = 0]
           r == [worker[w] EXCEPT !.move = "walktree", !.lumber = 0]
<1>1. /\ worker \in [Worker -> Record] /\ worker[w] \in Record
      /\ stats.lumber \in Nat
  BY Amounts
<1>2. worker' = [worker EXCEPT ![w] = r]
  BY <1>1 DEF DeliverLumber
<1>3. r.lumber = 0 /\ r.gold = worker[w].gold
  BY <1>1 DEF Record
<1> HIDE DEF r
<1>4. Carried("lumber")' = new
  BY <1>1, <1>2, <1>3 DEF Carried
<1>5. Carried("gold")' = Carried("gold")
  BY <1>1, <1>2, <1>3 DEF Carried
<1>6. stats'.lumber = Add(stats.lumber, l[w]) /\ stats'.gold = stats.gold
  <2>1. stats \in [gold : 0 .. USHORT - 1, lumber : 0 .. USHORT - 1]
    BY DEF TypeOK
  <2> QED BY <2>1 DEF DeliverLumber, Carried
<1>7. Booked(new, Add(stats.lumber, l[w]), taken.lumber)
  BY <1>1, Brings DEF Books
<1>8. Felled' = Felled /\ UNCHANGED <<taken, trees>>
  BY DEF DeliverLumber, Felled, Strokes
<1> HIDE DEF new, l
<1> QED BY <1>4, <1>5, <1>6, <1>7, <1>8 DEF Books, Booked, Given, Strokes

(* A blow that meets a live tree: one blow less is left in it. *)
LEMMA ChopFelled ==
  ASSUME TypeOK, Books, NEW w \in Worker, Chop(w)
  PROVE  LET t == worker[w].second
             cut == IF Dead(t) THEN 0 ELSE TreeDamage
         IN /\ t \in Tree /\ cut \in Nat
            /\ Felled' = [Felled EXCEPT ![t] = Felled[t] + cut]
            /\ \A u \in Tree : /\ Strokes(trees'[u]) \in Nat
                               /\ Strokes(TreeHealth) - Strokes(trees'[u]) \in Nat
<1> DEFINE t == worker[w].second
           cut == IF Dead(t) THEN 0 ELSE TreeDamage
           h == trees[t]
           after == IF h < TreeDamage THEN 0 ELSE h - TreeDamage
<1>1. t \in Tree /\ h \in Nat /\ trees \in [Tree -> Nat]
  <2>1. Workers(worker) /\ worker[w].move = "swing"
    BY Parts DEF Chop
  <2>2. t \in Tree
    BY <2>1 DEF Workers, Sane, Lumber
  <2> QED BY <2>2, Amounts
<1>2. trees' = [trees EXCEPT ![t] = after]
  BY <1>1 DEF Chop
<1>3. cut \in Nat
  BY Numbers
<1>4. /\ Strokes(h) \in Nat /\ Strokes(TreeHealth) - Strokes(h) \in Nat
      /\ Felled[t] = TreeDamage * (Strokes(TreeHealth) - Strokes(h))
  BY <1>1 DEF Books, Felled
<1> DEFINE left == Strokes(TreeHealth) - Strokes(after)
<1>5. /\ Strokes(after) \in Nat /\ left \in Nat
      /\ TreeDamage * left = Felled[t] + cut
  <2>1. CASE h = 0
    <3>1. after = h /\ cut = 0
      BY <2>1, Numbers DEF Dead
    <3>2. Felled[t] \in Nat
      BY <1>1 DEF Books, Given
    <3> HIDE DEF after, cut, h
    <3> QED BY <1>4, <3>1, <3>2
  <2>2. CASE h > 0
    <3>1. /\ Strokes(after) = Strokes(h) - 1
          /\ Strokes(h) \in Nat /\ Strokes(after) \in Nat
      BY <1>1, <2>2, Struck
    <3>2. cut = TreeDamage
      BY <2>2 DEF Dead
    <3> DEFINE s == Strokes(h)
               S == Strokes(TreeHealth)
               a == Strokes(after)
    <3>3. s \in Nat /\ a \in Nat /\ S - s \in Nat /\ a = s - 1 /\ left = S - a
      BY <1>4, <3>1
    <3>4. S \in Nat
      BY Struck, HarvestAssumption
    <3> HIDE DEF s, S, a, left
    <3>5. left \in Nat /\ left = (S - s) + 1 /\ S - s \in Nat
      BY <3>3, <3>4
    <3> DEFINE e == S - s
    <3>6. TreeDamage * (e + 1) = TreeDamage * e + TreeDamage
      BY <3>5, Numbers, SMT
    <3>7. Felled[t] = TreeDamage * e
      BY <1>4 DEF s, S
    <3> QED BY <3>2, <3>3, <3>5, <3>6, <3>7 DEF a
  <2> QED BY <1>1, <2>1, <2>2
<1>6. Felled' = [Felled EXCEPT ![t] = Felled[t] + cut]
  <2>1. Felled' = [u \in Tree |->
                     TreeDamage * (Strokes(TreeHealth) - Strokes(trees'[u]))]
    BY DEF Felled, Strokes
  <2>2. \A u \in Tree : trees'[u] = IF u = t THEN after ELSE trees[u]
    BY <1>1, <1>2
  <2> HIDE DEF after, h, t, cut
  <2>3. ASSUME NEW u \in Tree
        PROVE  TreeDamage * (Strokes(TreeHealth) - Strokes(trees'[u]))
                 = [Felled EXCEPT ![t] = Felled[t] + cut][u]
    <3>1. CASE u = t
      BY <1>1, <1>5, <2>2, <3>1 DEF Felled
    <3>2. CASE u # t
      BY <2>2, <3>2 DEF Felled
    <3> QED BY <3>1, <3>2
  <2> QED BY <2>1, <2>3 DEF Felled
<1>7. \A u \in Tree : /\ Strokes(trees'[u]) \in Nat
                      /\ Strokes(TreeHealth) - Strokes(trees'[u]) \in Nat
  <2> HIDE DEF after, h
  <2> QED BY <1>1, <1>2, <1>5 DEF Books
<1> QED BY <1>1, <1>3, <1>6, <1>7

LEMMA ChopBooks ==
  ASSUME TypeOK, Books, NEW w \in Worker, Chop(w)
  PROVE  Books'
<1> DEFINE t == worker[w].second
           cut == IF Dead(t) THEN 0 ELSE TreeDamage
           l == Carried("lumber")
           new == [l EXCEPT ![w] = l[w] + cut]
           r == [worker[w] EXCEPT !.lumber = worker[w].lumber + cut,
                                  !.move = "swung"]
<1>1. /\ t \in Tree /\ cut \in Nat
      /\ Felled' = [Felled EXCEPT ![t] = Felled[t] + cut]
      /\ \A u \in Tree : /\ Strokes(trees'[u]) \in Nat
                         /\ Strokes(TreeHealth) - Strokes(trees'[u]) \in Nat
  BY ChopFelled
<1>2. /\ worker' = [worker EXCEPT ![w].lumber = @ + cut, ![w].move = "swung"]
      /\ taken' = [taken EXCEPT !.lumber = Add(@, cut)]
      /\ stats' = stats
  BY DEF Chop
<1>3. /\ worker \in [Worker -> Record] /\ worker[w] \in Record
      /\ stats.lumber \in Nat
  BY Amounts
<1> HIDE DEF cut
<1>4. worker' = [worker EXCEPT ![w] = r]
  BY <1>2, <1>3
<1>5. r.lumber = worker[w].lumber + cut /\ r.gold = worker[w].gold
  BY <1>3 DEF Record
<1> HIDE DEF r, t
<1>6. Carried("lumber")' = new
  BY <1>3, <1>4, <1>5 DEF Carried
<1>7. Carried("gold")' = Carried("gold")
  BY <1>3, <1>4, <1>5 DEF Carried
<1>8. taken'.lumber = Add(taken.lumber, cut) /\ taken'.gold = taken.gold
  <2>1. taken \in [gold : 0 .. USHORT - 1, lumber : 0 .. USHORT - 1]
    BY DEF TypeOK
  <2> QED BY <1>2, <2>1
<1>9. Booked(new, stats.lumber, Add(taken.lumber, cut))
  BY <1>1, <1>3, Takes DEF Books
<1>10. Given([Felled EXCEPT ![t] = Felled[t] + cut], Add(taken.lumber, cut))
  BY <1>1, Gives DEF Books
<1> HIDE DEF new, l
<1>11. Booked(Carried("gold"), stats.gold, taken.gold)
  BY DEF Books
<1>12. /\ Booked(Carried("gold")', stats'.gold, taken'.gold)
       /\ Booked(Carried("lumber")', stats'.lumber, taken'.lumber)
       /\ Given(Felled', taken'.lumber)
  BY <1>1, <1>2, <1>6, <1>7, <1>8, <1>9, <1>10, <1>11
<1> QED BY <1>1, <1>12 DEF Books, Booked, Given, Strokes

-----------------------------------------------------------------------------
LEMMA BooksInit ==
  ASSUME Init
  PROVE  Books
<1>1. Carried("gold") = [w \in Worker |-> 0] /\ Carried("lumber") = [w \in Worker |-> 0]
  BY DEF Init, Carried
<1>2. Strokes(TreeHealth) \in Nat
  <2>1. TreeHealth \in Nat /\ TreeHealth > 0
    BY HarvestAssumption
  <2> QED BY <2>1, Struck
<1>3. \A t \in Tree : trees[t] = TreeHealth
  BY DEF Init
<1>4. TreeDamage * 0 = 0
  BY Numbers
<1>5. Felled = [t \in Tree |-> 0]
  <2>1. Strokes(TreeHealth) - Strokes(TreeHealth) = 0
    BY <1>2
  <2> QED BY <1>3, <1>4, <2>1 DEF Felled
<1>6. \A K : IsFiniteSet(Pieces([k \in K |-> 0])) /\ Sum([k \in K |-> 0]) = 0
  BY SumOfNothing
<1>7. Add(0, 0) = 0 /\ 0 % USHORT = 0
  BY Numbers DEF Add
<1>8. stats.gold = 0 /\ stats.lumber = 0 /\ taken.gold = 0 /\ taken.lumber = 0
  BY DEF Init
<1>9. /\ Booked(Carried("gold"), stats.gold, taken.gold)
      /\ Booked(Carried("lumber"), stats.lumber, taken.lumber)
  BY <1>1, <1>6, <1>7, <1>8 DEF Booked
<1>10. Given(Felled, taken.lumber)
  BY <1>5, <1>6, <1>7, <1>8 DEF Given
<1> QED BY <1>2, <1>3, <1>9, <1>10 DEF Books

LEMMA BooksStep ==
  ASSUME TypeOK, Books, [Next]_vars
  PROVE  Books'
<1>1. ASSUME NEW w \in Worker, Think(w)
      PROVE  Books'
  <2>1. CASE WalkMine(w)
    <3>1. UNCHANGED <<stats, taken, trees>> /\ \E move : Sets(w, move)
      BY <2>1 DEF WalkMine
    <3> QED BY <3>1, MovesLoaded, BooksStay
  <2>2. CASE WalkTree(w)
    <3>1. /\ UNCHANGED <<stats, taken, trees>>
          /\ LookForAnotherTree(w) \/ Sets(w, "swing")
      BY <2>2 DEF WalkTree
    <3> QED BY <3>1, MovesLoaded, AnotherTreeLoaded, BooksStay
  <2>3. CASE CoolDown(w)
    <3>1. /\ UNCHANGED <<stats, taken, trees>>
          /\ LookForAnotherTree(w) \/ \E move : Sets(w, move)
      BY <2>3 DEF CoolDown, HomeOrStand
    <3> QED BY <3>1, MovesLoaded, AnotherTreeLoaded, BooksStay
  <2>4. CASE Swing(w)
    <3>1. UNCHANGED <<stats, taken, trees>> /\ Sets(w, "swing")
      BY <2>4 DEF Swing
    <3> QED BY <3>1, MovesLoaded, BooksStay
  <2> QED BY <1>1, <2>1, <2>2, <2>3, <2>4, WalkBackBooks, DeliverGoldBooks,
             ChopBooks, DeliverLumberBooks DEF Think
<1>2. ASSUME NEW w \in Worker, OtherOrder(w)
      PROVE  Books'
  BY <1>2, MovesLoaded, BooksStay DEF OtherOrder
<1>3. ASSUME NEW w \in Worker, NEW target \in Tree \cup {Mine},
             HarvestOrder(w, target)
      PROVE  Books'
  BY <1>3, SetsOutLoaded, BooksStay DEF HarvestOrder
<1>4. CASE TownHall
  BY <1>4, BooksStay DEF TownHall
<1>5. CASE UNCHANGED vars
  BY <1>5, BooksStay DEF vars
<1> QED BY <1>1, <1>2, <1>3, <1>4, <1>5 DEF Next

(* What was mined is with the player or carried, and what was cut as well, *)
(* whatever sends workers to and fro; and what was cut is what the trees   *)
(* have lost in blows (harvestgold_walkback, ai_chop, ai_goldmine_walkback,*)
(* ai_harvest_walkback).                                                   *)
THEOREM NothingIsLost == Spec => []NothingLost
<1>1. Init => IInv
  BY InitHolds, BooksInit DEF IInv
<1>2. IInv /\ [Next]_vars => IInv'
  BY StepKeeps, BooksStep DEF IInv
<1>3. IInv => NothingLost
  BY DEF IInv, Books, Booked, Given, NothingLost
<1> QED BY <1>1, <1>2, <1>3, PTL DEF Spec
==============================================================================
