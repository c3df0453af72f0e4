--------------------------- MODULE FlowFieldProofs ---------------------------
(***************************************************************************)
(* What TLAPS proves of the cache of flow fields (FlowField.tla), for any  *)
(* number of units, waypoints and cells, any obstacles, any number of      *)
(* slots and any budget.                                                   *)
(*                                                                         *)
(* A goal asks for its field by a number alone.  That it gets the field it *)
(* asked for rests on three facts that hold together or not at all: the    *)
(* next number is beyond every number in the cache (CacheSound) and beyond *)
(* every number a goal remembers since the last bake (Remembered), and it  *)
(* has not come round, because the bakes since the numbers last began are  *)
(* counted against the budget, which nothing ever resets (Counted).        *)
(***************************************************************************)
EXTENDS FlowField, FiniteSetTheorems, SequenceTheorems, TLAPS

Entry == [target : Cell \cup {None}, generation : 0..DWORD-1,
          field : Field \cup {None}]
Ask == [to : Cell, bakes : 0..MaxBakes]

World ==
  /\ original \in SUBSET Cell /\ data \in SUBSET Cell
  /\ place \in [Goal -> Cell]

Routing ==
  /\ second \in [Waypoint -> Waypoint \cup {None}]
  /\ goal \in [Unit -> Goal \cup {None}]
  /\ waypoint \in Waypoint

(* The entries of a cache C whose next number is n, around the obstacles o. *)
EntrySound(e, n, o) ==
  /\ e.generation = 0 <=> e.target = None
  /\ e.generation # 0 =>
       /\ e.generation < n
       /\ e.field = [to |-> e.target, around |-> o]
Distinct(C) ==
  \A s, t \in Slot : C[s].generation # 0 /\ C[t].generation # 0 /\ s # t =>
    C[s].target # C[t].target /\ C[s].generation # C[t].generation
CacheSound(C, n, o) ==
  /\ C \in [Slot -> Entry]
  /\ \A s \in Slot : EntrySound(C[s], n, o)
  /\ Distinct(C)

(* What a goal remembers: h is its number, a what it asked for. *)
Recalls(h, a, C, n, b) ==
  /\ h # 0 => a # None
  /\ a # None => a \in Ask /\ a.bakes <= b
  /\ h # 0 /\ a.bakes = b =>
       h < n /\ \A s \in Slot : C[s].generation = h => C[s].field.to = a.to
Remembered ==
  /\ heatmap2 \in [Goal -> 0..DWORD-1]
  /\ asked \in [Goal -> Ask \cup {None}]
  /\ \A g \in Goal : Recalls(heatmap2[g], asked[g], cache, generation, bakes)

(* How many numbers are given out, and which slots they are in. *)
Counted ==
  /\ builds \in 0..Budget /\ generation \in 1..builds+1
  /\ bakes \in 0..MaxBakes /\ orders \in 0..MaxOrders
Queued ==
  /\ used \in Seq(Slot)
  /\ (\E s \in Slot : InUse(s)) => used # <<>>

IInv ==
  /\ World /\ Routing /\ Remembered /\ Counted /\ Queued
  /\ CacheSound(cache, generation, original)

-----------------------------------------------------------------------------
(* Numbers and sets. *)
LEMMA Numbers ==
  /\ SlotCount \in Nat /\ Budget \in Nat /\ DWORD \in Nat /\ PoolSize \in Nat
  /\ PoolSize > 0 /\ DWORD > Budget + 1 /\ MaxBakes \in Nat /\ MaxOrders \in Nat
  /\ 0 \in 0..DWORD-1 /\ 0 \in Slot /\ 0 \in Waypoint
<1>1. Cardinality(Unit) \in Nat  BY SetAssumption, FS_CardinalityType
<1>2. PoolSize \in Nat /\ PoolSize > 0  BY <1>1, PoolAssumption
<1>3. QED
  BY <1>2, CacheAssumption, WidthAssumption, BoundAssumption DEF Slot, Waypoint

LEMMA UnitNone == None \notin Cell /\ None \notin Ask /\ None \notin Waypoint
<1>1. Ask \subseteq [to : Cell, bakes : Nat]
  BY Numbers DEF Ask
<1>2. QED  BY <1>1, SetAssumption DEF Waypoint

(* A ring of waypoints is never left. *)
LEMMA PooledWaypoint ==
  ASSUME waypoint \in Waypoint, NEW k \in Nat
  PROVE  Pooled(k) \in Waypoint
<1>1. waypoint \in Nat  BY Numbers DEF Waypoint
<1>2. \A m \in Nat : m % PoolSize \in 0 .. PoolSize - 1
  BY Numbers
<1>3. QED  BY <1>1, <1>2 DEF Pooled, Waypoint

(* The slot that is used becomes the last of those in use. *)
LEMMA TouchedSeq ==
  ASSUME used \in Seq(Slot), NEW s \in Slot
  PROVE  Touched(s) \in Seq(Slot) /\ Touched(s) # <<>>
<1> DEFINE before == {i \in DOMAIN used : used[i] = s}
           i == CHOOSE j \in before : TRUE
           rest == IF before = {} THEN used ELSE RemoveAt(used, i)
<1>1. DOMAIN used = 1 .. Len(used) /\ Len(used) \in Nat
      /\ \A j \in 1 .. Len(used) : used[j] \in Slot
  BY LenProperties, ElementOfSeq
<1>2. rest \in Seq(Slot)
  <2>1. CASE before = {}
    BY <2>1
  <2>2. CASE before # {}
    <3>1. i \in 1 .. Len(used)  BY <1>1, <2>2
    <3> HIDE DEF i
    <3>2. SubSeq(used, 1, i - 1) \in Seq(Slot)
      <4>1. \A j \in 1 .. i - 1 : used[j] \in Slot  BY <1>1, <3>1
      <4>2. 1 \in Int /\ i - 1 \in Int  BY <1>1, <3>1
      <4>3. QED  BY <4>1, <4>2, SubSeqProperties
    <3>3. SubSeq(used, i + 1, Len(used)) \in Seq(Slot)
      <4>1. \A j \in i + 1 .. Len(used) : used[j] \in Slot  BY <1>1, <3>1
      <4>2. i + 1 \in Int /\ Len(used) \in Int  BY <1>1, <3>1
      <4>3. QED  BY <4>1, <4>2, SubSeqProperties
    <3>4. RemoveAt(used, i) \in Seq(Slot)
      BY <3>2, <3>3, ConcatProperties DEF RemoveAt
    <3>5. QED  BY <2>2, <3>4
  <2>3. QED  BY <2>1, <2>2
<1>3. Touched(s) = Append(rest, s)  BY DEF Touched
<1> HIDE DEF rest
<1>4. QED  BY <1>2, <1>3, AppendProperties

-----------------------------------------------------------------------------
(* Baking a field. *)

(* The slot baked into is a slot: when all are in use, one was used first. *)
LEMMA EvictedSlot ==
  ASSUME Queued
  PROVE  Evicted \in Slot
<1> DEFINE free == {s \in Slot : ~InUse(s)}
<1>1. CASE free = {}
  <2>1. InUse(0)  BY <1>1, Numbers
  <2>2. used # <<>> /\ used \in Seq(Slot)  BY <2>1, Numbers DEF Queued
  <2>3. Head(used) \in Slot  BY <2>2, HeadTailProperties
  <2>4. QED  BY <1>1, <2>3 DEF Evicted
<1>2. CASE free # {}
  <2>1. \E s \in free : \A t \in free : s <= t
    <3>1. free \subseteq Nat  BY DEF Slot
    <3>2. PICK s \in free : \A t \in free : <<t, s>> \notin OpToRel(<, Nat)
      BY <1>2, <3>1, WFMin, NatLessThanWellFounded, Zenon
    <3>3. \A t \in free : ~(t < s)
      BY <3>1, <3>2, Zenon DEF OpToRel
    <3>4. \A t \in free : s <= t  BY <3>1, <3>3
    <3>5. QED  BY <3>4
  <2> DEFINE least == CHOOSE s \in free : \A t \in free : s <= t
  <2>2. least \in free  BY <2>1
  <2>3. Evicted = least  BY <1>2 DEF Evicted
  <2>4. QED  BY <2>2, <2>3
<1>3. QED  BY <1>1, <1>2

(* The numbers do not come round: there are more than the budget allows.   *)
LEMMA SuccessorIs ==
  ASSUME Counted, builds < Budget
  PROVE  /\ Successor(generation) = generation + 1
         /\ generation \in Nat /\ generation + 1 \in 1..(builds + 1) + 1
         /\ generation \in 0..DWORD-1 /\ generation # 0
<1>1. /\ generation \in Nat /\ generation >= 1 /\ generation <= Budget
      /\ builds \in Nat /\ generation <= builds + 1
  BY Numbers DEF Counted
<1>2. generation + 1 < DWORD /\ generation + 1 > 0  BY <1>1, Numbers
<1>3. (generation + 1) % DWORD = generation + 1  BY <1>1, <1>2, Numbers
<1>4. Successor(generation) = generation + 1
  BY <1>1, <1>3 DEF Successor
<1>5. /\ generation + 1 \in 1..(builds + 1) + 1
      /\ generation \in 0..DWORD-1 /\ generation # 0
  BY <1>1, <1>2, Numbers
<1>6. QED  BY <1>1, <1>4, <1>5

(* An entry found for a target has a field to it; a new one is baked.  The *)
(* entries of the numbers given out before stay as they are, but for the   *)
(* one that is evicted.                                                    *)
LEMMA BuildSound ==
  ASSUME CacheSound(cache, generation, original), Counted, Queued,
         builds < Budget, original \in SUBSET Cell, data \in SUBSET Cell,
         NEW t \in Cell, NEW s \in Slot, BuildHeatmap(t, s)
  PROVE  /\ CacheSound(cache', generation', original)
         /\ generation' \in 1..(builds + 1) + 1 /\ generation <= generation'
         /\ data' \in SUBSET Cell
         /\ cache'[s].target = t
         /\ \A o \in Slot :
              cache'[o].generation \notin {0, generation} => cache'[o] = cache[o]
         /\ \A o \in Slot : cache[o].generation # generation
<1> DEFINE n == generation
<1>0. /\ cache \in [Slot -> Entry] /\ \A o \in Slot : EntrySound(cache[o], n, original)
      /\ Distinct(cache)
  BY DEF CacheSound
<1>n. n \in Nat /\ n # 0 /\ n + 1 \in 1..(builds + 1) + 1 /\ n \in 0..DWORD-1
      /\ Successor(n) = n + 1
  BY SuccessorIs
<1>a. \A o \in Slot : cache[o].generation # n
  <2>1. SUFFICES ASSUME NEW o \in Slot, cache[o].generation = n PROVE FALSE
    OBVIOUS
  <2>2. n < n  BY <1>0, <1>n, <2>1 DEF EntrySound
  <2>3. QED  BY <2>2, <1>n
<1>1. CASE cache[s].target = t /\ UNCHANGED <<cache, generation, data>>
  <2>1. n \in 1..(builds + 1) + 1  BY <1>n, Numbers DEF Counted
  <2>2. QED  BY <1>a, <1>1, <1>n, <2>1
<1>2. CASE /\ \A o \in Slot : cache[o].target # t
           /\ data' = original
           /\ cache' = [cache EXCEPT ![s] =
                [target |-> t, generation |-> n, field |-> Baked(t)]]
           /\ generation' = Successor(n)
  <2> DEFINE e == [target |-> t, generation |-> n, field |-> Baked(t)]
  <2>1. e \in Entry
    <3>1. Baked(t) \in Field  BY DEF Baked, Field
    <3>2. QED  BY <3>1, <1>n DEF Entry
  <2>2. e.target = t /\ e.generation = n /\ e.field = [to |-> t, around |-> original]
    BY DEF Baked
  <2> HIDE DEF e
  <2>3. cache'[s] = e /\ \A o \in Slot : o # s => cache'[o] = cache[o]
    <3>1. cache' = [cache EXCEPT ![s] = e]  BY <1>2 DEF e
    <3>2. QED  BY <1>0, <3>1
  <2>4. cache' \in [Slot -> Entry]
    <3>1. cache' = [cache EXCEPT ![s] = e]  BY <1>2 DEF e
    <3>2. QED  BY <1>0, <2>1, <3>1
  <2>5. \A o \in Slot : EntrySound(cache'[o], n + 1, original)
    <3>1. EntrySound(e, n + 1, original)
      BY <1>n, <2>2, UnitNone DEF EntrySound
    <3>2. ASSUME NEW o \in Slot PROVE EntrySound(cache[o], n + 1, original)
      <4>1. cache[o].generation \in Nat  BY <1>0, Numbers DEF Entry
      <4>2. EntrySound(cache[o], n, original)  BY <1>0
      <4>3. cache[o].generation < n => cache[o].generation < n + 1
        BY <1>n, <4>1
      <4>4. QED  BY <4>2, <4>3 DEF EntrySound
    <3>3. QED  BY <2>3, <3>1, <3>2
  <2>6. Distinct(cache')
    BY <1>0, <1>2, <1>a, <2>2, <2>3 DEF Distinct
  <2>7. CacheSound(cache', n + 1, original)
    BY <2>4, <2>5, <2>6 DEF CacheSound
  <2>8. generation' = n + 1 /\ n <= n + 1  BY <1>2, <1>n
  <2>9. \A o \in Slot :
          cache'[o].generation \notin {0, n} => cache'[o] = cache[o]
    BY <2>2, <2>3
  <2>10. QED  BY <1>2, <1>n, <1>a, <2>2, <2>3, <2>7, <2>8, <2>9
<1>3. QED  BY <1>1, <1>2 DEF BuildHeatmap

-----------------------------------------------------------------------------
(* What a goal recalls of a cache in which only numbers it cannot have were *)
(* given out stays true.                                                   *)
LEMMA RecallsStill ==
  ASSUME NEW h \in 0..DWORD-1, NEW a, NEW b, NEW C, NEW D,
         NEW n \in Nat, NEW m \in Nat, n <= m,
         Recalls(h, a, C, n, b),
         \A o \in Slot : D[o].generation \notin {0, n} => D[o] = C[o]
  PROVE  Recalls(h, a, D, m, b)
<1>1. h \in Nat  BY Numbers
<1>2. ASSUME h # 0, a.bakes = b
      PROVE  h < m /\ \A s \in Slot : D[s].generation = h => D[s].field.to = a.to
  <2>1. h < n /\ \A s \in Slot : C[s].generation = h => C[s].field.to = a.to
    BY <1>2 DEF Recalls
  <2>2. h < m /\ h # n  BY <1>1, <2>1
  <2>3. QED  BY <1>2, <2>1, <2>2
<1>3. QED  BY <1>2 DEF Recalls

-----------------------------------------------------------------------------
LEMMA InitIInv == Init => IInv
<1> SUFFICES ASSUME Init PROVE IInv
  OBVIOUS
<1>1. World  BY DEF Init, World
<1>2. Routing  BY Numbers DEF Init, Routing
<1>3. \A s \in Slot : cache[s] = NoEntry
  BY DEF Init
<1>4. CacheSound(cache, generation, original)
  <2>1. NoEntry \in Entry  BY Numbers DEF NoEntry, Entry
  <2>2. cache \in [Slot -> Entry]  BY <2>1 DEF Init
  <2>3. NoEntry.generation = 0 /\ NoEntry.target = None  BY DEF NoEntry
  <2>4. QED  BY <1>3, <2>2, <2>3 DEF CacheSound, EntrySound, Distinct
<1>5. Remembered
  <2>1. \A g \in Goal : heatmap2[g] = 0 /\ asked[g] = None
    BY DEF Init
  <2>2. heatmap2 \in [Goal -> 0..DWORD-1] /\ asked \in [Goal -> Ask \cup {None}]
    BY Numbers DEF Init
  <2>3. QED  BY <2>1, <2>2 DEF Remembered, Recalls
<1>6. Counted
  <2>1. 0 \in 0..Budget /\ 1 \in 1..0+1 /\ 0 \in 0..MaxBakes /\ 0 \in 0..MaxOrders
    BY Numbers
  <2>2. QED  BY <2>1 DEF Init, Counted
<1>7. Queued
  <2>1. used \in Seq(Slot)  BY DEF Init
  <2>2. \A s \in Slot : ~InUse(s)  BY <1>3 DEF InUse, NoEntry
  <2>3. QED  BY <2>1, <2>2 DEF Queued
<1>8. QED  BY <1>1, <1>2, <1>4, <1>5, <1>6, <1>7 DEF IInv

(* An order.  What is unchanged of the fields keeps CacheSound and Queued. *)
LEMMA OrderedParts ==
  ASSUME IInv, Ordered
  PROVE  /\ Queued' /\ CacheSound(cache, generation, original)'
         /\ Counted' /\ original' = original
         /\ generation' = generation /\ cache' = cache /\ bakes' = bakes
<1>1. /\ cache' = cache /\ used' = used /\ generation' = generation
      /\ builds' = builds /\ bakes' = bakes /\ original' = original
      /\ orders < MaxOrders /\ orders' = orders + 1
  BY DEF Ordered
<1>2. orders' \in 0..MaxOrders
  <2>1. orders \in 0..MaxOrders  BY DEF IInv, Counted
  <2>2. orders + 1 \in 0..MaxOrders  BY <1>1, <2>1, Numbers
  <2>3. QED  BY <1>1, <2>2
<1>3. Counted'  BY <1>1, <1>2 DEF IInv, Counted
<1>4. Queued'  BY <1>1 DEF IInv, Queued, InUse
<1>5. CacheSound(cache, generation, original)'
  BY <1>1 DEF IInv, CacheSound
<1>6. QED  BY <1>1, <1>3, <1>4, <1>5

(* A waypoint that is used again remembers nothing. *)
LEMMA AddedSound ==
  ASSUME IInv, Ordered, NEW n \in Nat, NEW at \in [0..n-1 -> Cell],
         Waypoint_add(n, at)
  PROVE  place' \in [Goal -> Cell] /\ waypoint' \in Waypoint /\ Remembered'
<1> DEFINE added(w) == {k \in 0..n-1 : w = Pooled(k)}
<1>1. place' = [g \in Goal |-> IF added(g) # {}
                               THEN at[CHOOSE k \in added(g) : TRUE]
                               ELSE place[g]]
  BY DEF Waypoint_add
<1>2. ASSUME NEW g \in Goal, added(g) # {}
      PROVE  at[CHOOSE k \in added(g) : TRUE] \in Cell
  <2>1. (CHOOSE k \in added(g) : TRUE) \in 0..n-1  BY <1>2
  <2>2. QED  BY <2>1
<1>3. place' \in [Goal -> Cell]
  <2>1. place \in [Goal -> Cell]  BY DEF IInv, World
  <2>2. QED  BY <1>1, <1>2, <2>1
<1>4. waypoint' \in Waypoint
  <2>1. waypoint \in Waypoint  BY DEF IInv, Routing
  <2>2. QED  BY <2>1, PooledWaypoint DEF Waypoint_add
<1>5. /\ heatmap2' = [g \in Goal |-> IF added(g) # {} THEN 0 ELSE heatmap2[g]]
      /\ asked' = [g \in Goal |-> IF added(g) # {} THEN None ELSE asked[g]]
  BY DEF Waypoint_add
<1> HIDE DEF added
<1>6. heatmap2' \in [Goal -> 0..DWORD-1] /\ asked' \in [Goal -> Ask \cup {None}]
  BY <1>5, Numbers DEF IInv, Remembered
<1>7. \A g \in Goal : \/ heatmap2'[g] = 0 /\ asked'[g] = None
                      \/ heatmap2'[g] = heatmap2[g] /\ asked'[g] = asked[g]
  BY <1>5
<1>8. \A g \in Goal :
        Recalls(heatmap2'[g], asked'[g], cache, generation, bakes)
  <2>1. \A g \in Goal : Recalls(heatmap2[g], asked[g], cache, generation, bakes)
    BY DEF IInv, Remembered
  <2>2. Recalls(0, None, cache, generation, bakes)  BY DEF Recalls
  <2>3. QED  BY <1>7, <2>1, <2>2
<1>9. Remembered'
  BY <1>6, <1>8, OrderedParts DEF Remembered
<1>10. QED  BY <1>3, <1>4, <1>9

LEMMA StampWorld ==
  ASSUME IInv, Stamp
  PROVE  data' \in SUBSET Cell
  BY DEF IInv, World, Stamp

LEMMA OrderIInv ==
  ASSUME IInv, data' \in SUBSET Cell, Ordered,
         place' \in [Goal -> Cell], waypoint' \in Waypoint, Remembered',
         second' \in [Waypoint -> Waypoint \cup {None}],
         goal' \in [Unit -> Goal \cup {None}]
  PROVE  IInv'
<1>1. Queued' /\ CacheSound(cache, generation, original)' /\ Counted'
      /\ original' = original
  BY OrderedParts
<1>2. World'  BY <1>1 DEF IInv, World
<1>3. Routing'  BY DEF Routing
<1>4. QED  BY <1>1, <1>2, <1>3 DEF IInv

LEMMA SelectLocationIInv ==
  ASSUME IInv, NEW us \in SUBSET Unit, SelectLocation(us)
  PROVE  IInv'
<1>0. Cardinality(us) \in Nat
  BY SetAssumption, FS_Subset, FS_CardinalityType
<1>1. PICK at \in [0..Cardinality(us) -> Cell],
           rank \in {r \in [us -> 1..Cardinality(us)] : IsInjective(r)} :
        /\ Waypoint_add(Cardinality(us) + 1, at)
        /\ second' = [w \in Waypoint |->
                        IF \E u \in us : w = Pooled(rank[u]) THEN Pooled(0)
                        ELSE IF w = Pooled(0) THEN None ELSE second[w]]
        /\ goal' = [u \in Unit |-> IF u \in us THEN Pooled(rank[u]) ELSE goal[u]]
  BY DEF SelectLocation
<1>2. Ordered /\ data' \in SUBSET Cell  BY StampWorld DEF SelectLocation
<1>3. place' \in [Goal -> Cell] /\ waypoint' \in Waypoint /\ Remembered'
  <2>1. Cardinality(us) + 1 \in Nat /\ (Cardinality(us) + 1) - 1 = Cardinality(us)
    BY <1>0
  <2>2. at \in [0..(Cardinality(us) + 1)-1 -> Cell]  BY <2>1
  <2>3. QED  BY <1>1, <1>2, <2>1, <2>2, AddedSound
<1>4. \A k \in Nat : Pooled(k) \in Waypoint
  BY PooledWaypoint DEF IInv, Routing
<1>5. second' \in [Waypoint -> Waypoint \cup {None}]
  <2>1. second \in [Waypoint -> Waypoint \cup {None}]  BY DEF IInv, Routing
  <2>2. Pooled(0) \in Waypoint  BY <1>4
  <2>3. QED  BY <1>1, <2>1, <2>2
<1>6. goal' \in [Unit -> Goal \cup {None}]
  <2>1. goal \in [Unit -> Goal \cup {None}]  BY DEF IInv, Routing
  <2>2. \A u \in us : rank[u] \in Nat  BY <1>0
  <2>3. \A u \in us : Pooled(rank[u]) \in Goal  BY <1>4, <2>2 DEF Goal
  <2>4. QED  BY <1>1, <2>1, <2>3
<1>7. QED  BY <1>2, <1>3, <1>5, <1>6, OrderIInv

LEMMA SendToParts ==
  ASSUME IInv, NEW us \in SUBSET Unit, SendTo(us)
  PROVE  /\ Ordered /\ Remembered'
         /\ place' \in [Goal -> Cell] /\ waypoint' \in Waypoint
         /\ second' \in [Waypoint -> Waypoint \cup {None}]
         /\ goal' \in [Unit -> Goal \cup {None}]
<1>1. Ordered  BY DEF SendTo
<1>2. place' \in [Goal -> Cell] /\ waypoint' \in Waypoint /\ Remembered'
  <2>1. PICK c \in Cell : Waypoint_add(1, [k \in {0} |-> c])  BY DEF SendTo
  <2>2. 0..1-1 = {0} /\ 1 \in Nat  OBVIOUS
  <2>3. [k \in {0} |-> c] \in [0..1-1 -> Cell]  BY <2>2
  <2>4. QED  BY <1>1, <2>1, <2>2, <2>3, AddedSound
<1>3. Pooled(0) \in Waypoint  BY PooledWaypoint DEF IInv, Routing
<1>4. second' \in [Waypoint -> Waypoint \cup {None}]
  BY DEF SendTo, IInv, Routing
<1>5. goal' \in [Unit -> Goal \cup {None}]
  BY <1>3 DEF SendTo, IInv, Routing, Goal
<1>6. QED  BY <1>1, <1>2, <1>4, <1>5

LEMMA AttackIInv ==
  ASSUME IInv, NEW u \in Unit, NEW v \in Unit, Attack(u, v)
  PROVE  IInv'
<1>1. /\ Ordered /\ goal' = [goal EXCEPT ![u] = v]
      /\ data' = data /\ place' = place /\ second' = second
      /\ waypoint' = waypoint /\ heatmap2' = heatmap2 /\ asked' = asked
  BY DEF Attack
<1>2. Remembered'  BY <1>1, OrderedParts DEF IInv, Remembered
<1>3. goal' \in [Unit -> Goal \cup {None}]
  BY <1>1 DEF IInv, Routing, Goal
<1>4. QED  BY <1>1, <1>2, <1>3, OrderIInv DEF IInv, World, Routing

-----------------------------------------------------------------------------
(* A unit thinks.  Kept says what each of its ways of going leaves sound.  *)
Kept ==
  /\ data' \in SUBSET Cell /\ Remembered' /\ Queued'
  /\ builds' \in 0..Budget /\ generation' \in 1..builds'+1
  /\ CacheSound(cache', generation', original)

LEMMA UnchangedKept ==
  ASSUME IInv, bakes' = bakes, UNCHANGED <<data, asked, fields>>
  PROVE  Kept
<1>1. /\ data' = data /\ asked' = asked /\ heatmap2' = heatmap2 /\ cache' = cache
      /\ used' = used /\ generation' = generation /\ builds' = builds
  BY DEF fields
<1>2. Remembered'  BY <1>1 DEF IInv, Remembered
<1>3. Queued'  BY <1>1 DEF IInv, Queued, InUse
<1>4. CacheSound(cache', generation', original)  BY <1>1 DEF IInv
<1>5. QED  BY <1>1, <1>2, <1>3, <1>4 DEF IInv, World, Counted, Kept

LEMMA FollowCachedKept ==
  ASSUME IInv, bakes' = bakes, NEW u \in Unit, FollowCached(u)
  PROVE  Kept
<1>1. PICK s \in Slot : used' = Touched(s)
  BY DEF FollowCached, Found
<1>2. /\ data' = data /\ asked' = asked /\ heatmap2' = heatmap2 /\ cache' = cache
      /\ generation' = generation /\ builds' = builds
  BY DEF FollowCached
<1>3. Remembered'  BY <1>2 DEF IInv, Remembered
<1>4. Queued'  BY <1>1, TouchedSeq DEF IInv, Queued
<1>5. CacheSound(cache', generation', original)  BY <1>2 DEF IInv
<1>6. QED  BY <1>2, <1>3, <1>4, <1>5 DEF IInv, World, Counted, Kept

(* The goal that a unit follows is a goal, and so is its route. *)
LEMMA RouteGoal ==
  ASSUME IInv, NEW u \in Unit, goal[u] # None
  PROVE  Route(goal[u]) \in Goal
<1>1. goal[u] \in Goal  BY DEF IInv, Routing
<1>2. second \in [Waypoint -> Waypoint \cup {None}]  BY DEF IInv, Routing
<1>3. QED  BY <1>1, <1>2 DEF Route, Goal

LEMMA FollowBuiltKept ==
  ASSUME IInv, bakes' = bakes, NEW u \in Unit, goal[u] # None, FollowBuilt(u)
  PROVE  Kept
<1> DEFINE r == Route(goal[u])
<1>0. r \in Goal  BY RouteGoal
<1>1. PICK t \in Resolved(r), s \in Slot :
        /\ BuildHeatmap(t, s)
        /\ heatmap2' = [heatmap2 EXCEPT ![r] = cache'[s].generation]
        /\ asked' = [asked EXCEPT ![r] = [to |-> t, bakes |-> bakes]]
  BY DEF FollowBuilt
<1> HIDE DEF r
<1>2. t \in Cell
  <2>1. place[r] \in Cell  BY <1>0 DEF IInv, World
  <2>2. QED  BY <1>1, <2>1 DEF Resolved
<1>3. builds < Budget /\ builds' = builds + 1  BY DEF FollowBuilt
<1>4. /\ CacheSound(cache', generation', original)
      /\ generation' \in 1..(builds + 1) + 1 /\ generation <= generation'
      /\ data' \in SUBSET Cell
      /\ cache'[s].target = t
      /\ \A o \in Slot :
           cache'[o].generation \notin {0, generation} => cache'[o] = cache[o]
      /\ \A o \in Slot : cache[o].generation # generation
  BY <1>1, <1>2, <1>3, BuildSound DEF IInv, World
<1>5. builds' \in 0..Budget
  BY <1>3, Numbers DEF IInv, Counted
<1>6. Queued'
  <2>1. used' = Touched(s)  BY <1>1 DEF BuildHeatmap
  <2>2. QED  BY <2>1, TouchedSeq DEF IInv, Queued
<1>7. /\ cache'[s].generation \in 0..DWORD-1 /\ cache'[s].generation < generation'
      /\ cache'[s].field.to = t
  <2>1. cache'[s] \in Entry /\ EntrySound(cache'[s], generation', original)
        /\ cache'[s].target # None
    BY <1>2, <1>4, UnitNone DEF CacheSound
  <2>2. QED  BY <1>4, <2>1 DEF EntrySound, Entry
<1>8. \A o \in Slot : cache'[o].generation = cache'[s].generation => cache'[o].field.to = t
  <2>1. SUFFICES ASSUME NEW o \in Slot, cache'[o].generation = cache'[s].generation
                 PROVE  cache'[o].field.to = t
    OBVIOUS
  <2>2. cache'[s].generation # 0
    BY <1>2, <1>4, UnitNone DEF CacheSound, EntrySound
  <2>3. o = s  BY <1>4, <2>1, <2>2 DEF CacheSound, Distinct
  <2>4. QED  BY <1>7, <2>3
<1> DEFINE a == [to |-> t, bakes |-> bakes]
<1>9. a \in Ask /\ a.to = t /\ a.bakes = bakes /\ a # None
  <2>1. a \in Ask  BY <1>2 DEF IInv, Counted, Ask
  <2>2. QED  BY <2>1, UnitNone
<1>10. bakes <= bakes  BY DEF IInv, Counted
<1> HIDE DEF a
<1>11. /\ heatmap2' \in [Goal -> 0..DWORD-1]
       /\ heatmap2'[r] = cache'[s].generation
       /\ \A g \in Goal : g # r => heatmap2'[g] = heatmap2[g]
  BY <1>0, <1>1, <1>7 DEF IInv, Remembered
<1>12. /\ asked' \in [Goal -> Ask \cup {None}]
       /\ asked'[r] = a
       /\ \A g \in Goal : g # r => asked'[g] = asked[g]
  <2>1. asked' = [asked EXCEPT ![r] = a]  BY <1>1 DEF a
  <2>2. asked \in [Goal -> Ask \cup {None}]  BY DEF IInv, Remembered
  <2>3. QED  BY <1>0, <1>9, <2>1, <2>2
<1>13. Recalls(heatmap2'[r], asked'[r], cache', generation', bakes)
  BY <1>7, <1>8, <1>9, <1>10, <1>11, <1>12 DEF Recalls
<1>14. ASSUME NEW g \in Goal, g # r
       PROVE  Recalls(heatmap2'[g], asked'[g], cache', generation', bakes)
  <2>1. /\ Recalls(heatmap2[g], asked[g], cache, generation, bakes)
        /\ heatmap2[g] \in 0..DWORD-1
    BY DEF IInv, Remembered
  <2>2. generation \in Nat /\ generation' \in Nat
    BY <1>4, Numbers DEF IInv, Counted
  <2>3. Recalls(heatmap2[g], asked[g], cache', generation', bakes)
    BY <1>4, <2>1, <2>2, RecallsStill
  <2>4. QED  BY <1>11, <1>12, <1>14, <2>3
<1>15. Remembered'
  BY <1>11, <1>12, <1>13, <1>14 DEF Remembered
<1>16. generation' \in 1..builds'+1  BY <1>3, <1>4
<1>17. QED  BY <1>4, <1>5, <1>6, <1>15, <1>16 DEF Kept

LEMMA ThinkIInv ==
  ASSUME IInv, NEW u \in Unit, Think(u)
  PROVE  IInv'
<1>1. /\ goal[u] # None /\ original' = original /\ bakes' = bakes
      /\ orders' = orders /\ second' = second /\ goal' = goal
      /\ waypoint' = waypoint
  BY DEF Think, routing
<1>2. Kept
  BY <1>1, UnchangedKept, FollowCachedKept, FollowBuiltKept
     DEF Think, GoStraight, GoWithoutField
<1>3. place' \in [Goal -> Cell]
  <2>1. PICK c \in (Cell \ original) \cup {place[u]} : place' = [place EXCEPT ![u] = c]
    BY DEF Think
  <2>2. place \in [Goal -> Cell] /\ u \in Goal  BY DEF IInv, World, Goal
  <2>3. QED  BY <2>1, <2>2
<1>4. World'  BY <1>1, <1>2, <1>3 DEF IInv, World, Kept
<1>5. Routing'  BY <1>1 DEF IInv, Routing
<1>6. Counted'  BY <1>1, <1>2 DEF IInv, Counted, Kept
<1>7. CacheSound(cache, generation, original)'
  BY <1>1, <1>2 DEF Kept, CacheSound
<1>8. QED  BY <1>2, <1>4, <1>5, <1>6, <1>7 DEF IInv, Kept

(* A building throws the fields away, and what goals asked for before it   *)
(* no longer binds.                                                        *)
LEMMA PlaceBuildingIInv ==
  ASSUME IInv, PlaceBuilding
  PROVE  IInv'
<1>1. /\ bakes < MaxBakes /\ bakes' = bakes + 1 /\ cache' = Invalid(cache)
      /\ used' = <<>> /\ generation' = 1 /\ builds' = builds /\ data' = data
      /\ place' = place /\ second' = second /\ goal' = goal
      /\ waypoint' = waypoint /\ heatmap2' = heatmap2 /\ asked' = asked
      /\ orders' = orders
  BY DEF PlaceBuilding, routing
<1>2. World'  BY <1>1 DEF IInv, World, PlaceBuilding
<1>3. Routing'  BY <1>1 DEF IInv, Routing
<1>4. bakes \in Nat /\ bakes' \in 0..MaxBakes
  BY <1>1, Numbers DEF IInv, Counted
<1>5. Counted'
  <2>1. builds \in 0..Budget /\ 1 \in 1..builds+1
    BY Numbers DEF IInv, Counted
  <2>2. QED  BY <1>1, <1>4, <2>1 DEF IInv, Counted
<1>6. \A s \in Slot : cache'[s].generation = 0 /\ cache'[s].target = None
  BY <1>1 DEF Invalid, IInv, CacheSound, Entry
<1>7. Queued'
  <2>1. <<>> \in Seq(Slot)  OBVIOUS
  <2>2. QED  BY <1>1, <1>6, <2>1 DEF Queued, InUse
<1>8. CacheSound(cache, generation, original)'
  <2>1. cache' \in [Slot -> Entry]
    <3>1. \A s \in Slot : [cache[s] EXCEPT !.target = None, !.generation = 0] \in Entry
      BY Numbers DEF IInv, CacheSound, Entry
    <3>2. QED  BY <1>1, <3>1 DEF Invalid
  <2>2. QED  BY <1>6, <2>1 DEF CacheSound, EntrySound, Distinct
<1>9. Remembered'
  <2>1. ASSUME NEW g \in Goal
        PROVE  Recalls(heatmap2[g], asked[g], cache', generation', bakes')
    <3>1. Recalls(heatmap2[g], asked[g], cache, generation, bakes)
      BY DEF IInv, Remembered
    <3>2. asked[g] # None => asked[g].bakes <= bakes' /\ asked[g].bakes # bakes'
      <4>1. ASSUME asked[g] # None
            PROVE  asked[g].bakes <= bakes' /\ asked[g].bakes # bakes'
        <5>1. asked[g].bakes \in Nat /\ asked[g].bakes <= bakes
          BY <3>1, <4>1 DEF Recalls, Ask
        <5>2. QED  BY <1>1, <1>4, <5>1
      <4>2. QED  BY <4>1
    <3>3. QED  BY <3>1, <3>2 DEF Recalls
  <2>2. QED  BY <1>1, <2>1 DEF IInv, Remembered
<1>10. QED  BY <1>2, <1>3, <1>5, <1>7, <1>8, <1>9 DEF IInv

-----------------------------------------------------------------------------
(* The invariant of the cache and of its users. *)
THEOREM IInvHolds == Spec => []IInv
<1>1. IInv /\ [Next]_vars => IInv'
  <2> SUFFICES ASSUME IInv, [Next]_vars PROVE IInv'
    OBVIOUS
  <2>1. CASE UNCHANGED vars
    BY <2>1 DEF vars, world, routing, fields, IInv, World, Routing, Remembered,
                Counted, Queued, InUse, CacheSound, Recalls
  <2>2. ASSUME NEW us \in SUBSET Unit, SelectLocation(us) PROVE IInv'
    BY <2>2, SelectLocationIInv
  <2>3. ASSUME NEW us \in SUBSET Unit, SendBuilder(us) PROVE IInv'
    <3>1. SendTo(us) /\ data' = data  BY <2>3 DEF SendBuilder
    <3>2. data' \in SUBSET Cell  BY <3>1 DEF IInv, World
    <3>3. QED  BY <3>1, <3>2, SendToParts, OrderIInv
  <2>4. ASSUME NEW u \in Unit, IssueOrder(u) PROVE IInv'
    <3>1. {u} \in SUBSET Unit /\ SendTo({u}) /\ Stamp  BY <2>4 DEF IssueOrder
    <3>2. data' \in SUBSET Cell  BY <3>1, StampWorld
    <3>3. QED  BY <3>1, <3>2, SendToParts, OrderIInv
  <2>5. QED
    BY <2>1, <2>2, <2>3, <2>4, ThinkIInv, AttackIInv, PlaceBuildingIInv DEF Next
<1>2. QED  BY <1>1, InitIInv, PTL DEF Spec

(* The types of the path map, the waypoints and the cache: in particular   *)
(* the slot that is evicted is a slot, and no generation number overflows  *)
(* (common/routing.c:681, 696).                                            *)
THEOREM TypeCorrect == Spec => []TypeOK
<1>1. IInv => TypeOK
  <2> SUFFICES ASSUME IInv PROVE TypeOK
    OBVIOUS
  <2>1. generation \in 1..DWORD-1
    <3>1. builds \in 0..Budget /\ generation \in 1..builds+1  BY DEF IInv, Counted
    <3>2. QED  BY <3>1, Numbers
  <2>2. QED
    BY <2>1 DEF IInv, TypeOK, World, Routing, Remembered, Counted, Queued,
                CacheSound, Entry, Ask
<1>2. QED  BY <1>1, IInvHolds, PTL

(* No two fields in the cache lead to one cell or share a number, the next *)
(* number is new, and each field was baked around the obstacles there are  *)
(* now (common/routing.c:666, 721).                                        *)
THEOREM FieldsAreCoherent == Spec => []CacheCoherent
<1>1. IInv => CacheCoherent
  <2> SUFFICES ASSUME IInv PROVE CacheCoherent
    OBVIOUS
  <2>1. ASSUME NEW s \in Slot, cache[s].generation # 0
        PROVE  cache[s].generation < generation /\ cache[s].field.around = original
    <3>1. EntrySound(cache[s], generation, original)  BY DEF IInv, CacheSound
    <3>2. QED  BY <2>1, <3>1 DEF EntrySound
  <2>2. Distinct(cache)  BY DEF IInv, CacheSound
  <2>3. QED  BY <2>1, <2>2 DEF CacheCoherent, InUse, Distinct
<1>2. QED  BY <1>1, IInvHolds, PTL

(* The number a goal remembers finds, as long as no building is placed,    *)
(* the field to where the goal was when it asked, or none                  *)
(* (game/g_ai.c, get_flow_direction).                                      *)
THEOREM GoalsFindTheirFields == Spec => []OwnFieldUntilBake
<1>1. IInv => OwnFieldUntilBake
  <2> SUFFICES ASSUME IInv, NEW g \in Goal, NEW s \in Found(heatmap2[g])
               PROVE  /\ asked[g] # None
                      /\ asked[g].bakes = bakes => cache[s].field.to = asked[g].to
    BY DEF OwnFieldUntilBake
  <2>1. s \in Slot /\ heatmap2[g] # 0 /\ cache[s].generation = heatmap2[g]
    BY DEF Found
  <2>2. Recalls(heatmap2[g], asked[g], cache, generation, bakes)
    BY DEF IInv, Remembered
  <2>3. QED  BY <2>1, <2>2 DEF Recalls
<1>2. QED  BY <1>1, IInvHolds, PTL
==============================================================================
