------------------------------ MODULE JoinProofs ------------------------------
(***************************************************************************)
(* What TLAPS proves of a client's joining: of the configstrings           *)
(* (ConfigStrings), for any number of names, indices and clients and any   *)
(* size of a message, and of the handshake (Connect), for any number of    *)
(* maps, of tries and of faults of the network.                            *)
(*                                                                         *)
(* The configstrings.  LastToldKnowsAll is kept by a message that throws   *)
(* away what it held, which no property of one step excludes.  Knows adds  *)
(* why that does not happen to the client told last: fewer strings wait    *)
(* for it than there are marked indices (Behind), and a message holds more *)
(* than there are indices.  What the two loops over the indices do is      *)
(* shown by steps: the functions that define them go from 0 on (Iterates), *)
(* and a set that holds 0 and goes on by 1 holds all (Steps).              *)
(*                                                                         *)
(* The handshake.  What the client makes of a packet depends on what the   *)
(* packet says, and it is read in whatever state the client is by then.    *)
(* So Handshake speaks of every message in flight, not only of the client: *)
(* Carried says what a message can say, Remembers what the client's flags  *)
(* say of each other whether or not it plays.  A client that is not        *)
(* answered has nothing prepared, and this is why a frame that arrives     *)
(* late does not bring it into the game (NoWayBack).                       *)
(***************************************************************************)
EXTENDS ConfigStrings, Connect, WellFoundedInduction, TLAPS

-----------------------------------------------------------------------------
(* Least elements, steps from 0 on, and functions that go by steps. *)

LEMMA HasLeast ==
  ASSUME NEW S \in SUBSET Nat, S # {}
  PROVE  \E x \in S : \A y \in S : x <= y
<1>1. PICK x \in S : \A y \in S : <<y, x>> \notin OpToRel(<, Nat)
  BY WFMin, NatLessThanWellFounded, Zenon
<1>2. \A y \in S : ~(y < x)
  BY <1>1, Zenon DEF OpToRel
<1> QED BY <1>2

LEMMA Steps ==
  ASSUME NEW n \in Nat, NEW G, 0 \in G,
         \A j \in 1 .. n : j - 1 \in G => j \in G
  PROVE  0 .. n \subseteq G
<1> DEFINE B == {j \in 0 .. n : j \notin G}
<1>1. SUFFICES B = {}
  OBVIOUS
<1>2. SUFFICES ASSUME B # {} PROVE FALSE
  OBVIOUS
<1>3. B \in SUBSET Nat
  OBVIOUS
<1> HIDE DEF B
<1>4. PICK m \in B : \A y \in B : m <= y
  BY <1>2, <1>3, HasLeast
<1>5. m \in 1 .. n /\ m - 1 \in 0 .. n /\ m \notin G
  BY <1>4 DEF B
<1>6. m - 1 \notin B
  BY <1>4, <1>5
<1>7. m - 1 \in G
  BY <1>5, <1>6 DEF B
<1> QED BY <1>5, <1>7

Runs(f, n, step) == \A j \in 1 .. n : f[j] = step[j][f[j - 1]]

LEMMA Iterates ==
  ASSUME NEW n \in Nat, NEW S, NEW start \in S,
         NEW step \in [1 .. n -> [S -> S]]
  PROVE  \E f \in [0 .. n -> S] : f[0] = start /\ Runs(f, n, step)
<1> DEFINE Good(m) == \E f \in [0 .. m -> S] : f[0] = start /\ Runs(f, m, step)
           G == {m \in 0 .. n : Good(m)}
<1>1. 0 \in G
  <2>1. [j \in 0 .. 0 |-> start] \in [0 .. 0 -> S] /\ [j \in 0 .. 0 |-> start][0] = start
    OBVIOUS
  <2>2. Good(0)
    <3>1. Runs([j \in 0 .. 0 |-> start], 0, step)
      BY DEF Runs
    <3> QED BY <2>1, <3>1
  <2> QED BY <2>2
<1>2. ASSUME NEW m \in 1 .. n, m - 1 \in G
      PROVE  m \in G
  <2>1. PICK f \in [0 .. m - 1 -> S] : f[0] = start /\ Runs(f, m - 1, step)
    BY <1>2
  <2> DEFINE v == step[m][f[m - 1]]
             g == [j \in 0 .. m |-> IF j = m THEN v ELSE f[j]]
  <2>2. m - 1 \in 0 .. m - 1 /\ f[m - 1] \in S
    OBVIOUS
  <2>3. v \in S
    BY <2>2
  <2> HIDE DEF v
  <2>4. g \in [0 .. m -> S] /\ g[0] = start /\ g[m] = v
    BY <2>1, <2>3
  <2>5. ASSUME NEW j \in 1 .. m
        PROVE  g[j] = step[j][g[j - 1]]
    <3>1. j - 1 \in 0 .. m /\ j - 1 # m /\ g[j - 1] = f[j - 1]
      OBVIOUS
    <3>2. CASE j = m
      BY <2>4, <3>1, <3>2 DEF v
    <3>3. CASE j # m
      <4>1. j \in 1 .. m - 1 /\ j \in 0 .. m
        BY <3>3
      <4>2. g[j] = f[j]
        BY <3>3, <4>1
      <4> QED BY <2>1, <3>1, <4>1, <4>2 DEF Runs
    <3> QED BY <3>2, <3>3
  <2> HIDE DEF g
  <2>6. Runs(g, m, step)
    BY <2>5 DEF Runs
  <2>7. Good(m)
    BY <2>4, <2>6
  <2> QED BY <2>7
<1> HIDE DEF G
<1>3. 0 .. n \subseteq G
  BY <1>1, <1>2, Steps
<1>4. n \in G
  BY <1>3
<1> QED BY <1>4 DEF G

-----------------------------------------------------------------------------
(* What a client makes of a message. *)

Sequenced == Seq(ConfigString)
Table == [Index -> File \cup {""}]

LEMMA Sizes ==
  /\ MaxIndex \in Nat \ {0} /\ MaxClients \in Nat \ {0}
  /\ MaxSize \in Nat /\ MaxSize > MaxIndex
  /\ "" \notin Name
  /\ DOMAIN Theme = Name /\ \A n \in Name : Theme[n] # ""
  /\ MaxIndex - 1 \in Nat /\ Index = 1 .. MaxIndex - 1
<1>1. MaxIndex \in Nat \ {0}
  BY SizesAssumption
<1>2. MaxIndex - 1 \in Nat
  BY <1>1
<1> QED BY <1>2, SizesAssumption DEF Index

LEMMA Room ==
  /\ MaxSize \in Nat /\ 1 <= MaxSize /\ MaxIndex < MaxSize
  /\ MaxIndex \in Nat /\ MaxClients \in Nat
<1>1. /\ MaxIndex \in Nat \ {0} /\ MaxClients \in Nat \ {0}
      /\ MaxSize \in Nat /\ MaxSize > MaxIndex
  BY SizesAssumption
<1> QED BY <1>1

LEMMA Indices ==
  ASSUME NEW i \in Index
  PROVE  i \in Nat /\ 1 <= i /\ i < MaxIndex
<1>1. MaxIndex \in Nat
  BY SizesAssumption
<1> QED BY <1>1 DEF Index

LEMMA Below ==
  ASSUME NEW i \in Index
  PROVE  \A j \in 1 .. i - 1 : j \in Index /\ j < i /\ j # i
<1>1. MaxIndex \in Nat
  BY SizesAssumption
<1> QED BY <1>1 DEF Index

Last(msg, i, l) ==
  /\ l \in DOMAIN msg /\ msg[l].index = i
  /\ \A q \in DOMAIN msg : msg[q].index = i => q <= l

LEMMA HasLast ==
  ASSUME NEW msg \in Sequenced, NEW i, NEW p \in DOMAIN msg, msg[p].index = i
  PROVE  \E l : Last(msg, i, l)
<1> DEFINE n == Len(msg)
           S == {n - q : q \in {r \in DOMAIN msg : msg[r].index = i}}
<1>1. n \in Nat /\ DOMAIN msg = 1 .. n
  BY DEF Sequenced
<1>2. S \in SUBSET Nat /\ S # {}
  BY <1>1
<1> HIDE DEF n
<1>3. PICK x \in S : \A y \in S : x <= y
  <2> HIDE DEF S
  <2> QED BY <1>2, HasLeast
<1>4. PICK l \in DOMAIN msg : msg[l].index = i /\ x = n - l
  BY <1>3
<1>5. ASSUME NEW q \in DOMAIN msg, msg[q].index = i
      PROVE  q <= l
  <2>1. n - q \in S
    BY <1>5
  <2>2. n - l <= n - q
    BY <1>3, <1>4, <2>1
  <2> QED BY <1>1, <2>2
<1> QED BY <1>4, <1>5 DEF Last

LEMMA ToldLast ==
  ASSUME NEW msg \in Sequenced, NEW table, NEW i \in Index, NEW l, Last(msg, i, l)
  PROVE  Told(table, msg)[i] = msg[l].name
<1> DEFINE P(p) == /\ msg[p].index = i
                   /\ \A q \in DOMAIN msg : msg[q].index = i => q <= p
           c == CHOOSE p \in DOMAIN msg : P(p)
<1>1. DOMAIN msg \subseteq Int
  BY DEF Sequenced
<1>2. l \in DOMAIN msg /\ P(l)
  BY DEF Last
<1>3. c \in DOMAIN msg /\ P(c)
  BY <1>2
<1>4. c <= l /\ l <= c
  BY <1>2, <1>3
<1>5. c = l
  BY <1>1, <1>2, <1>3, <1>4
<1>6. Told(table, msg)[i] = IF \E p \in DOMAIN msg : msg[p].index = i
                            THEN msg[c].name ELSE table[i]
  BY DEF Told
<1> HIDE DEF c
<1> QED BY <1>2, <1>5, <1>6

LEMMA ToldNothing ==
  ASSUME NEW msg, NEW table, NEW i \in Index,
         \A p \in DOMAIN msg : msg[p].index # i
  PROVE  Told(table, msg)[i] = table[i]
BY DEF Told

LEMMA ToldType ==
  ASSUME NEW msg \in Sequenced, NEW table \in Table
  PROVE  Told(table, msg) \in Table
<1>1. ASSUME NEW i \in Index
      PROVE  Told(table, msg)[i] \in File \cup {""}
  <2>1. CASE \E p \in DOMAIN msg : msg[p].index = i
    <3>1. PICK l : Last(msg, i, l)
      BY <2>1, HasLast
    <3>2. l \in DOMAIN msg /\ msg[l] \in ConfigString
      BY <3>1 DEF Last, Sequenced
    <3>3. Told(table, msg)[i] = msg[l].name
      BY <3>1, ToldLast
    <3>4. msg[l].name \in File
      BY <3>2 DEF ConfigString
    <3> QED BY <3>3, <3>4
  <2>2. CASE \A p \in DOMAIN msg : msg[p].index # i
    BY <2>2, ToldNothing DEF Table
  <2> QED BY <2>1, <2>2
<1>2. Told(table, msg) = [i \in Index |-> Told(table, msg)[i]]
  BY DEF Told
<1> QED BY <1>1, <1>2 DEF Table

LEMMA ToldAppend ==
  ASSUME NEW msg \in Sequenced, NEW table, NEW item \in ConfigString,
         NEW i \in Index
  PROVE  Told(table, Append(msg, item))[i]
           = IF i = item.index THEN item.name ELSE Told(table, msg)[i]
<1> DEFINE new == Append(msg, item)
           n == Len(msg)
           m == n + 1
<1>1. /\ new \in Sequenced /\ n \in Nat /\ DOMAIN msg = 1 .. n
      /\ DOMAIN new = 1 .. m /\ new[m] = item
      /\ \A p \in 1 .. n : new[p] = msg[p]
  BY DEF Sequenced
<1> HIDE DEF new, n
<1>2. CASE i = item.index
  <2>1. Last(new, i, m)
    BY <1>1, <1>2 DEF Last
  <2>2. Told(table, new)[i] = new[m].name
    BY <1>1, <2>1, ToldLast
  <2> QED BY <1>1, <1>2, <2>2 DEF new
<1>3. CASE i # item.index
  <2>1. CASE \E p \in DOMAIN msg : msg[p].index = i
    <3>1. PICK l : Last(msg, i, l)
      BY <2>1, HasLast
    <3>2. Last(new, i, l) /\ new[l] = msg[l]
      BY <1>1, <1>3, <3>1 DEF Last
    <3>3. Told(table, new)[i] = new[l].name /\ Told(table, msg)[i] = msg[l].name
      BY <1>1, <3>1, <3>2, ToldLast
    <3> QED BY <1>3, <3>2, <3>3 DEF new
  <2>2. CASE \A p \in DOMAIN msg : msg[p].index # i
    <3>1. \A p \in DOMAIN new : new[p].index # i
      BY <1>1, <1>3, <2>2
    <3>2. Told(table, new)[i] = table[i] /\ Told(table, msg)[i] = table[i]
      BY <2>2, <3>1, ToldNothing
    <3> QED BY <1>3, <3>2 DEF new
  <2> QED BY <2>1, <2>2
<1> QED BY <1>2, <1>3

(* What was transmitted is known, and the message is empty. *)
LEMMA ToldEmpty ==
  ASSUME NEW table, NEW i \in Index
  PROVE  /\ <<>> \in Sequenced /\ Len(<<>>) = 0
         /\ Told(table, <<>>)[i] = table[i]
<1>1. <<>> \in Sequenced /\ Len(<<>>) = 0 /\ DOMAIN <<>> = {}
  BY DEF Sequenced
<1> QED BY <1>1, ToldNothing

-----------------------------------------------------------------------------
(* The pool. *)

Item(s, i) == [index |-> i, name |-> Theme[s[i]]]

Pool(s) ==
  /\ s \in [Index -> Name \cup {""}]
  /\ \A i, j \in Index : i < j /\ s[j] # "" => s[i] # ""
  /\ \A i, j \in Index : i # j /\ s[i] = s[j] => s[i] = ""

LEMMA ItemType ==
  ASSUME NEW s, Pool(s), NEW i \in Used(s)
  PROVE  Item(s, i) \in ConfigString /\ i \in Index
<1>1. i \in Index /\ s[i] \in Name
  BY DEF Used, Pool
<1>2. Theme[s[i]] \in File
  BY <1>1 DEF File
<1> QED BY <1>1, <1>2 DEF Item, ConfigString

(* A name that is registered keeps its index, and takes the first free one *)
(* if it is new.                                                           *)
LEMMA FindIndexKeeps ==
  ASSUME Pool(strings), NEW n \in Name, FindIndex(n)
  PROVE  /\ Pool(strings') /\ Used(strings) \subseteq Used(strings')
         /\ \A i \in Used(strings) : strings'[i] = strings[i]
<1> DEFINE s == strings
           Free == First(s, "")
<1>1. s \in [Index -> Name \cup {""}] /\ n # ""
  BY Sizes DEF Pool
<1>2. CASE First(s, n) # {} \/ Free = {}
  <2>1. strings' = [i \in Index |-> s[i]]
    BY <1>2 DEF FindIndex
  <2>2. strings' = strings
    BY <1>1, <2>1
  <2> QED BY <2>2
<1>3. CASE First(s, n) = {} /\ Free # {}
  <2>1. PICK f \in Index : f \in Free
    BY <1>3 DEF First
  <2>2. s[f] = "" /\ \A j \in Index : j < f => s[j] # ""
    <3>1. s[f] = "" /\ \A j \in 1 .. f - 1 : s[j] # ""
      BY <2>1 DEF First
    <3>2. \A j \in Index : j < f => j \in 1 .. f - 1
      BY Indices
    <3> QED BY <3>1, <3>2
  <2>3. \A i \in Free : i = f
    <3>1. ASSUME NEW i, i \in Free
          PROVE  i = f
      <4>1. i \in Index /\ s[i] = ""
        BY <3>1 DEF First
      <4>2. \A j \in 1 .. i - 1 : s[j] # ""
        BY <3>1 DEF First
      <4> HIDE DEF Free
      <4>3. i \in Nat /\ f \in Nat /\ 1 <= f
        BY <4>1, Indices
      <4>4. ~(f < i)
        <5>1. f < i => f \in 1 .. i - 1
          BY <4>3
        <5> QED BY <2>2, <4>2, <5>1
      <4>5. ~(i < f)
        BY <2>2, <4>1
      <4> QED BY <4>3, <4>4, <4>5
    <3> HIDE DEF Free
    <3> QED BY <3>1
  <2>4. strings' = [s EXCEPT ![f] = n]
    <3>1. strings' = [i \in Index |-> IF i \in Free THEN n ELSE s[i]]
      BY <1>3 DEF FindIndex
    <3> QED BY <1>1, <2>1, <2>3, <3>1
  <2>5. \A i \in Index : s[i] # n
    <3>1. ASSUME NEW i \in Index, s[i] = n
          PROVE  FALSE
      <4>1. \A j \in 1 .. i - 1 : j \in Index /\ j < i /\ j # i
        BY Below
      <4>2. \A j \in 1 .. i - 1 : s[j] \notin {n, ""}
        BY <1>1, <3>1, <4>1 DEF Pool
      <4>3. i \in First(s, n)
        BY <3>1, <4>2 DEF First
      <4> QED BY <1>3, <4>3
    <3> QED BY <3>1
  <2>6. strings' \in [Index -> Name \cup {""}]
    BY <1>1, <2>4
  <2>7. \A i \in Index : strings'[i] = IF i = f THEN n ELSE s[i]
    BY <1>1, <2>4
  <2>8. \A i, j \in Index : i # j /\ strings'[i] = strings'[j] => strings'[i] = ""
    BY <2>5, <2>7 DEF Pool
  <2>9. \A i, j \in Index : i < j /\ strings'[j] # "" => strings'[i] # ""
    <3>1. ASSUME NEW i \in Index, NEW j \in Index, i < j, strings'[j] # ""
          PROVE  strings'[i] # ""
      <4>1. CASE i = f
        BY <1>1, <2>7, <4>1
      <4>2. CASE i # f /\ j = f
        BY <2>2, <2>7, <3>1, <4>2
      <4>3. CASE i # f /\ j # f
        BY <2>7, <3>1, <4>3 DEF Pool
      <4> QED BY <4>1, <4>2, <4>3
    <3> QED BY <3>1
  <2>10. /\ \A i \in Used(strings) : strings'[i] = strings[i]
         /\ Used(strings) \subseteq Used(strings')
    BY <2>2, <2>7 DEF Used
  <2> QED BY <2>6, <2>8, <2>9, <2>10 DEF Pool
<1> QED BY <1>2, <1>3

-----------------------------------------------------------------------------
(* The two loops, index by index. *)

LEMMA WriteType ==
  ASSUME NEW msg \in Sequenced, NEW item \in ConfigString
  PROVE  Write(msg, item) \in Sequenced /\ Len(Write(msg, item)) <= MaxSize
<1>1. Append(msg, item) \in Sequenced /\ Len(Append(msg, item)) = Len(msg) + 1
  BY DEF Sequenced
<1>2. <<item>> \in Sequenced /\ Len(<<item>>) = 1
  BY DEF Sequenced
<1>3. Len(msg) \in Nat
  BY DEF Sequenced
<1>4. MaxSize \in Nat /\ 1 <= MaxSize
  BY Room
<1> QED BY <1>1, <1>2, <1>3, <1>4 DEF Write

LEMMA StringsLoop ==
  ASSUME NEW s, Pool(s), NEW msg \in Sequenced, NEW set \in SUBSET Used(s)
  PROVE  \E f : /\ f[0] = msg
                /\ \A i \in Index : f[i] = IF i \in set THEN Write(f[i - 1], Item(s, i))
                                                        ELSE f[i - 1]
                /\ WriteStrings(s, msg, set) = f[MaxIndex - 1]
<1> DEFINE n == MaxIndex - 1
           Loop(f) == f = [i \in 0 .. n |->
                        IF i = 0 THEN msg
                        ELSE IF i \in set
                             THEN Write(f[i - 1], [index |-> i, name |-> Theme[s[i]]])
                        ELSE f[i - 1]]
           step == [i \in 1 .. n |-> [m \in Sequenced |->
                      IF i \in set THEN Write(m, Item(s, i)) ELSE m]]
<1>1. n \in Nat /\ Index = 1 .. n
  BY Sizes
<1>2. step \in [1 .. n -> [Sequenced -> Sequenced]]
  BY ItemType, WriteType
<1> HIDE DEF n
<1>3. PICK f \in [0 .. n -> Sequenced] : f[0] = msg /\ Runs(f, n, step)
  <2> DEFINE S == Sequenced
  <2>1. msg \in S /\ step \in [1 .. n -> [S -> S]] /\ n \in Nat
    BY <1>1, <1>2
  <2> HIDE DEF step, S
  <2>2. \E f \in [0 .. n -> S] : f[0] = msg /\ Runs(f, n, step)
    BY <2>1, Iterates
  <2> QED BY <2>2 DEF S
<1>4. Loop(f)
  <2>1. ASSUME NEW i \in 0 .. n
        PROVE  f[i] = IF i = 0 THEN msg
                      ELSE IF i \in set
                           THEN Write(f[i - 1], [index |-> i, name |-> Theme[s[i]]])
                      ELSE f[i - 1]
    <3>1. CASE i = 0
      BY <1>3, <3>1
    <3>2. CASE i # 0
      <4>1. i \in 1 .. n /\ f[i - 1] \in Sequenced
        BY <1>1, <3>2
      <4>2. f[i] = step[i][f[i - 1]]
        BY <1>3, <4>1 DEF Runs
      <4>3. f[i] = IF i \in set THEN Write(f[i - 1], Item(s, i)) ELSE f[i - 1]
        BY <4>1, <4>2
      <4> QED BY <3>2, <4>3 DEF Item
    <3> QED BY <3>1, <3>2
  <2> QED BY <2>1
<1> DEFINE h == CHOOSE g : Loop(g)
<1>5. Loop(h)
  <2> HIDE DEF Loop
  <2> QED BY <1>4
<1>6. WriteStrings(s, msg, set) = h[n]
  BY DEF WriteStrings, n
<1> HIDE DEF h
<1>7. h[0] = msg /\ \A i \in 1 .. n : h[i] = IF i \in set THEN Write(h[i - 1], Item(s, i))
                                             ELSE h[i - 1]
  BY <1>1, <1>5 DEF Item
<1> QED BY <1>1, <1>6, <1>7 DEF n

(* A batch: the message, and what the client knows. *)
BatchSet == [message : Sequenced, names : Table]

LEMMA BatchType ==
  ASSUME NEW s, Pool(s), NEW b \in BatchSet, NEW i \in Used(s)
  PROVE  /\ WriteConfigString(s, b, i) \in BatchSet
         /\ \A k \in Index : LET c == WriteConfigString(s, b, i)
                             IN Told(c.names, c.message)[k]
                                  = IF k = i THEN Theme[s[i]]
                                    ELSE Told(b.names, b.message)[k]
<1> DEFINE roomy == IF Len(b.message) + 1 >= MaxSize THEN Flush(b) ELSE b
           c == WriteConfigString(s, b, i)
           m == Append(roomy.message, Item(s, i))
<1>0. b.message \in Sequenced /\ b.names \in Table
  BY DEF BatchSet
<1>1. Item(s, i) \in ConfigString /\ Item(s, i).index = i /\ Item(s, i).name = Theme[s[i]]
  BY ItemType DEF Item
<1>2. /\ Flush(b).message = <<>>
      /\ Flush(b).names = Told(b.names, b.message)
  BY DEF Flush, Batch
<1>3. /\ roomy.message \in Sequenced /\ roomy.names \in Table
      /\ Len(roomy.message) + 1 <= MaxSize
      /\ \A k \in Index : Told(roomy.names, roomy.message)[k]
                            = Told(b.names, b.message)[k]
  <2>1. CASE Len(b.message) + 1 >= MaxSize
    <3>1. 0 + 1 <= MaxSize
      BY Room
    <3>2. Told(b.names, b.message) \in Table
      BY <1>0, ToldType
    <3>3. roomy = Flush(b)
      BY <2>1
    <3>4. <<>> \in Sequenced /\ Len(<<>>) = 0
      BY DEF Sequenced
    <3>5. \A k \in Index : Told(roomy.names, roomy.message)[k]
                             = Told(b.names, b.message)[k]
      BY <1>2, <3>3, ToldEmpty
    <3> HIDE DEF roomy
    <3> QED BY <1>2, <3>1, <3>2, <3>3, <3>4, <3>5
  <2>2. CASE ~(Len(b.message) + 1 >= MaxSize)
    <3>1. Len(b.message) \in Nat /\ MaxSize \in Nat
      BY <1>0, Room DEF Sequenced
    <3>2. roomy = b
      BY <2>2
    <3> HIDE DEF roomy
    <3> QED BY <1>0, <2>2, <3>1, <3>2
  <2> QED BY <2>1, <2>2
<1>4. c = Batch(Write(roomy.message, Item(s, i)), roomy.names)
  BY DEF WriteConfigString, Item
<1> HIDE DEF roomy
<1>5. Write(roomy.message, Item(s, i)) = m
  <2>1. Len(roomy.message) \in Nat /\ MaxSize \in Nat
    BY <1>3, Room DEF Sequenced
  <2>2. ~(Len(roomy.message) + 1 > MaxSize)
    BY <1>3, <2>1
  <2> QED BY <2>2 DEF Write
<1>6. c.message = m /\ c.names = roomy.names /\ c = [message |-> m, names |-> roomy.names]
  BY <1>4, <1>5 DEF Batch
<1>7. m \in Sequenced
  BY <1>1, <1>3 DEF Sequenced
<1>8. \A k \in Index : Told(roomy.names, m)[k]
                         = IF k = i THEN Theme[s[i]] ELSE Told(b.names, b.message)[k]
  BY <1>1, <1>3, ToldAppend
<1> HIDE DEF m
<1>9. c \in BatchSet
  BY <1>3, <1>6, <1>7 DEF BatchSet
<1> QED BY <1>6, <1>8, <1>9

LEMMA BatchesLoop ==
  ASSUME NEW s, Pool(s), NEW b \in BatchSet, NEW set \in SUBSET Used(s)
  PROVE  \E f : /\ f[0] = b
                /\ \A i \in Index :
                     f[i] = IF i \in set THEN WriteConfigString(s, f[i - 1], i)
                                         ELSE f[i - 1]
                /\ WriteBatches(s, b, set) = f[MaxIndex - 1]
<1> DEFINE n == MaxIndex - 1
           Loop(f) == f = [i \in 0 .. n |->
                        IF i = 0 THEN b
                        ELSE IF i \in set THEN WriteConfigString(s, f[i - 1], i)
                        ELSE f[i - 1]]
           step == [i \in 1 .. n |-> [c \in BatchSet |->
                      IF i \in set THEN WriteConfigString(s, c, i) ELSE c]]
<1>1. n \in Nat /\ Index = 1 .. n
  BY Sizes
<1>2. step \in [1 .. n -> [BatchSet -> BatchSet]]
  BY BatchType
<1> HIDE DEF n
<1>3. PICK f \in [0 .. n -> BatchSet] : f[0] = b /\ Runs(f, n, step)
  <2> DEFINE S == BatchSet
  <2>1. b \in S /\ step \in [1 .. n -> [S -> S]] /\ n \in Nat
    BY <1>1, <1>2
  <2> HIDE DEF step, S
  <2>2. \E f \in [0 .. n -> S] : f[0] = b /\ Runs(f, n, step)
    BY <2>1, Iterates
  <2> QED BY <2>2 DEF S
<1>4. Loop(f)
  <2>1. ASSUME NEW i \in 0 .. n
        PROVE  f[i] = IF i = 0 THEN b
                      ELSE IF i \in set THEN WriteConfigString(s, f[i - 1], i)
                      ELSE f[i - 1]
    <3>1. CASE i = 0
      BY <1>3, <3>1
    <3>2. CASE i # 0
      <4>1. i \in 1 .. n /\ f[i - 1] \in BatchSet
        BY <1>1, <3>2
      <4>2. f[i] = step[i][f[i - 1]]
        BY <1>3, <4>1 DEF Runs
      <4>3. f[i] = IF i \in set THEN WriteConfigString(s, f[i - 1], i) ELSE f[i - 1]
        BY <4>1, <4>2
      <4> QED BY <3>2, <4>3
    <3> QED BY <3>1, <3>2
  <2> QED BY <2>1
<1> DEFINE h == CHOOSE g : Loop(g)
<1>5. Loop(h)
  <2> HIDE DEF Loop
  <2> QED BY <1>4
<1>6. WriteBatches(s, b, set) = h[n]
  BY DEF WriteBatches, n
<1> HIDE DEF h
<1>7. h[0] = b /\ \A i \in 1 .. n : h[i] = IF i \in set THEN WriteConfigString(s, h[i - 1], i)
                                           ELSE h[i - 1]
  BY <1>1, <1>5
<1> QED BY <1>1, <1>6, <1>7 DEF n

-----------------------------------------------------------------------------
(* What a client knows after all strings of a join, and after those that   *)
(* are not yet marked have been added to what waits for it.                *)

LEMMA JoinTellsAll ==
  ASSUME NEW s, Pool(s), NEW b \in BatchSet
  PROVE  LET all == WriteBatches(s, b, Used(s))
         IN /\ all \in BatchSet
            /\ \A k \in Used(s) : Told(all.names, all.message)[k] = Theme[s[k]]
<1> DEFINE n == MaxIndex - 1
           set == Used(s)
           all == WriteBatches(s, b, set)
<1>1. PICK f : /\ f[0] = b
               /\ \A i \in Index : f[i] = IF i \in set THEN WriteConfigString(s, f[i - 1], i)
                                                       ELSE f[i - 1]
               /\ all = f[n]
  BY BatchesLoop
<1>2. n \in Nat /\ Index = 1 .. n /\ set \subseteq Index
  BY Sizes DEF Used
<1> DEFINE Done(c, j) == /\ c \in BatchSet
                         /\ \A k \in set : k <= j => Told(c.names, c.message)[k] = Theme[s[k]]
           G == {j \in 0 .. n : Done(f[j], j)}
<1> HIDE DEF n, set, all
<1>3. 0 \in G
  <2>1. \A k \in set : ~(k <= 0)
    BY <1>2, Indices
  <2>2. f[0] \in BatchSet
    BY <1>1
  <2>3. Done(f[0], 0)
    BY <2>1, <2>2
  <2> QED BY <1>2, <2>3
<1>4. ASSUME NEW j \in 1 .. n, j - 1 \in G
      PROVE  j \in G
  <2> DEFINE c == f[j - 1]
             d == f[j]
             p == j - 1
  <2>0. p \in Int /\ Done(c, p) /\ j = p + 1
    BY <1>4
  <2>1. j \in Index /\ d = IF j \in set THEN WriteConfigString(s, c, j) ELSE c
    BY <1>1, <1>2
  <2>2. \A k \in set : k \in Int /\ (k <= j <=> k = j \/ k <= p)
    BY <1>2, <2>0
  <2> HIDE DEF c, d, p
  <2>3. CASE j \in set
    <3>1. /\ d \in BatchSet
          /\ \A k \in Index : Told(d.names, d.message)[k]
                                = IF k = j THEN Theme[s[j]] ELSE Told(c.names, c.message)[k]
      BY <2>0, <2>1, <2>3, BatchType DEF set
    <3>2. Done(d, j)
      BY <1>2, <2>0, <2>2, <3>1
    <3> QED BY <1>2, <3>2 DEF d
  <2>4. CASE j \notin set
    <3>1. d = c
      BY <2>1, <2>4
    <3>2. Done(d, j)
      BY <2>0, <2>2, <2>4, <3>1
    <3> QED BY <1>2, <3>2 DEF d
  <2> QED BY <2>3, <2>4
<1> HIDE DEF G
<1>5. 0 .. n \subseteq G
  BY <1>2, <1>3, <1>4, Steps
<1>6. Done(all, n)
  BY <1>1, <1>2, <1>5 DEF G
<1>7. \A k \in set : k <= n
  BY <1>2
<1> QED BY <1>6, <1>7 DEF all, set

LEMMA StringsType ==
  ASSUME NEW s, Pool(s), NEW msg \in Sequenced, Len(msg) <= MaxSize,
         NEW set \in SUBSET Used(s)
  PROVE  /\ WriteStrings(s, msg, set) \in Sequenced
         /\ Len(WriteStrings(s, msg, set)) <= MaxSize
<1> DEFINE n == MaxIndex - 1
           all == WriteStrings(s, msg, set)
<1>1. PICK f : /\ f[0] = msg
               /\ \A i \in Index : f[i] = IF i \in set THEN Write(f[i - 1], Item(s, i))
                                                       ELSE f[i - 1]
               /\ all = f[n]
  BY StringsLoop
<1>2. n \in Nat /\ Index = 1 .. n
  BY Sizes
<1> DEFINE Fine(m) == m \in Sequenced /\ Len(m) <= MaxSize
           G == {j \in 0 .. n : Fine(f[j])}
<1> HIDE DEF n, all
<1>3. 0 \in G
  BY <1>1, <1>2
<1>4. ASSUME NEW j \in 1 .. n, j - 1 \in G
      PROVE  j \in G
  <2> DEFINE c == f[j - 1]
             d == f[j]
  <2>0. Fine(c)
    BY <1>4
  <2>1. j \in Index /\ d = IF j \in set THEN Write(c, Item(s, j)) ELSE c
    BY <1>1, <1>2
  <2> HIDE DEF c, d
  <2>2. Fine(d)
    BY <2>0, <2>1, ItemType, WriteType
  <2> QED BY <1>2, <2>2 DEF d
<1> HIDE DEF G
<1>5. 0 .. n \subseteq G
  BY <1>2, <1>3, <1>4, Steps
<1>6. Fine(all)
  BY <1>1, <1>2, <1>5 DEF G
<1> QED BY <1>6 DEF all

(* A message is behind a set of indices if there are fewer strings in it  *)
(* than any index outside has before it; with what a client has, it tells  *)
(* of a set if every string of the set is known by it.                     *)
Behind(msg, set) == \A i \in Index \ set : Len(msg) < i
TellsOf(s, table, msg, set) == \A i \in set : Told(table, msg)[i] = Theme[s[i]]

(* The client that was told last has room: what waits for it is less than  *)
(* the indices that were marked, and takes in the others without overflow. *)
LEMMA FrameTellsAll ==
  ASSUME NEW s, Pool(s), NEW msg \in Sequenced, NEW table \in Table,
         NEW marked \in SUBSET Used(s), Behind(msg, marked),
         TellsOf(s, table, msg, marked),
         NEW told, told = WriteStrings(s, msg, Used(s) \ marked)
  PROVE  Behind(told, Used(s)) /\ TellsOf(s, table, told, Used(s))
<1> DEFINE n == MaxIndex - 1
           used == Used(s)
           set == used \ marked
           all == WriteStrings(s, msg, set)
<1>1. PICK f : /\ f[0] = msg
               /\ \A i \in Index : f[i] = IF i \in set THEN Write(f[i - 1], Item(s, i))
                                                       ELSE f[i - 1]
               /\ all = f[n]
  BY StringsLoop
<1>0. /\ \A i \in Index \ marked : Len(msg) < i
      /\ \A i \in marked : Told(table, msg)[i] = Theme[s[i]]
  BY DEF Behind, TellsOf
<1>2. /\ n \in Nat /\ Index = 1 .. n /\ used \subseteq Index /\ marked \subseteq Index
      /\ marked \subseteq used
  BY Sizes DEF Used
<1>3. \A i \in Index \ used : \A j \in used : j < i
  <2>1. ASSUME NEW i \in Index \ used, NEW j \in used
        PROVE  j < i
    <3>1. s[i] = "" /\ s[j] # "" /\ j \in Index
      BY DEF Used
    <3>2. ~(i < j) /\ i # j
      BY <3>1 DEF Pool
    <3>3. i \in Nat /\ j \in Nat
      BY <3>1, Indices
    <3> QED BY <3>2, <3>3
  <2> QED BY <2>1
<1> DEFINE Done(m, j) ==
             /\ m \in Sequenced
             /\ \A i \in Index : (i \notin used \/ (i \notin marked /\ j < i)) => Len(m) < i
             /\ \A i \in used : (i \in marked \/ i <= j) => Told(table, m)[i] = Theme[s[i]]
           G == {j \in 0 .. n : Done(f[j], j)}
<1> HIDE DEF n, used, all
<1>4. 0 \in G
  <2>1. \A i \in used : ~(i <= 0)
    BY <1>2, Indices
  <2> QED BY <1>0, <1>1, <1>2, <2>1
<1>5. ASSUME NEW j \in 1 .. n, j - 1 \in G
      PROVE  j \in G
  <2> DEFINE c == f[j - 1]
             d == f[j]
             p == j - 1
  <2>0. p \in Int /\ Done(c, p) /\ j = p + 1
    BY <1>5
  <2>1. j \in Index /\ d = IF j \in set THEN Write(c, Item(s, j)) ELSE c
    BY <1>1, <1>2
  <2>2. \A i \in Index : i \in Int /\ (i <= j <=> i = j \/ i <= p) /\ (j < i => p < i /\ i # j)
    BY <1>2, <2>0
  <2> HIDE DEF c, d, p
  <2>3. CASE j \in set
    <3>1. Len(c) < j /\ Len(c) \in Nat
      <4>1. p < j
        BY <2>0
      <4> QED BY <2>0, <2>1, <2>3, <4>1 DEF Sequenced
    <3>2. d = Append(c, Item(s, j))
      <4>1. MaxSize \in Nat /\ MaxSize > MaxIndex /\ MaxIndex \in Nat
        BY Room
      <4>2. j < MaxIndex /\ j \in Nat
        BY <2>1, Indices
      <4>3. ~(Len(c) + 1 > MaxSize)
        BY <3>1, <4>1, <4>2
      <4> QED BY <2>1, <2>3, <4>3 DEF Write
    <3>3. Item(s, j) \in ConfigString /\ Item(s, j).index = j /\ Item(s, j).name = Theme[s[j]]
      BY <2>3, ItemType DEF Item, used
    <3>4. d \in Sequenced /\ Len(d) = Len(c) + 1
      BY <2>0, <3>2, <3>3 DEF Sequenced
    <3>5. \A i \in Index : Told(table, d)[i] = IF i = j THEN Theme[s[j]] ELSE Told(table, c)[i]
      BY <2>0, <3>2, <3>3, ToldAppend
    <3>6. \A i \in used : (i \in marked \/ i <= j) => Told(table, d)[i] = Theme[s[i]]
      BY <1>2, <2>0, <2>2, <3>5
    <3>7. ASSUME NEW i \in Index, i \notin used \/ (i \notin marked /\ j < i)
          PROVE  Len(d) < i
      <4>1. j < i
        BY <1>3, <2>3, <3>7
      <4>2. i \in Int /\ j \in Int
        BY <2>1, <2>2
      <4> QED BY <3>1, <3>4, <4>1, <4>2
    <3>8. Done(d, j)
      BY <3>4, <3>6, <3>7
    <3> QED BY <1>2, <3>8 DEF d
  <2>4. CASE j \notin set
    <3>1. d = c
      BY <2>1, <2>4
    <3>2. Done(d, j)
      BY <1>2, <2>0, <2>2, <2>4, <3>1
    <3> QED BY <1>2, <3>2 DEF d
  <2> QED BY <2>3, <2>4
<1> HIDE DEF G
<1>6. 0 .. n \subseteq G
  BY <1>2, <1>4, <1>5, Steps
<1>7. Done(all, n)
  BY <1>1, <1>2, <1>6 DEF G
<1>8. \A i \in used : i <= n
  BY <1>2
<1> QED BY <1>7, <1>8 DEF all, used, Behind, TellsOf

-----------------------------------------------------------------------------
(* The invariant: the types, and what is known of the client told last. *)

Knows ==
  asked # 0 =>
    /\ asked \in Client /\ client[asked] \in {"baselines", "begin", "spawned"}
    /\ \A i \in Index \ synced : Len(message[asked]) < i
    /\ \A i \in synced : Told(names[asked], message[asked])[i] = Theme[strings[i]]

IInv == StringsTypeOK /\ Knows

Clients ==
  /\ message \in [Client -> Sequenced]
  /\ \A k \in Client : Len(message[k]) <= MaxSize
  /\ names \in [Client -> Table]

Others ==
  /\ synced \subseteq Used(strings)
  /\ client \in [Client -> Stage] /\ asked \in 0 .. MaxClients

LEMMA Parts ==
  StringsTypeOK <=> Pool(strings) /\ Clients /\ Others
BY DEF StringsTypeOK, Pool, Clients, Others, Sequenced, Table

LEMMA PartsNext ==
  StringsTypeOK' <=> Pool(strings') /\ Clients' /\ Others'
BY DEF StringsTypeOK, Pool, Clients, Others, Sequenced, Table, Used

(* A transmission, of what is collected or of what was just written. *)
LEMMA TransmitKeeps ==
  ASSUME names \in [Client -> Table], NEW ks, NEW msg \in [Client -> Sequenced],
         \A k \in Client : Len(msg[k]) <= MaxSize, Transmit(ks, msg)
  PROVE  /\ Clients'
         /\ \A k \in Client : \A i \in Index :
              Told(names'[k], message'[k])[i] = Told(names[k], msg[k])[i]
         /\ \A k \in Client : message'[k] = msg[k] \/ message'[k] = <<>>
<1>1. <<>> \in Sequenced /\ Len(<<>>) = 0
  BY DEF Sequenced
<1>2. MaxSize \in Nat
  BY Room
<1>3. ASSUME NEW k \in Client
      PROVE  Told(names[k], msg[k]) \in Table
  BY ToldType
<1>4. /\ message' = [k \in Client |-> IF k \in ks THEN <<>> ELSE msg[k]]
      /\ names' = [k \in Client |-> IF k \in ks THEN Told(names[k], msg[k]) ELSE names[k]]
  BY DEF Transmit
<1>5. Clients'
  <2>1. message' \in [Client -> Sequenced]
    BY <1>1, <1>4
  <2>2. \A k \in Client : Len(message'[k]) <= MaxSize
    BY <1>1, <1>2, <1>4
  <2>3. names' \in [Client -> Table]
    BY <1>3, <1>4
  <2> QED BY <2>1, <2>2, <2>3 DEF Clients, Sequenced, Table
<1>6. ASSUME NEW k \in Client, NEW i \in Index
      PROVE  Told(names'[k], message'[k])[i] = Told(names[k], msg[k])[i]
  <2>1. CASE k \in ks
    <3>1. message'[k] = <<>> /\ names'[k] = Told(names[k], msg[k])
      BY <1>4, <2>1
    <3> QED BY <3>1, ToldEmpty
  <2>2. CASE k \notin ks
    BY <1>4, <2>2
  <2> QED BY <2>1, <2>2
<1> QED BY <1>4, <1>5, <1>6

(* A step that leaves the pool and the marks, and transmits what there is. *)
LEMMA KnowsStays ==
  ASSUME IInv, UNCHANGED <<synced, asked>>,
         \A i \in synced : strings'[i] = strings[i],
         asked # 0 =>
           /\ client'[asked] \in {"baselines", "begin", "spawned"}
           /\ \A i \in Index : Told(names'[asked], message'[asked])[i]
                                 = Told(names[asked], message[asked])[i]
           /\ message'[asked] = message[asked] \/ message'[asked] = <<>>
  PROVE  Knows'
<1>1. SUFFICES ASSUME asked # 0
               PROVE  /\ \A i \in Index \ synced : Len(message'[asked]) < i
                      /\ \A i \in synced : Told(names'[asked], message'[asked])[i]
                                             = Theme[strings'[i]]
  <2>1. asked # 0 => asked \in Client
    BY DEF IInv, Knows
  <2>2. Told(names[asked], message[asked])'
          = Told(names'[asked], message'[asked])
    BY DEF Told
  <2> QED BY <1>1, <2>1, <2>2 DEF Knows
<1>2. Len(<<>>) = 0 /\ \A i \in Index : 0 < i
  BY Indices
<1>3. \A i \in Index \ synced : Len(message'[asked]) < i
  BY <1>1, <1>2 DEF IInv, Knows
<1>4. synced \subseteq Index
  BY Parts DEF IInv, Others, Used
<1>5. \A i \in synced : Told(names'[asked], message'[asked])[i] = Theme[strings'[i]]
  BY <1>1, <1>4 DEF IInv, Knows
<1> QED BY <1>3, <1>5

-----------------------------------------------------------------------------
LEMMA InitHolds ==
  ASSUME StringsInit
  PROVE  IInv
<1>1. Pool(strings)
  BY DEF StringsInit, Pool
<1>2. <<>> \in Sequenced /\ Len(<<>>) = 0 /\ MaxSize \in Nat /\ 0 <= MaxSize
  BY Room DEF Sequenced
<1>3. Clients
  BY <1>2 DEF StringsInit, Clients, Table
<1>4. Others
  <2>1. 0 \in 0 .. MaxClients
    BY Room
  <2> QED BY <2>1 DEF StringsInit, Others, Stage
<1> QED BY <1>1, <1>3, <1>4, Parts DEF StringsInit, IInv, Knows

LEMMA ConnectKeeps ==
  ASSUME IInv, NEW k \in Client, Connect(k)
  PROVE  IInv'
<1>1. Pool(strings) /\ Clients /\ Others
  BY Parts DEF IInv
<1>2. /\ client[k] = "free"
      /\ client' = [client EXCEPT ![k] = "new"]
      /\ message' = [message EXCEPT ![k] = <<>>]
      /\ UNCHANGED <<strings, synced, names, asked>>
  BY DEF Connect
<1>3. <<>> \in Sequenced /\ Len(<<>>) = 0 /\ MaxSize \in Nat /\ 0 <= MaxSize
  BY Room DEF Sequenced
<1>4. Clients'
  BY <1>1, <1>2, <1>3 DEF Clients, Sequenced, Table
<1>5. Others'
  BY <1>1, <1>2 DEF Others, Stage, Used
<1>6. asked # 0 => asked # k /\ asked \in Client
  BY <1>2 DEF IInv, Knows
<1>7. asked # 0 => /\ client'[asked] = client[asked]
                   /\ message'[asked] = message[asked] /\ names'[asked] = names[asked]
  BY <1>1, <1>2, <1>6 DEF Others, Clients
<1>8. Knows'
  BY <1>2, <1>7, KnowsStays DEF IInv, Knows
<1> QED BY <1>1, <1>2, <1>4, <1>5, <1>8, PartsNext DEF IInv

LEMMA AnswerKeeps ==
  ASSUME IInv, NEW k \in Client, NEW stage, NEW next \in Stage,
         stage \in {"baselines", "begin", "spawned"}
           => next \in {"baselines", "begin", "spawned"},
         Reply(k, stage, next)
  PROVE  IInv'
<1>1. Pool(strings) /\ Clients /\ Others
  BY Parts DEF IInv
<1>2. /\ client[k] = stage
      /\ client' = [client EXCEPT ![k] = next]
      /\ Transmit({k}, message)
      /\ UNCHANGED <<strings, synced, asked>>
  BY DEF Reply
<1>3. /\ Clients'
      /\ \A j \in Client : \A i \in Index :
           Told(names'[j], message'[j])[i] = Told(names[j], message[j])[i]
      /\ \A j \in Client : message'[j] = message[j] \/ message'[j] = <<>>
  BY <1>1, <1>2, TransmitKeeps DEF Clients
<1>4. Others'
  BY <1>1, <1>2 DEF Others, Used
<1>5. asked # 0 => asked \in Client /\ client[asked] \in {"baselines", "begin", "spawned"}
  BY DEF IInv, Knows
<1>6. asked # 0 => client'[asked] \in {"baselines", "begin", "spawned"}
  BY <1>1, <1>2, <1>5 DEF Others
<1>7. Knows'
  BY <1>2, <1>3, <1>5, <1>6, KnowsStays
<1> QED BY <1>1, <1>2, <1>3, <1>4, <1>7, PartsNext DEF IInv

LEMMA ConfigstringsKeeps ==
  ASSUME IInv, NEW k \in Client, Configstrings(k)
  PROVE  IInv'
<1> DEFINE b == Batch(message[k], names[k])
           all == WriteBatches(strings, b, Used(strings))
           known == Told(all.names, all.message)
<1>1. Pool(strings) /\ Clients /\ Others
  BY Parts DEF IInv
<1>2. /\ client' = [client EXCEPT ![k] = "baselines"]
      /\ message' = [message EXCEPT ![k] = <<>>]
      /\ names' = [names EXCEPT ![k] = known]
      /\ synced' = synced \cup Used(strings)
      /\ asked' = k /\ strings' = strings
  BY DEF Configstrings, Flush, Batch
<1>3. b \in BatchSet
  BY <1>1 DEF Batch, BatchSet, Clients
<1>4. /\ all \in BatchSet
      /\ \A i \in Used(strings) : known[i] = Theme[strings[i]]
  BY <1>1, <1>3, JoinTellsAll
<1> HIDE DEF all
<1>5. known \in Table
  BY <1>4, ToldType DEF BatchSet
<1> HIDE DEF known
<1>6. <<>> \in Sequenced /\ Len(<<>>) = 0 /\ MaxSize \in Nat /\ 0 <= MaxSize
  BY Room DEF Sequenced
<1>7. Clients'
  BY <1>1, <1>2, <1>5, <1>6 DEF Clients, Sequenced, Table
<1>8. synced' = Used(strings)
  BY <1>1, <1>2 DEF Others
<1>9. Others'
  <2>1. k \in 0 .. MaxClients
    BY DEF Client
  <2> QED BY <1>1, <1>2, <1>8, <2>1 DEF Others, Used, Stage
<1>10. message'[k] = <<>> /\ names'[k] = known /\ client'[k] = "baselines"
  BY <1>1, <1>2 DEF Clients, Others
<1>11. Knows'
  <2>1. k # 0
    BY DEF Client
  <2>2. \A i \in Index : Told(names'[k], message'[k])[i] = known[i]
    BY <1>10, ToldEmpty
  <2>3. \A i \in Used(strings) : Told(names'[k], message'[k])[i] = Theme[strings[i]]
    BY <1>4, <2>2 DEF Used
  <2>4. \A i \in Index : Len(message'[k]) < i
    BY <1>6, <1>10, Indices
  <2>5. Told(names[asked], message[asked])' = Told(names'[k], message'[k])
    BY <1>2 DEF Told
  <2> QED BY <1>2, <1>8, <1>10, <2>3, <2>4, <2>5 DEF Knows
<1> QED BY <1>1, <1>2, <1>7, <1>9, <1>11, PartsNext DEF IInv

(* A layout, of a client that is in play or begins to be. *)
LEMMA LayoutKeeps ==
  ASSUME IInv, NEW k \in Client, NEW n \in Name, Layout(k, n), asked' = asked,
         client' \in [Client -> Stage],
         asked # 0 => client'[asked] \in {"baselines", "begin", "spawned"}
  PROVE  IInv'
<1>1. Pool(strings) /\ Clients /\ Others
  BY Parts DEF IInv
<1>2. /\ Pool(strings') /\ Used(strings) \subseteq Used(strings')
      /\ \A i \in Used(strings) : strings'[i] = strings[i]
  BY <1>1, FindIndexKeeps DEF Layout
<1>3. /\ Clients'
      /\ \A j \in Client : \A i \in Index :
           Told(names'[j], message'[j])[i] = Told(names[j], message[j])[i]
      /\ \A j \in Client : message'[j] = message[j] \/ message'[j] = <<>>
  BY <1>1, TransmitKeeps DEF Clients, Layout
<1>4. synced' = synced
  BY DEF Layout
<1>5. Others'
  BY <1>1, <1>2, <1>4 DEF Others, Used
<1>6. asked # 0 => asked \in Client
  BY DEF IInv, Knows
<1>7. Knows'
  BY <1>1, <1>2, <1>3, <1>4, <1>6, KnowsStays DEF Others
<1> QED BY <1>2, <1>3, <1>5, <1>7, PartsNext DEF IInv

LEMMA BeginKeeps ==
  ASSUME IInv, NEW k \in Client, Begin(k)
  PROVE  IInv'
<1>1. Others
  BY Parts DEF IInv
<1>2. PICK n \in Name : Layout(k, n)
  BY DEF Begin
<1>3. /\ client' = [client EXCEPT ![k] = "spawned"] /\ asked' = asked
      /\ client' \in [Client -> Stage]
  BY <1>1 DEF Begin, Others, Stage
<1>4. asked # 0 => client'[asked] \in {"baselines", "begin", "spawned"}
  BY <1>1, <1>3 DEF Others, IInv, Knows
<1> QED BY <1>2, <1>3, <1>4, LayoutKeeps

LEMMA ClientCommandKeeps ==
  ASSUME IInv, NEW k \in Client, ClientCommand(k)
  PROVE  IInv'
<1>1. Others
  BY Parts DEF IInv
<1>2. PICK n \in Name : Layout(k, n)
  BY DEF ClientCommand
<1>3. asked' = asked /\ client' = client
  BY DEF ClientCommand
<1>4. asked # 0 => client'[asked] \in {"baselines", "begin", "spawned"}
  BY <1>3 DEF IInv, Knows
<1> QED BY <1>1, <1>2, <1>3, <1>4, LayoutKeeps DEF Others

LEMMA FrameKeeps ==
  ASSUME IInv, Frame
  PROVE  IInv'
<1> DEFINE msg == Multicast(strings')
           s == strings'
<1>1. Pool(strings) /\ Clients /\ Others
  BY Parts DEF IInv
<1>2. /\ UNCHANGED strings \/ \E n \in Name : FindIndex(n)
      /\ synced' = synced \cup Used(s)
      /\ Transmit({k \in Client : client[k] = "spawned"}, msg)
      /\ UNCHANGED <<client, asked>>
  BY DEF Frame
<1>3. /\ Pool(s) /\ Used(strings) \subseteq Used(s)
      /\ \A i \in Used(strings) : s[i] = strings[i]
  BY <1>1, <1>2, FindIndexKeeps
<1>4. synced \subseteq Used(s) /\ synced' = Used(s)
  BY <1>1, <1>2, <1>3 DEF Others
<1> HIDE DEF s
<1>5. \A k \in Client : msg[k] = IF client[k] = "free" THEN message[k]
                                 ELSE WriteStrings(s, message[k], Used(s) \ synced)
  BY DEF Multicast, Unsynced, s
<1>6. DOMAIN msg = Client /\ msg = [k \in Client |-> msg[k]]
  BY DEF Multicast
<1> HIDE DEF msg
<1>7. ASSUME NEW k \in Client
      PROVE  msg[k] \in Sequenced /\ Len(msg[k]) <= MaxSize
  <2>1. message[k] \in Sequenced /\ Len(message[k]) <= MaxSize
    BY <1>1 DEF Clients
  <2> DEFINE set == Used(s) \ synced
             w == WriteStrings(s, message[k], set)
  <2>2. set \in SUBSET Used(s)
    OBVIOUS
  <2>3. msg[k] = IF client[k] = "free" THEN message[k] ELSE w
    BY <1>5
  <2> HIDE DEF set
  <2>4. w \in Sequenced /\ Len(w) <= MaxSize
    BY <1>3, <2>1, <2>2, StringsType
  <2> QED BY <2>1, <2>3, <2>4
<1>8. msg \in [Client -> Sequenced]
  BY <1>6, <1>7
<1>9. /\ Clients'
      /\ \A j \in Client : \A i \in Index :
           Told(names'[j], message'[j])[i] = Told(names[j], msg[j])[i]
      /\ \A j \in Client : message'[j] = msg[j] \/ message'[j] = <<>>
  BY <1>1, <1>2, <1>7, <1>8, TransmitKeeps DEF Clients
<1>10. Others'
  <2>1. synced' \subseteq Used(strings')
    BY <1>4 DEF s
  <2> QED BY <1>1, <1>2, <2>1 DEF Others, Used
<1>11. Knows'
  <2>1. CASE asked = 0
    BY <1>2, <2>1 DEF Knows
  <2>2. CASE asked # 0
    <3> DEFINE a == asked
    <3>1. /\ a \in Client /\ client[a] \in {"baselines", "begin", "spawned"}
          /\ \A i \in Index \ synced : Len(message[a]) < i
          /\ \A i \in synced : Told(names[a], message[a])[i] = Theme[strings[i]]
          /\ message[a] \in Sequenced /\ names[a] \in Table
      BY <1>1, <2>2 DEF IInv, Knows, Clients
    <3>2. \A i \in synced : Told(names[a], message[a])[i] = Theme[s[i]]
      BY <1>1, <1>3, <3>1 DEF Others
    <3> DEFINE w == WriteStrings(s, message[a], Used(s) \ synced)
    <3>3. msg[a] = w
      BY <1>5, <3>1
    <3> HIDE DEF a
    <3> DEFINE m == message[a]
               table == names[a]
    <3>20. /\ m \in Sequenced /\ table \in Table /\ synced \in SUBSET Used(s)
           /\ Pool(s) /\ w = WriteStrings(s, m, Used(s) \ synced)
           /\ Behind(m, synced) /\ TellsOf(s, table, m, synced)
      BY <1>3, <1>4, <3>1, <3>2 DEF Behind, TellsOf
    <3>21. table = names[a]
      OBVIOUS
    <3> HIDE DEF m, table, w
    <3>22. Behind(w, Used(s)) /\ TellsOf(s, table, w, Used(s))
      BY <3>20, FrameTellsAll
    <3>4. /\ \A i \in Index \ Used(s) : Len(w) < i
          /\ \A i \in Used(s) : Told(names[a], w)[i] = Theme[s[i]]
      BY <3>21, <3>22 DEF Behind, TellsOf
    <3>5. Len(<<>>) = 0 /\ \A i \in Index : 0 < i
      BY Indices
    <3>6. \A i \in Index \ Used(s) : Len(message'[a]) < i
      BY <1>9, <3>1, <3>3, <3>4, <3>5
    <3>7. \A i \in Used(s) : Told(names'[a], message'[a])[i] = Theme[s[i]]
      BY <1>9, <3>1, <3>3, <3>4 DEF Used
    <3>8. asked' = a /\ client' = client
      BY <1>2 DEF a
    <3>9. Told(names[asked], message[asked])' = Told(names'[a], message'[a])
      BY <3>8 DEF Told
    <3> QED BY <1>4, <3>1, <3>6, <3>7, <3>8, <3>9 DEF Knows, s
  <2> QED BY <2>1, <2>2
<1> QED BY <1>3, <1>9, <1>10, <1>11, PartsNext DEF IInv, s

LEMMA StepKeeps ==
  ASSUME IInv, [StringsNext]_stringsVars
  PROVE  IInv'
<1>1. ASSUME NEW k \in Client, New(k)
      PROVE  IInv'
  BY <1>1, AnswerKeeps DEF New, Stage
<1>2. ASSUME NEW k \in Client, Baselines(k)
      PROVE  IInv'
  BY <1>2, AnswerKeeps DEF Baselines, Stage
<1>3. CASE UNCHANGED stringsVars
  <2>1. Pool(strings) /\ Clients /\ Others
    BY Parts DEF IInv
  <2>2. Pool(strings') /\ Clients' /\ Others'
    BY <1>3, <2>1 DEF stringsVars, Clients, Others, Used, Sequenced, Table
  <2>3. Knows'
    BY <1>3, KnowsStays DEF stringsVars, IInv, Knows
  <2> QED BY <2>2, <2>3, PartsNext DEF IInv
<1> QED BY <1>1, <1>2, <1>3, ConnectKeeps, ConfigstringsKeeps, BeginKeeps,
           ClientCommandKeeps, FrameKeeps DEF StringsNext

THEOREM StringsHold == StringsSpec => []IInv
<1>1. StringsInit => IInv
  BY InitHolds
<1>2. IInv /\ [StringsNext]_stringsVars => IInv'
  BY StepKeeps
<1> QED BY <1>1, <1>2, PTL DEF StringsSpec

(* The pool has no holes and no name twice, what is marked is registered,  *)
(* and messages keep to their size (SV_FindIndex, SZ_GetSpace).            *)
THEOREM PoolCorrect == StringsSpec => []StringsTypeOK
<1>1. IInv => StringsTypeOK
  BY DEF IInv
<1> QED BY <1>1, StringsHold, PTL

(* The client that joined last has, or has on its way, every string that   *)
(* is marked as sent, under the server's index (SV_Configstrings_f,        *)
(* SV_SendClientMessages).                                                 *)
THEOREM LastToldHasAll == StringsSpec => []LastToldKnowsAll
<1>1. IInv => LastToldKnowsAll
  BY DEF IInv, Knows, LastToldKnowsAll
<1> QED BY <1>1, StringsHold, PTL

-----------------------------------------------------------------------------
(* The handshake: the client, the server's record, the messages in flight. *)

Peer == [state : {"disconnected", "connecting", "connected", "active"},
           world : Map, last_world : Map, world_loaded : BOOLEAN,
           begin_sent : BOOLEAN, refresh_prepped : BOOLEAN]
Server == [state : {"lobby", "game", "off"}, map : 1 .. MaxMap,
           record : {"free", "connected", "spawned"}]

(* What a message in flight to the client can say. *)
Carries(m) ==
  /\ m.svc \in Kind
  /\ m.svc = "mirror" => m.command \in Mirrored
  /\ m.svc = "configstring" => m.map \in 1 .. MaxMap
Carried(D) == \A m \in D : Carries(m)

(* What is prepared has a world, and belongs to a client that is answered. *)
Remembers(c) ==
  /\ c.refresh_prepped => c.world_loaded /\ c.world # NoMap
  /\ c.state = "active" => c.refresh_prepped
  /\ c.state \in {"disconnected", "connecting"} => ~c.refresh_prepped

Handshake ==
  /\ sv \in Server /\ cls \in Peer /\ Remembers(cls)
  /\ out \subseteq Command /\ overdue \in BOOLEAN /\ wire \in BOOLEAN
  /\ up \subseteq Command \cup {"connect"}
  /\ Carried(down)
  /\ connects \in 0 .. MaxConnects /\ faults \in 0 .. MaxFaults

-----------------------------------------------------------------------------
(* What the helpers make of the parts. *)
LEMMA SentCarried ==
  ASSUME NEW D, NEW P, Carried(D), Carried(P)
  PROVE  Carried(D \cup Sent(P))
  BY DEF Carried, Sent

LEMMA Made ==
  /\ Carries(Svc("client_connect")) /\ Carries(Svc("setup"))
  /\ Carries(Svc("frame")) /\ Carries(Svc("disconnect"))
  /\ \A c \in Mirrored : Carries(Mirror(c))
  /\ \A n \in 1 .. MaxMap : Carries(World(n))
  BY DEF Carries, Svc, Mirror, World, Message, Kind, Mirrored

LEMMA AnswerCarried ==
  ASSUME sv \in Server, NEW c
  PROVE  Carried(Answer(c))
<1>1. CASE c = "new"
  <2>1. Answer(c) = {IF sv.state = "lobby" THEN Svc("setup") ELSE Mirror("configstrings")}
    BY <1>1 DEF Answer
  <2>2. QED  BY <2>1, Made DEF Carried, Mirrored
<1>2. CASE c = "configstrings"
  <2>1. Answer(c) = {World(sv.map), Mirror("baselines")}
    BY <1>2 DEF Answer
  <2>2. sv.map \in 1 .. MaxMap  BY DEF Server
  <2>3. QED  BY <2>1, <2>2, Made DEF Carried, Mirrored
<1>3. CASE c = "baselines"
  <2>1. Answer(c) = {Mirror("playerinfo")}  BY <1>3 DEF Answer
  <2>2. QED  BY <2>1, Made DEF Carried, Mirrored
<1>4. CASE c \notin {"new", "configstrings", "baselines"}
  <2>1. Answer(c) = {}  BY <1>4 DEF Answer
  <2>2. QED  BY <2>1 DEF Carried
<1>5. QED  BY <1>1, <1>2, <1>3, <1>4

(* A packet that the server reads: its record and the messages in flight   *)
(* stay sound, whichever packet it is.                                     *)
LEMMA ReceiveSound ==
  ASSUME sv \in Server, Carried(down), NEW c, Receive(c)
  PROVE  sv' \in Server /\ Carried(down')
<1>1. CASE c = "connect"
  <2>1. CASE Admit
    <3>1. CASE UNCHANGED <<sv, down>>
      BY <3>1
    <3>2. CASE /\ sv' = [sv EXCEPT !.record = "connected"]
               /\ down' = down \cup
                    Sent({Svc("client_connect")} \cup
                         IF sv.state = "lobby" THEN {Svc("setup")} ELSE {})
      <4> DEFINE P == {Svc("client_connect")} \cup
                         IF sv.state = "lobby" THEN {Svc("setup")} ELSE {}
      <4>1. Carried(P)  BY Made DEF Carried
      <4>2. Carried(down')  BY <3>2, <4>1, SentCarried
      <4>3. sv' \in Server  BY <3>2 DEF Server
      <4>4. QED  BY <4>2, <4>3
    <3>3. QED  BY <2>1, <3>1, <3>2 DEF Admit
  <2>2. CASE UNCHANGED <<sv, down>>
    BY <2>2
  <2>3. QED  BY <1>1, <2>1, <2>2 DEF Receive, DirectConnect
<1>2. CASE c # "connect" /\ sv.record # "free"
  <2>1. ExecuteUserCommand(c)  BY <1>2 DEF Receive
  <2>2. Carried(down')
    BY <2>1, AnswerCarried, SentCarried DEF ExecuteUserCommand
  <2>3. sv' \in Server  BY <2>1 DEF ExecuteUserCommand, Server
  <2>4. QED  BY <2>2, <2>3
<1>3. CASE c # "connect" /\ sv.record = "free"
  BY <1>3 DEF Receive
<1>4. QED  BY <1>1, <1>2, <1>3

(* The parts of the client, and of what it sends. *)
ClientSound ==
  /\ cls \in Peer /\ Remembers(cls)
  /\ out \subseteq Command /\ overdue \in BOOLEAN
  /\ up \subseteq Command \cup {"connect"}

LEMMA DisconnectSound ==
  ASSUME ClientSound, Disconnect
  PROVE  ClientSound'
<1>1. cls' = [cls EXCEPT !.state = "disconnected", !.world = NoMap,
                         !.refresh_prepped = FALSE]
  BY DEF Disconnect
<1>2. cls' \in Peer
  <2>1. NoMap \in Map  BY BoundsAssumption DEF NoMap, Map
  <2>2. QED  BY <1>1, <2>1 DEF ClientSound, Peer
<1>3. Remembers(cls')  BY <1>1, <1>2 DEF ClientSound, Peer, Remembers
<1>4. up' \subseteq Command \cup {"connect"}
  BY DEF Disconnect, ClientSound, Sent, Command
<1>5. out' \subseteq Command /\ overdue' \in BOOLEAN  BY DEF Disconnect
<1>6. QED  BY <1>2, <1>3, <1>4, <1>5 DEF ClientSound

LEMMA ParseSound ==
  ASSUME ClientSound, NEW m, Carries(m), Parse(m)
  PROVE  ClientSound'
<1> USE DEF ClientSound
<1>1. CASE m.svc = "client_connect"
  <2>1. /\ out' = out \cup {"new"} /\ overdue' = FALSE /\ up' = up
        /\ cls' = IF Online THEN cls ELSE [cls EXCEPT !.state = "connected"]
    BY <1>1 DEF Parse
  <2>2. cls' \in Peer /\ Remembers(cls')
    BY <2>1 DEF Peer, Remembers, Online
  <2>3. QED  BY <2>1, <2>2 DEF Command
<1>2. CASE m.svc = "mirror"
  <2>1. m.command \in Mirrored  BY <1>2 DEF Carries
  <2>2. QED  BY <1>2, <2>1 DEF Parse, Command
<1>3. CASE m.svc = "configstring"
  <2>1. /\ cls' = [cls EXCEPT !.world = m.map, !.last_world = m.map,
                           !.state = IF m.map = cls.last_world THEN @
                                     ELSE "connected"]
        /\ overdue' = FALSE /\ UNCHANGED <<out, up>>
    BY <1>3 DEF Parse
  <2>2. m.map \in 1 .. MaxMap  BY <1>3 DEF Carries
  <2>3. m.map \in Map /\ m.map # NoMap
    BY <2>2, BoundsAssumption DEF Map, NoMap
  <2>4. cls' \in Peer  BY <2>1, <2>3 DEF Peer
  <2>5. Remembers(cls')  BY <2>1, <2>3, <2>4 DEF Peer, Remembers
  <2>6. QED  BY <2>1, <2>4, <2>5
<1>4. CASE m.svc = "frame"
  <2>1. /\ cls' = [cls EXCEPT !.state = IF cls.refresh_prepped THEN "active"
                                                               ELSE @]
        /\ overdue' = FALSE /\ UNCHANGED <<out, up>>
    BY <1>4 DEF Parse
  <2>2. cls' \in Peer /\ Remembers(cls')
    BY <2>1 DEF Peer, Remembers
  <2>3. QED  BY <2>1, <2>2
<1>5. CASE m.svc = "disconnect"
  BY <1>5, DisconnectSound DEF Parse
<1>6. CASE m.svc = "setup"
  BY <1>6 DEF Parse
<1>7. QED
  BY <1>1, <1>2, <1>3, <1>4, <1>5, <1>6 DEF Carries, Kind

LEMMA PrepRefreshSound ==
  ASSUME cls \in Peer, Remembers(cls), PrepRefresh
  PROVE  cls' \in Peer /\ Remembers(cls')
  BY DEF PrepRefresh, Preparing, Peer, Remembers

-----------------------------------------------------------------------------
LEMMA HandshakeInit ==
  ASSUME Init
  PROVE  Handshake
<1>1. 0 \in Map /\ 0 \in 0 .. MaxConnects /\ 0 \in 0 .. MaxFaults
      /\ 1 \in 1 .. MaxMap
  BY BoundsAssumption DEF Map
<1>2. sv \in Server  BY <1>1 DEF Init, Server
<1>3. cls \in Peer /\ Remembers(cls)
  BY <1>1 DEF Init, Peer, Remembers, NoMap
<1>4. QED  BY <1>1, <1>2, <1>3 DEF Init, Handshake, Carried

(* One step of the server. *)
LEMMA ServerStep ==
  ASSUME Handshake,
         ServerReads \/ ServerSends \/ StartMap \/ NextMap \/ Shutdown \/ Crash
  PROVE  Handshake'
<1> USE DEF Handshake
<1>1. CASE ServerReads
  <2>1. PICK c \in up : /\ Receive(c) /\ up' = up \ {c}
                        /\ UNCHANGED <<clientVars, wire, connects, faults>>
    BY <1>1 DEF ServerReads
  <2>2. sv' \in Server /\ Carried(down')  BY <2>1, ReceiveSound
  <2>3. QED  BY <2>1, <2>2 DEF clientVars, Remembers
<1>2. CASE ServerSends
  <2>1. Carried(down')
    BY <1>2, Made, SentCarried DEF ServerSends, Carried
  <2>2. QED  BY <1>2, <2>1 DEF ServerSends, clientVars
<1>3. CASE StartMap
  <2>1. Carried(down')
    BY <1>3, Made DEF StartMap, Carried, Sent
  <2>2. sv' \in Server  BY <1>3 DEF StartMap, Server
  <2>3. QED  BY <1>3, <2>1, <2>2 DEF StartMap, clientVars
<1>4. CASE NextMap
  <2>1. sv.map \in 1 .. MaxMap /\ sv.map < MaxMap  BY <1>4 DEF NextMap, Server
  <2>2. sv.map + 1 \in 1 .. MaxMap  BY <2>1, BoundsAssumption
  <2>3. sv' \in Server  BY <1>4, <2>2 DEF NextMap, Server
  <2>4. QED  BY <1>4, <2>3 DEF NextMap, clientVars, networkVars
<1>5. CASE Shutdown
  <2>1. Carried(down')
    BY <1>5, Made, SentCarried DEF Shutdown, Carried
  <2>2. sv' \in Server  BY <1>5 DEF Shutdown, Server
  <2>3. QED  BY <1>5, <2>1, <2>2 DEF Shutdown, clientVars
<1>6. CASE Crash
  <2>1. sv' \in Server  BY <1>6 DEF Crash, Server
  <2>2. QED  BY <1>6, <2>1 DEF Crash, clientVars, networkVars
<1>7. QED  BY <1>1, <1>2, <1>3, <1>4, <1>5, <1>6

(* One step of the client. *)
LEMMA ClientStep ==
  ASSUME Handshake, ConnectTo \/ ClientFrame \/ (\E k \in Kind : ClientReads(k))
  PROVE  Handshake'
<1>1. CASE ConnectTo
  <2>1. connects' \in 0 .. MaxConnects
    <3>1. connects \in 0 .. MaxConnects /\ connects < MaxConnects
      BY <1>1 DEF Handshake, ConnectTo
    <3>2. connects + 1 \in 0 .. MaxConnects  BY <3>1, BoundsAssumption
    <3>3. QED  BY <1>1, <3>2 DEF ConnectTo
  <2>2. cls' \in Peer /\ Remembers(cls')
    BY <1>1 DEF Handshake, ConnectTo, Peer, Remembers
  <2>3. up' \subseteq Command \cup {"connect"} /\ out' \subseteq Command
    BY <1>1 DEF Handshake, ConnectTo, Sent
  <2>4. QED  BY <1>1, <2>1, <2>2, <2>3 DEF Handshake, ConnectTo
<1>2. CASE ClientFrame
  <2>0. ClientSound /\ UNCHANGED <<sv, down, wire, connects, faults>>
    BY <1>2 DEF Handshake, ClientSound, ClientFrame
  <2>1. CASE Disconnect
    <3>1. ClientSound'  BY <2>0, <2>1, DisconnectSound
    <3>2. QED  BY <2>0, <3>1 DEF Handshake, ClientSound
  <2>2. CASE /\ up' = up \cup IF Online THEN Sent(out) ELSE {}
             /\ out' = (IF Online THEN {} ELSE out)
                         \cup (IF Begins THEN {"begin"} ELSE {})
             /\ PrepRefresh
             /\ UNCHANGED overdue
    <3>1. cls' \in Peer /\ Remembers(cls')
      BY <2>0, <2>2, PrepRefreshSound DEF ClientSound
    <3>2. up' \subseteq Command \cup {"connect"} /\ out' \subseteq Command
      BY <2>0, <2>2 DEF ClientSound, Sent, Command
    <3>3. QED  BY <2>0, <2>2, <3>1, <3>2 DEF Handshake
  <2>3. QED  BY <1>2, <2>1, <2>2 DEF ClientFrame
<1>3. CASE \E k \in Kind : ClientReads(k)
  <2>1. PICK m \in down : /\ Parse(m) /\ down' = down \ {m}
                          /\ UNCHANGED <<sv, wire, connects, faults>>
    BY <1>3 DEF ClientReads
  <2>2. Carries(m) /\ ClientSound  BY <2>1 DEF Handshake, Carried, ClientSound
  <2>3. ClientSound'  BY <2>1, <2>2, ParseSound
  <2>4. Carried(down')  BY <2>1 DEF Handshake, Carried
  <2>5. QED  BY <2>1, <2>3, <2>4 DEF Handshake, ClientSound
<1>4. QED  BY <1>1, <1>2, <1>3

(* One step of the network, or of the clock. *)
LEMMA NetworkStep ==
  ASSUME Handshake, TimePasses \/ Fault \/ Mend
  PROVE  Handshake'
<1>1. CASE TimePasses
  BY <1>1 DEF Handshake, TimePasses, networkVars
<1>2. CASE Mend
  BY <1>2 DEF Handshake, Mend, serverVars, clientVars
<1>3. CASE Fault
  <2>1. faults' \in 0 .. MaxFaults /\ connects' = connects
    <3>1. faults \in 0 .. MaxFaults /\ faults < MaxFaults
      BY <1>3 DEF Handshake, Fault
    <3>2. faults + 1 \in 0 .. MaxFaults  BY <3>1, BoundsAssumption
    <3>3. QED  BY <1>3, <3>2 DEF Fault
  <2>2. CASE Lose /\ UNCHANGED <<serverVars, clientVars>>
    <3>1. down' \subseteq down /\ up' \subseteq up /\ wire' = wire
      BY <2>2 DEF Lose
    <3>2. Carried(down')  BY <3>1 DEF Handshake, Carried
    <3>3. QED  BY <2>1, <2>2, <3>1, <3>2 DEF Handshake, serverVars, clientVars
  <2>3. CASE Repeat /\ wire' = wire
    <3>1. CASE \E c \in up : Receive(c) /\ UNCHANGED <<clientVars, up>>
      <4>1. PICK c \in up : Receive(c) /\ UNCHANGED <<clientVars, up>>
        BY <3>1
      <4>2. sv' \in Server /\ Carried(down')
        BY <4>1, ReceiveSound DEF Handshake
      <4>3. QED  BY <2>1, <2>3, <4>1, <4>2 DEF Handshake, clientVars
    <3>2. CASE \E m \in down : Parse(m) /\ UNCHANGED <<sv, down>>
      <4>1. PICK m \in down : Parse(m) /\ UNCHANGED <<sv, down>>
        BY <3>2
      <4>2. Carries(m) /\ ClientSound
        BY <4>1 DEF Handshake, Carried, ClientSound
      <4>3. ClientSound'  BY <4>1, <4>2, ParseSound
      <4>4. QED  BY <2>1, <2>3, <4>1, <4>3 DEF Handshake, ClientSound
    <3>3. QED  BY <2>3, <3>1, <3>2 DEF Repeat
  <2>4. CASE wire' = FALSE /\ UNCHANGED <<serverVars, clientVars, up, down>>
    BY <2>1, <2>4 DEF Handshake, serverVars, clientVars
  <2>5. QED  BY <1>3, <2>2, <2>3, <2>4 DEF Fault
<1>4. QED  BY <1>1, <1>2, <1>3

(* The invariant of the join. *)
THEOREM HandshakeHolds == Spec => []Handshake
<1>1. Handshake /\ [Next]_vars => Handshake'
  <2> SUFFICES ASSUME Handshake, [Next]_vars PROVE Handshake'
    OBVIOUS
  <2>1. CASE UNCHANGED vars
    BY <2>1 DEF vars, Handshake, Carried, Remembers
  <2>2. CASE Next
    BY <2>2, ServerStep, ClientStep, NetworkStep DEF Next
  <2>3. QED  BY <2>1, <2>2
<1>2. QED  BY <1>1, HandshakeInit, PTL DEF Spec

(* The types of the join hold, and a client that plays has a map loaded,   *)
(* whatever packets of an earlier session it reads (client/cl_parse.c).    *)
THEOREM TypeCorrect == Spec => []TypeOK
<1>1. Handshake => TypeOK
  BY DEF Handshake, TypeOK, Server, Peer, Remembers, Carried, Carries
<1>2. QED  BY <1>1, HandshakeHolds, PTL

-----------------------------------------------------------------------------
(* A client that asks again for a record it still has. *)

(* The server answers neither its "connect" nor a "disconnect" with        *)
(* anything: the record stays as it is.                                    *)
LEMMA Unanswered ==
  ASSUME sv \in Server, sv.record # "free", NEW c, c \in {"connect", "disconnect"},
         Receive(c)
  PROVE  sv' = sv /\ down' = down
<1>1. CASE c = "connect"
  BY <1>1 DEF Receive, DirectConnect, Admit
<1>2. CASE c = "disconnect"
  <2>1. Answer(c) = {}  BY <1>2 DEF Answer
  <2>2. QED  BY <1>2, <2>1 DEF Receive, ExecuteUserCommand, Sent
<1>3. QED  BY <1>1, <1>2

(* A frame that arrives does not bring the client into the game: nothing   *)
(* is prepared.                                                            *)
LEMMA FrameChangesNothing ==
  ASSUME Handshake, LockedOut, NEW m \in down, Parse(m)
  PROVE  cls' = cls /\ up' = up
<1>1. m = Svc("frame")  BY DEF LockedOut
<1>2. m.svc = "frame"  BY <1>1 DEF Svc, Message
<1>3. ~cls.refresh_prepped  BY DEF Handshake, LockedOut, Remembers
<1>4. cls' = [cls EXCEPT !.state = @] /\ up' = up
  BY <1>2, <1>3 DEF Parse
<1>5. QED  BY <1>4 DEF Handshake, Peer

(* NoWayBack: what the client that asked again does, what the server reads *)
(* and what the network loses or repeats leave it locked out, as long as   *)
(* the map runs and the server does (server/sv_init.c:151).                *)
LEMMA LockedOutStep ==
  ASSUME Handshake, LockedOut, [Next]_vars, sv'.state = sv.state, sv'.map = sv.map
  PROVE  LockedOut'
<1> USE DEF LockedOut
<1>0. /\ sv \in Server /\ cls.state = "connecting" /\ sv.record # "free"
      /\ ~Online /\ ~Preparing
  BY DEF Handshake, Online, Preparing
<1>1. CASE UNCHANGED vars
  BY <1>1 DEF vars
<1>2. CASE ServerReads
  <2>1. PICK c \in up : Receive(c) /\ up' = up \ {c} /\ UNCHANGED clientVars
    BY <1>2 DEF ServerReads
  <2>2. sv' = sv /\ down' = down  BY <1>0, <2>1, Unanswered
  <2>3. QED  BY <2>1, <2>2 DEF clientVars
<1>3. CASE ServerSends
  BY <1>3 DEF ServerSends, clientVars, Sent
<1>4. CASE StartMap \/ Shutdown \/ Crash
  <2>1. sv'.state # sv.state
    BY <1>0, <1>4 DEF StartMap, Shutdown, Crash, Running, Server
  <2>2. QED  BY <2>1
<1>5. CASE NextMap
  <2>1. sv'.map = sv.map + 1 /\ sv.map \in 1 .. MaxMap
    BY <1>0, <1>5 DEF NextMap, Server
  <2>2. QED  BY <2>1
<1>6. CASE ConnectTo
  BY <1>0, <1>6 DEF ConnectTo, Sent, Handshake, Peer
<1>7. CASE ClientFrame
  <2>1. up' = up /\ cls' = cls /\ UNCHANGED <<sv, down>>
    BY <1>0, <1>7 DEF ClientFrame, PrepRefresh
  <2>2. QED  BY <2>1
<1>8. CASE \E k \in Kind : ClientReads(k)
  <2>1. PICK m \in down : Parse(m) /\ down' = down \ {m} /\ sv' = sv
    BY <1>8 DEF ClientReads
  <2>2. cls' = cls /\ up' = up  BY <2>1, FrameChangesNothing
  <2>3. QED  BY <2>1, <2>2
<1>9. CASE TimePasses \/ Mend
  BY <1>9 DEF TimePasses, Mend, serverVars, clientVars, networkVars
<1>10. CASE Fault
  <2>1. CASE Lose /\ UNCHANGED <<serverVars, clientVars>>
    BY <2>1 DEF Lose, serverVars, clientVars
  <2>2. CASE Repeat
    <3>1. CASE \E c \in up : Receive(c) /\ UNCHANGED <<clientVars, up>>
      BY <1>0, <3>1, Unanswered DEF clientVars
    <3>2. CASE \E m \in down : Parse(m) /\ UNCHANGED <<sv, down>>
      BY <3>2, FrameChangesNothing
    <3>3. QED  BY <2>2, <3>1, <3>2 DEF Repeat
  <2>3. CASE UNCHANGED <<serverVars, clientVars, up, down>>
    BY <2>3 DEF serverVars, clientVars
  <2>4. QED  BY <1>10, <2>1, <2>2, <2>3 DEF Fault
<1>11. QED
  BY <1>1, <1>2, <1>3, <1>4, <1>5, <1>6, <1>7, <1>8, <1>9, <1>10 DEF Next

(* A client that asks again while the server still has its record is not   *)
(* answered as long as that map runs, however often it asks, and whatever  *)
(* the network does.                                                       *)
THEOREM NeverAnswered == Spec => NoWayBack
<1>1. Handshake /\ [Next]_vars =>
        [LockedOut /\ sv'.state = sv.state /\ sv'.map = sv.map => LockedOut']_vars
  BY LockedOutStep
<1>2. QED  BY <1>1, HandshakeHolds, PTL DEF Spec, NoWayBack
==============================================================================
