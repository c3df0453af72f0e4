------------------------------ MODULE ViewProofs ------------------------------
(***************************************************************************)
(* Proofs about what a client is shown: the entities (DeltaView) and the   *)
(* fog of war (Fog), for every set of clients, entities, fields and        *)
(* values, every grid, map and set of units, trees and modifiers, and      *)
(* every number of messages in flight.                                     *)
(*                                                                         *)
(* The entities: a message in flight to a client that has joined is the    *)
(* difference between two frames that follow one another, the first of     *)
(* them being the one the client will have read last when it reads the     *)
(* message.  What it then finds in its table, it patches rightly.          *)
(*                                                                         *)
(* The fog: the loops of G_FowUpdate show what each unit sees by itself    *)
(* and rims, in whatever order the units come; the chunks a plane is cut   *)
(* into cover the rows that are marked; unpacking undoes packing; hence a  *)
(* client has after a message the rows in it as the server had them, and   *)
(* a row in none of them is as it was, or was marked.                      *)
(***************************************************************************)
EXTENDS DeltaView, Fog, FiniteSetTheorems, WellFoundedInduction, TLAPS

-----------------------------------------------------------------------------
(* Entities. *)

-----------------------------------------------------------------------------
(* The operators on states, differences and tables keep their types.       *)

LEMMA NoStateType == NoState \in [Field -> Value]
BY StateAssumption DEF NoState

LEMMA FrameState ==
  ASSUME NEW frame \in Frame, NEW n \in Num, frame[n] # Absent
  PROVE  frame[n] \in State /\ frame[n] \in [Field -> Value]
BY StateAssumption DEF Frame

LEMMA ChangedType ==
  ASSUME NEW old \in [Field -> Value], NEW new \in [Field -> Value]
  PROVE  /\ Changed(old, new) \in [Field -> Value \cup {Same}]
         /\ Changed(old, new) # Removed
<1>1. Changed(old, new) \in [Field -> Value \cup {Same}]
  BY StateAssumption DEF Changed
<1> QED BY <1>1, MarkAssumption

LEMMA PatchedType ==
  ASSUME NEW state \in [Field -> Value],
         NEW update \in [Field -> Value \cup {Same}]
  PROVE  Patched(state, update) \in [Field -> Value]
BY DEF Patched

(* The update of one entity, by the frames it is in. *)
LEMMA DeltaCases ==
  ASSUME NEW old \in Frame, NEW new \in Frame, NEW base \in [Num -> State],
         NEW n \in Num
  PROVE  /\ Delta(old, new, base)[n] \in Update
         /\ new[n] = Absent /\ old[n] = Absent =>
              Delta(old, new, base)[n] = [f \in Field |-> Same]
         /\ new[n] = Absent /\ old[n] # Absent =>
              Delta(old, new, base)[n] = Removed
         /\ new[n] # Absent /\ old[n] = Absent =>
              Delta(old, new, base)[n] = Changed(base[n], new[n])
         /\ new[n] # Absent /\ old[n] # Absent =>
              Delta(old, new, base)[n] = Changed(old[n], new[n])
<1>1. base[n] \in [Field -> Value]
  BY StateAssumption
<1>2. CASE new[n] = Absent
  BY <1>2 DEF Delta, Update
<1>3. CASE new[n] # Absent /\ old[n] = Absent
  <2>1. Changed(base[n], new[n]) \in [Field -> Value \cup {Same}]
    BY <1>1, <1>3, FrameState, ChangedType
  <2> QED BY <1>3, <2>1 DEF Delta, Update
<1>4. CASE new[n] # Absent /\ old[n] # Absent
  <2>1. Changed(old[n], new[n]) \in [Field -> Value \cup {Same}]
    BY <1>4, FrameState, ChangedType
  <2> QED BY <1>4, <2>1 DEF Delta, Update
<1> QED BY <1>2, <1>3, <1>4

LEMMA DeltaType ==
  ASSUME NEW old \in Frame, NEW new \in Frame, NEW base \in [Num -> State]
  PROVE  Delta(old, new, base) \in [Num -> Update]
<1>1. \A n \in Num : Delta(old, new, base)[n] \in Update
  BY DeltaCases
<1>2. Delta(old, new, base) = [n \in Num |-> Delta(old, new, base)[n]]
  BY DEF Delta
<1> QED BY <1>1, <1>2

LEMMA AppliedType ==
  ASSUME NEW table \in [Num -> [Field -> Value]], NEW delta \in [Num -> Update]
  PROVE  Applied(table, delta) \in [Num -> [Field -> Value]]
<1>1. ASSUME NEW n \in Num, delta[n] # Removed
      PROVE  Patched(table[n], delta[n]) \in [Field -> Value]
  <2>1. delta[n] \in [Field -> Value \cup {Same}]
    BY <1>1 DEF Update
  <2> QED BY <2>1, PatchedType
<1> QED BY <1>1, NoStateType DEF Applied

LEMMA PrimedType ==
  ASSUME NEW table \in [Num -> [Field -> Value]], NEW states \in Frame
  PROVE  Primed(table, states) \in [Num -> [Field -> Value]]
<1>1. ASSUME NEW n \in Num, states[n] # Absent
      PROVE  Patched(NoState, Changed(NoState, states[n])) \in [Field -> Value]
  <2>1. Changed(NoState, states[n]) \in [Field -> Value \cup {Same}]
    BY <1>1, NoStateType, FrameState, ChangedType
  <2> QED BY <2>1, NoStateType, PatchedType
<1> QED BY <1>1 DEF Primed

LEMMA ListedType ==
  ASSUME edicts \in [Num -> State]
  PROVE  Listed \in Frame
BY DEF Listed, Frame

LEMMA EmptyFrameType == EmptyFrame \in Frame
BY DEF EmptyFrame, Frame

-----------------------------------------------------------------------------
(* What a step changes of one client's channel. *)

LEMMA MessageParts ==
  ASSUME NEW m \in Message
  PROVE  /\ m.kind = "baselines" => m.states \in Frame
         /\ m.kind = "frame" => m.new \in Frame /\ m.delta \in [Num -> Update]
         /\ m.kind \in {"baselines", "frame"}
BY DEF Message

LEMMA ChannelAppend ==
  ASSUME NEW S, NEW q \in Seq(S), NEW m \in S
  PROVE  /\ Append(q, m) \in Seq(S)
         /\ Len(Append(q, m)) = Len(q) + 1
         /\ \A i \in 1 .. Len(q) : Append(q, m)[i] = q[i]
         /\ Append(q, m)[Len(q) + 1] = m
BY SMT

LEMMA ChannelTail ==
  ASSUME NEW S, NEW q \in Seq(S), q # <<>>
  PROVE  /\ Tail(q) \in Seq(S)
         /\ Head(q) \in S /\ Head(q) = q[1]
         /\ Len(q) \in Nat \ {0}
         /\ Len(Tail(q)) = Len(q) - 1
         /\ \A i \in 1 .. Len(q) - 1 : Tail(q)[i] = q[i + 1]
BY SMT

-----------------------------------------------------------------------------
(* The types are kept. *)

LEMMA TypeInit == Init => TypeOK
<1> SUFFICES ASSUME Init PROVE TypeOK
  OBVIOUS
<1>1. edicts \in [Num -> State] /\ baselines \in [Num -> State]
  BY StateAssumption DEF Init
<1>2. <<>> \in Seq(Message)
  OBVIOUS
<1> QED BY <1>1, <1>2, EmptyFrameType, NoStateType DEF Init, TypeOK

LEMMA TypeSend ==
  ASSUME TypeOK, NEW c \in Client, NEW m \in Message, Send(c, m)
  PROVE  chan' \in [Client -> Seq(Message)]
<1>1. Append(chan[c], m) \in Seq(Message)
  BY ChannelAppend DEF TypeOK
<1> QED BY <1>1 DEF Send, TypeOK

LEMMA TypeNext == TypeOK /\ [Next]_vars => TypeOK'
<1> SUFFICES ASSUME TypeOK, [Next]_vars PROVE TypeOK'
  OBVIOUS
<1>1. CASE UNCHANGED vars
  BY <1>1 DEF vars, TypeOK
<1>2. CASE RunGameFrame
  BY <1>2 DEF RunGameFrame, TypeOK
<1>3. ASSUME NEW c \in Client, Baselines(c) PROVE TypeOK'
  <2>1. [kind |-> "baselines", states |-> Listed] \in Message
    BY ListedType DEF TypeOK, Message
  <2>2. chan' \in [Client -> Seq(Message)]
    BY <1>3, <2>1, TypeSend DEF Baselines
  <2> QED BY <1>3, <2>2 DEF Baselines, TypeOK
<1>4. ASSUME NEW c \in Client, Begin(c) PROVE TypeOK'
  BY <1>4, EmptyFrameType DEF Begin, TypeOK
<1>5. ASSUME NEW c \in Client, SendFrame(c) PROVE TypeOK'
  <2>1. PICK new \in [Num -> Shown \cup {Absent}] :
          /\ Send(c, [kind |-> "frame", new |-> new,
                      delta |-> Delta(from[c], new, baselines)])
          /\ from' = [from EXCEPT ![c] = new]
    BY <1>5 DEF SendFrame
  <2>2. new \in Frame
    BY StateAssumption DEF Frame
  <2>3. Delta(from[c], new, baselines) \in [Num -> Update]
    BY <2>2, DeltaType DEF TypeOK
  <2>4. [kind |-> "frame", new |-> new,
         delta |-> Delta(from[c], new, baselines)] \in Message
    BY <2>2, <2>3 DEF Message
  <2>5. chan' \in [Client -> Seq(Message)]
    BY <2>1, <2>4, TypeSend
  <2> QED BY <1>5, <2>1, <2>2, <2>5 DEF SendFrame, TypeOK
<1>6. ASSUME NEW c \in Client, ReadBaselines(c) PROVE TypeOK'
  <2>1. Tail(chan[c]) \in Seq(Message) /\ Head(chan[c]) \in Message
    BY <1>6, ChannelTail DEF ReadBaselines, TypeOK
  <2>2. Primed(view[c], Head(chan[c]).states) \in [Num -> [Field -> Value]]
    BY <1>6, <2>1, MessageParts, PrimedType DEF ReadBaselines, TypeOK
  <2> QED BY <1>6, <2>1, <2>2 DEF ReadBaselines, TypeOK
<1>7. ASSUME NEW c \in Client, ReadFrame(c) PROVE TypeOK'
  <2>1. Tail(chan[c]) \in Seq(Message) /\ Head(chan[c]) \in Message
    BY <1>7, ChannelTail DEF ReadFrame, TypeOK
  <2>2. /\ Head(chan[c]).new \in Frame
        /\ Head(chan[c]).delta \in [Num -> Update]
    BY <1>7, <2>1, MessageParts DEF ReadFrame
  <2>3. Applied(view[c], Head(chan[c]).delta) \in [Num -> [Field -> Value]]
    BY <2>2, AppliedType DEF TypeOK
  <2> QED BY <1>7, <2>1, <2>2, <2>3 DEF ReadFrame, TypeOK
<1> QED BY <1>1, <1>2, <1>3, <1>4, <1>5, <1>6, <1>7 DEF Next

(* The game's entities, the frames, the messages and every client's entity *)
(* table keep their types: no mark of an unset field or a removed entity   *)
(* ever lands in a table.                                                  *)
THEOREM TypeCorrect == Spec => []TypeOK
BY TypeInit, TypeNext, PTL DEF Spec

-----------------------------------------------------------------------------
(* The inductive invariant.  A client that has not joined has seen no      *)
(* frame; one that has is sent frames only, each the difference to the one *)
(* before it in its channel, or to the one it has read last.               *)
Before(c, i) == IF i = 1 THEN applied[c] ELSE chan[c][i - 1].new

Joining(c) ==
  cs[c] # "spawned" =>
    /\ cs[c] = "connected" => chan[c] = <<>>
    /\ applied[c] = EmptyFrame /\ known[c] = {} /\ c \notin pending
    /\ \A i \in 1 .. Len(chan[c]) : chan[c][i].kind = "baselines"

Chained(c) ==
  cs[c] = "spawned" =>
    /\ from[c] = Before(c, Len(chan[c]) + 1)
    /\ \A i \in 1 .. Len(chan[c]) :
         /\ chan[c][i].kind = "frame"
         /\ chan[c][i].delta = Delta(Before(c, i), chan[c][i].new, baselines)

InOrder == \A c \in Client : Joining(c) /\ Chained(c)

LEMMA OrderInit == Init => InOrder
<1> SUFFICES ASSUME Init, NEW c \in Client PROVE Joining(c) /\ Chained(c)
  BY DEF InOrder
<1>1. /\ cs[c] = "connected" /\ chan[c] = <<>> /\ applied[c] = EmptyFrame
      /\ known[c] = {} /\ pending = {}
  BY DEF Init
<1>2. \A i \in 1 .. Len(chan[c]) : chan[c][i].kind = "baselines"
  BY <1>1
<1> QED BY <1>1, <1>2 DEF Joining, Chained

(* What a client's part of the invariant depends on. *)
LEMMA OrderKept ==
  ASSUME InOrder, NEW d \in Client,
         cs'[d] = cs[d], chan'[d] = chan[d], applied'[d] = applied[d],
         known'[d] = known[d], from'[d] = from[d], baselines' = baselines,
         cs[d] = "spawned" \/ d \notin pending'
  PROVE  (Joining(d) /\ Chained(d))'
BY DEF InOrder, Joining, Chained, Before

LEMMA OrderBaselines ==
  ASSUME TypeOK, InOrder, NEW c \in Client, Baselines(c)
  PROVE  (Joining(c) /\ Chained(c))'
<1> DEFINE m == [kind |-> "baselines", states |-> Listed]
<1>1. cs'[c] = "primed" /\ chan[c] = <<>>
  BY DEF Baselines, TypeOK, InOrder, Joining
<1>2. chan'[c] = Append(chan[c], m)
  BY DEF Baselines, Send, TypeOK
<1>3. chan'[c] = <<m>>
  BY <1>1, <1>2
<1>4. \A i \in 1 .. Len(chan'[c]) : chan'[c][i].kind = "baselines"
  BY <1>3
<1>5. /\ applied'[c] = EmptyFrame /\ known'[c] = {} /\ c \notin pending'
  BY DEF Baselines, InOrder, Joining
<1> QED BY <1>1, <1>4, <1>5 DEF Joining, Chained

LEMMA OrderBegin ==
  ASSUME TypeOK, InOrder, NEW c \in Client, Begin(c)
  PROVE  (Joining(c) /\ Chained(c))'
<1>1. cs'[c] = "spawned" /\ chan'[c] = <<>>
  BY DEF Begin, TypeOK
<1>2. from'[c] = EmptyFrame /\ applied'[c] = EmptyFrame
  BY DEF Begin, TypeOK, InOrder, Joining
<1> QED BY <1>1, <1>2 DEF Joining, Chained, Before

LEMMA OrderSend ==
  ASSUME TypeOK, InOrder, NEW c \in Client, SendFrame(c)
  PROVE  (Joining(c) /\ Chained(c))'
<1>1. PICK new :
        /\ Send(c, [kind |-> "frame", new |-> new,
                    delta |-> Delta(from[c], new, baselines)])
        /\ from' = [from EXCEPT ![c] = new]
  BY DEF SendFrame
<1> DEFINE m == [kind |-> "frame", new |-> new,
                 delta |-> Delta(from[c], new, baselines)]
<1>2. cs[c] = "spawned" /\ cs'[c] = "spawned"
  BY DEF SendFrame, InOrder, Joining
<1>3. chan'[c] = Append(chan[c], m) /\ from'[c] = new
  BY <1>1 DEF Send, TypeOK
<1>4. chan[c] \in Seq(Message)
  BY DEF TypeOK
<1>5. /\ Len(chan[c]) \in Nat
      /\ Len(chan'[c]) = Len(chan[c]) + 1
      /\ \A i \in 1 .. Len(chan[c]) : chan'[c][i] = chan[c][i]
      /\ chan'[c][Len(chan[c]) + 1] = m
  BY <1>3, <1>4
<1>6. /\ from[c] = Before(c, Len(chan[c]) + 1)
      /\ \A i \in 1 .. Len(chan[c]) :
           /\ chan[c][i].kind = "frame"
           /\ chan[c][i].delta = Delta(Before(c, i), chan[c][i].new, baselines)
  BY <1>2 DEF InOrder, Chained
<1>7. applied'[c] = applied[c] /\ baselines' = baselines
  BY DEF SendFrame
<1>8. \A i \in 1 .. Len(chan[c]) + 1 : Before(c, i)' = Before(c, i)
  BY <1>5, <1>7 DEF Before
<1>9. from'[c] = Before(c, Len(chan[c]) + 1)'
  <2>1. chan'[c][Len(chan'[c])] = m /\ Len(chan'[c]) + 1 # 1
    BY <1>5
  <2>2. Before(c, Len(chan[c]) + 1)' = chan'[c][Len(chan'[c]) + 1 - 1].new
    BY <2>1 DEF Before
  <2>3. Len(chan'[c]) + 1 - 1 = Len(chan'[c])
    BY <1>5
  <2> QED BY <1>3, <2>1, <2>2, <2>3
<1>10. ASSUME NEW i \in 1 .. Len(chan[c]) + 1
       PROVE  /\ chan'[c][i].kind = "frame"
              /\ chan'[c][i].delta
                   = Delta(Before(c, i)', chan'[c][i].new, baselines)
  <2>1. CASE i \in 1 .. Len(chan[c])
    BY <1>5, <1>6, <1>8, <2>1
  <2>2. CASE i = Len(chan[c]) + 1
    BY <1>5, <1>6, <1>8, <2>2
  <2> QED BY <1>5, <2>1, <2>2
<1> QED BY <1>2, <1>5, <1>7, <1>9, <1>10 DEF Joining, Chained

LEMMA OrderReadBaselines ==
  ASSUME TypeOK, InOrder, NEW c \in Client, ReadBaselines(c)
  PROVE  (Joining(c) /\ Chained(c))'
<1>1. chan[c] \in Seq(Message) /\ chan[c] # <<>>
  BY DEF ReadBaselines, TypeOK
<1>2. chan'[c] = Tail(chan[c])
  BY DEF ReadBaselines, TypeOK
<1>3. cs[c] # "spawned" /\ cs[c] # "connected"
  BY <1>1, ChannelTail DEF ReadBaselines, InOrder, Joining, Chained
<1>4. \A i \in 1 .. Len(chan'[c]) : chan'[c][i].kind = "baselines"
  BY <1>1, <1>2, <1>3, ChannelTail DEF InOrder, Joining
<1> QED BY <1>3, <1>4 DEF ReadBaselines, InOrder, Joining, Chained

LEMMA OrderReadFrame ==
  ASSUME TypeOK, InOrder, NEW c \in Client, ReadFrame(c)
  PROVE  (Joining(c) /\ Chained(c))'
<1>1. chan[c] \in Seq(Message) /\ chan[c] # <<>>
  BY DEF ReadFrame, TypeOK
<1>2. /\ chan'[c] = Tail(chan[c])
      /\ applied'[c] = Head(chan[c]).new
      /\ cs' = cs /\ from' = from /\ baselines' = baselines
  BY DEF ReadFrame, TypeOK
<1>3. cs[c] = "spawned"
  BY <1>1, ChannelTail DEF ReadFrame, InOrder, Joining
<1>4. /\ Head(chan[c]) = chan[c][1]
      /\ Len(chan[c]) \in Nat \ {0}
      /\ Len(chan'[c]) = Len(chan[c]) - 1
      /\ \A i \in 1 .. Len(chan[c]) - 1 : chan'[c][i] = chan[c][i + 1]
  BY <1>1, <1>2, ChannelTail
<1>5. \A i \in 1 .. Len(chan[c]) : Before(c, i)' = Before(c, i + 1)
  BY <1>2, <1>4 DEF Before
<1> QED BY <1>2, <1>3, <1>4, <1>5 DEF InOrder, Joining, Chained

LEMMA OrderNext == TypeOK /\ InOrder /\ [Next]_vars => InOrder'
<1> SUFFICES ASSUME TypeOK, InOrder, [Next]_vars, NEW d \in Client
             PROVE  (Joining(d) /\ Chained(d))'
  BY DEF InOrder
<1>0. cs[d] # "spawned" => d \notin pending
  BY DEF InOrder, Joining
<1>1. CASE UNCHANGED vars
  BY <1>1, <1>0, OrderKept DEF vars
<1>2. CASE RunGameFrame
  BY <1>2, OrderKept DEF RunGameFrame
<1>3. ASSUME NEW c \in Client, Baselines(c) PROVE (Joining(d) /\ Chained(d))'
  <2>1. CASE d = c
    BY <1>3, <2>1, OrderBaselines
  <2>2. CASE d # c
    BY <1>3, <1>0, <2>2, OrderKept DEF Baselines, Send, TypeOK
  <2> QED BY <2>1, <2>2
<1>4. ASSUME NEW c \in Client, Begin(c) PROVE (Joining(d) /\ Chained(d))'
  <2>1. CASE d = c
    BY <1>4, <2>1, OrderBegin
  <2>2. CASE d # c
    BY <1>4, <1>0, <2>2, OrderKept DEF Begin, TypeOK
  <2> QED BY <2>1, <2>2
<1>5. ASSUME NEW c \in Client, SendFrame(c) PROVE (Joining(d) /\ Chained(d))'
  <2>1. CASE d = c
    BY <1>5, <2>1, OrderSend
  <2>2. CASE d # c
    BY <1>5, <1>0, <2>2, OrderKept DEF SendFrame, Send, TypeOK
  <2> QED BY <2>1, <2>2
<1>6. ASSUME NEW c \in Client, ReadBaselines(c) PROVE (Joining(d) /\ Chained(d))'
  <2>1. CASE d = c
    BY <1>6, <2>1, OrderReadBaselines
  <2>2. CASE d # c
    BY <1>6, <1>0, <2>2, OrderKept DEF ReadBaselines, TypeOK
  <2> QED BY <2>1, <2>2
<1>7. ASSUME NEW c \in Client, ReadFrame(c) PROVE (Joining(d) /\ Chained(d))'
  <2>1. CASE d = c
    BY <1>7, <2>1, OrderReadFrame
  <2>2. CASE d # c
    BY <1>7, <1>0, <2>2, OrderKept DEF ReadFrame, TypeOK
  <2> QED BY <2>1, <2>2
<1> QED BY <1>1, <1>2, <1>3, <1>4, <1>5, <1>6, <1>7 DEF Next

-----------------------------------------------------------------------------
(* What one frame does to the table of a client that holds the frame       *)
(* before it.                                                              *)

(* The state of an entity that the new frame shows. *)
LEMMA AppliedShown ==
  ASSUME NEW table \in [Num -> [Field -> Value]], NEW old \in Frame,
         NEW new \in Frame, baselines \in [Num -> State],
         UpToBaseline(table, old)
  PROVE  UpToBaseline(Applied(table, Delta(old, new, baselines)), new)
<1> DEFINE delta == Delta(old, new, baselines)
<1> SUFFICES ASSUME NEW n \in Num, new[n] # Absent, NEW f \in WireField
             PROVE  \/ Applied(table, delta)[n][f] = Wire[f][new[n][f]]
                    \/ new[n][f] = baselines[n][f]
  BY DEF UpToBaseline
<1> DEFINE was == IF old[n] = Absent THEN baselines[n] ELSE old[n]
<1>1. f \in Field /\ was \in [Field -> Value] /\ new[n] \in [Field -> Value]
  BY StateAssumption, FrameState
<1>2. delta[n] = Changed(was, new[n])
  BY DeltaCases
<1>3. delta[n] # Removed
  BY <1>1, <1>2, ChangedType
<1>4. Applied(table, delta)[n] = Patched(table[n], delta[n])
  BY <1>3 DEF Applied
<1>5. Applied(table, delta)[n][f]
        = IF delta[n][f] = Same THEN table[n][f] ELSE delta[n][f]
  BY <1>1, <1>4 DEF Patched
<1>6. CASE was[f] # new[n][f]
  <2>1. delta[n][f] = Wire[f][new[n][f]]
    BY <1>1, <1>2, <1>6 DEF Changed
  <2>2. Wire[f][new[n][f]] \in Value
    BY <1>1, StateAssumption
  <2> QED BY <1>5, <2>1, <2>2, MarkAssumption
<1>7. CASE was[f] = new[n][f] /\ old[n] = Absent
  BY <1>7
<1>8. CASE was[f] = new[n][f] /\ old[n] # Absent
  <2>1. delta[n][f] = Same
    BY <1>1, <1>2, <1>8 DEF Changed
  <2>2. \/ table[n][f] = Wire[f][old[n][f]]
        \/ old[n][f] = baselines[n][f]
    BY <1>8 DEF UpToBaseline
  <2> QED BY <1>5, <1>8, <2>1, <2>2
<1> QED BY <1>6, <1>7, <1>8

(* An entity that the new frame does not show is cleared if the old one    *)
(* did, and left alone if it did not.                                      *)
LEMMA AppliedAbsent ==
  ASSUME NEW table \in [Num -> [Field -> Value]], NEW old \in Frame,
         NEW new \in Frame, baselines \in [Num -> State],
         NEW n \in Num, new[n] = Absent
  PROVE  Applied(table, Delta(old, new, baselines))[n]
           = IF old[n] = Absent THEN table[n] ELSE NoState
<1> DEFINE delta == Delta(old, new, baselines)
<1>1. CASE old[n] = Absent
  <2>1. delta[n] = [f \in Field |-> Same]
    BY <1>1, DeltaCases
  <2>2. delta[n] # Removed
    BY <2>1, MarkAssumption
  <2>3. Applied(table, delta)[n] = Patched(table[n], delta[n])
    BY <2>2 DEF Applied
  <2>4. Patched(table[n], delta[n]) = table[n]
    BY <2>1 DEF Patched
  <2> QED BY <1>1, <2>3, <2>4
<1>2. CASE old[n] # Absent
  <2>1. delta[n] = Removed
    BY <1>2, DeltaCases
  <2> QED BY <1>2, <2>1 DEF Applied
<1> QED BY <1>1, <1>2

(* The frame a client reads is the difference to the one it holds. *)
LEMMA ReadsNext ==
  ASSUME TypeOK, InOrder, NEW c \in Client, ReadFrame(c)
  PROVE  LET m == Head(chan[c]) IN
         /\ m.new \in Frame
         /\ view'[c] = Applied(view[c], Delta(applied[c], m.new, baselines))
         /\ applied'[c] = m.new
         /\ known'[c] = known[c] \cup {n \in Num : m.new[n] # Absent}
         /\ baselines' = baselines
         /\ \A d \in Client \ {c} : /\ view'[d] = view[d]
                                   /\ applied'[d] = applied[d]
                                   /\ known'[d] = known[d]
<1> DEFINE m == Head(chan[c])
<1>1. chan[c] \in Seq(Message) /\ chan[c] # <<>> /\ m.kind = "frame"
  BY DEF ReadFrame, TypeOK
<1>2. m \in Message /\ m = chan[c][1] /\ Len(chan[c]) \in Nat \ {0}
  BY <1>1, ChannelTail
<1>3. cs[c] = "spawned"
  BY <1>1, <1>2 DEF InOrder, Joining
<1>4. m.delta = Delta(applied[c], m.new, baselines)
  BY <1>2, <1>3 DEF InOrder, Chained, Before
<1> QED BY <1>1, <1>2, <1>4, MessageParts DEF ReadFrame, TypeOK

-----------------------------------------------------------------------------
IInv == TypeOK /\ InOrder /\ FollowsFrame /\ NoGhosts

LEMMA InitIInv == Init => IInv
<1> SUFFICES ASSUME Init PROVE IInv
  OBVIOUS
<1>1. \A c \in Client : applied[c] = EmptyFrame /\ known[c] = {}
  BY DEF Init
<1> QED BY <1>1, TypeInit, OrderInit
        DEF IInv, FollowsFrame, NoGhosts, UpToBaseline, EmptyFrame

LEMMA NextIInv == IInv /\ [Next]_vars => IInv'
<1> SUFFICES ASSUME IInv, [Next]_vars PROVE (FollowsFrame /\ NoGhosts)'
  BY TypeNext, OrderNext DEF IInv
<1>0. TypeOK /\ InOrder /\ FollowsFrame /\ NoGhosts
  BY DEF IInv
<1>1. CASE UNCHANGED <<baselines, view, applied, known>>
  BY <1>0, <1>1 DEF FollowsFrame, NoGhosts, UpToBaseline
<1>2. ASSUME NEW c \in Client, ReadBaselines(c)
      PROVE  (FollowsFrame /\ NoGhosts)'
  <2>1. applied[c] = EmptyFrame /\ known[c] = {}
    <3>1. chan[c] \in Seq(Message) /\ chan[c] # <<>>
      BY <1>0, <1>2 DEF ReadBaselines, TypeOK
    <3>2. Head(chan[c]) = chan[c][1] /\ Len(chan[c]) \in Nat \ {0}
      BY <3>1, ChannelTail
    <3>3. cs[c] # "spawned"
      BY <1>0, <1>2, <3>2 DEF ReadBaselines, InOrder, Chained
    <3> QED BY <1>0, <3>3 DEF InOrder, Joining
  <2>2. \A d \in Client \ {c} : view'[d] = view[d]
    BY <1>0, <1>2 DEF ReadBaselines, TypeOK
  <2>3. baselines' = baselines /\ applied' = applied /\ known' = known
    BY <1>2 DEF ReadBaselines
  <2> QED BY <1>0, <2>1, <2>2, <2>3
          DEF FollowsFrame, NoGhosts, UpToBaseline, EmptyFrame
<1>3. ASSUME NEW c \in Client, ReadFrame(c)
      PROVE  (FollowsFrame /\ NoGhosts)'
  <2> DEFINE new == Head(chan[c]).new
  <2>1. /\ new \in Frame
        /\ view'[c] = Applied(view[c], Delta(applied[c], new, baselines))
        /\ applied'[c] = new
        /\ known'[c] = known[c] \cup {n \in Num : new[n] # Absent}
        /\ baselines' = baselines
        /\ \A d \in Client \ {c} : /\ view'[d] = view[d]
                                  /\ applied'[d] = applied[d]
                                  /\ known'[d] = known[d]
    BY <1>0, <1>3, ReadsNext
  <2>2. /\ view[c] \in [Num -> [Field -> Value]] /\ applied[c] \in Frame
        /\ baselines \in [Num -> State] /\ known[c] \subseteq Num
    BY <1>0 DEF TypeOK
  <2> HIDE DEF new
  <2>3. UpToBaseline(view'[c], new)
    BY <1>0, <2>1, <2>2, AppliedShown DEF FollowsFrame
  <2>4. FollowsFrame'
    BY <1>0, <2>1, <2>3 DEF FollowsFrame, UpToBaseline
  <2>5. ASSUME NEW n \in known'[c], new[n] = Absent
        PROVE  view'[c][n] = NoState
    <3>1. n \in known[c] /\ n \in Num
      BY <2>1, <2>2, <2>5
    <3>2. view'[c][n] = IF applied[c][n] = Absent THEN view[c][n] ELSE NoState
      BY <2>1, <2>2, <2>5, <3>1, AppliedAbsent
    <3> QED BY <1>0, <3>1, <3>2 DEF NoGhosts
  <2>6. NoGhosts'
    BY <1>0, <2>1, <2>5 DEF NoGhosts
  <2> QED BY <2>4, <2>6
<1> QED BY <1>1, <1>2, <1>3
        DEF Next, vars, RunGameFrame, Baselines, Begin, SendFrame

THEOREM IInvHolds == Spec => []IInv
BY InitIInv, NextIInv, PTL DEF Spec

(* On a channel that loses nothing, a client shows each entity of the last *)
(* frame it has read as that frame does, except for fields that are back   *)
(* at their baseline.                                                      *)
THEOREM TableFollowsFrame == Spec => []FollowsFrame
<1>1. IInv => FollowsFrame
  BY DEF IInv
<1> QED BY <1>1, IInvHolds, PTL

(* No entity a client has seen stays in its table when the last frame it   *)
(* has read no longer shows it.                                            *)
THEOREM TableHasNoGhosts == Spec => []NoGhosts
<1>1. IInv => NoGhosts
  BY DEF IInv
<1> QED BY <1>1, IInvHolds, PTL

-----------------------------------------------------------------------------
(* Fog of war.                                                             *)
(*                                                                         *)
(* Least elements, steps from 0 on, and functions that go by steps.        *)
LEMMA HasLeast ==
  ASSUME NEW S \in SUBSET Nat, S # {}
  PROVE  \E x \in S : \A y \in S : x <= y
<1>1. PICK x \in S : \A y \in S : <<y, x>> \notin OpToRel(<, Nat)
  BY WFMin, NatLessThanWellFounded, Zenon
<1>2. \A y \in S : ~(y < x)
  BY <1>1, Zenon DEF OpToRel
<1> QED BY <1>2

LEMMA Steps ==
  ASSUME NEW n \in Nat, NEW G, 0 \in G,
         \A j \in 1 .. n : j - 1 \in G => j \in G
  PROVE  0 .. n \subseteq G
<1> DEFINE B == {j \in 0 .. n : j \notin G}
<1>1. SUFFICES B = {}
  OBVIOUS
<1>2. SUFFICES ASSUME B # {} PROVE FALSE
  OBVIOUS
<1>3. B \in SUBSET Nat
  OBVIOUS
<1> HIDE DEF B
<1>4. PICK m \in B : \A y \in B : m <= y
  BY <1>2, <1>3, HasLeast
<1>5. m \in 1 .. n /\ m - 1 \in 0 .. n /\ m \notin G
  BY <1>4 DEF B
<1>6. m - 1 \notin B
  BY <1>4, <1>5
<1>7. m - 1 \in G
  BY <1>5, <1>6 DEF B
<1> QED BY <1>5, <1>7

Runs(f, n, step) == \A j \in 1 .. n : f[j] = step[j][f[j - 1]]

LEMMA Iterates ==
  ASSUME NEW n \in Nat, NEW S, NEW start \in S,
         NEW step \in [1 .. n -> [S -> S]]
  PROVE  \E f \in [0 .. n -> S] : f[0] = start /\ Runs(f, n, step)
<1> DEFINE Good(m) == \E f \in [0 .. m -> S] : f[0] = start /\ Runs(f, m, step)
           G == {m \in 0 .. n : Good(m)}
<1>1. 0 \in G
  <2>1. /\ [j \in 0 .. 0 |-> start] \in [0 .. 0 -> S]
        /\ [j \in 0 .. 0 |-> start][0] = start
    OBVIOUS
  <2>2. Good(0)
    <3>1. Runs([j \in 0 .. 0 |-> start], 0, step)
      BY DEF Runs
    <3> QED BY <2>1, <3>1
  <2> QED BY <2>2
<1>2. ASSUME NEW m \in 1 .. n, m - 1 \in G
      PROVE  m \in G
  <2>1. PICK f \in [0 .. m - 1 -> S] : f[0] = start /\ Runs(f, m - 1, step)
    BY <1>2
  <2> DEFINE v == step[m][f[m - 1]]
             g == [j \in 0 .. m |-> IF j = m THEN v ELSE f[j]]
  <2>2. m - 1 \in 0 .. m - 1 /\ f[m - 1] \in S
    OBVIOUS
  <2>3. v \in S
    BY <2>2
  <2> HIDE DEF v
  <2>4. g \in [0 .. m -> S] /\ g[0] = start /\ g[m] = v
    BY <2>1, <2>3
  <2>5. ASSUME NEW j \in 1 .. m
        PROVE  g[j] = step[j][g[j - 1]]
    <3>1. j - 1 \in 0 .. m /\ j - 1 # m /\ g[j - 1] = f[j - 1]
      OBVIOUS
    <3>2. CASE j = m
      BY <2>4, <3>1, <3>2 DEF v
    <3>3. CASE j # m
      <4>1. j \in 1 .. m - 1 /\ j \in 0 .. m
        BY <3>3
      <4>2. g[j] = f[j]
        BY <3>3, <4>1
      <4> QED BY <2>1, <3>1, <4>1, <4>2 DEF Runs
    <3> QED BY <3>2, <3>3
  <2> HIDE DEF g
  <2>6. Runs(g, m, step)
    BY <2>5 DEF Runs
  <2>7. Good(m)
    BY <2>4, <2>6
  <2> QED BY <2>7
<1> HIDE DEF G
<1>3. 0 .. n \subseteq G
  BY <1>1, <1>2, Steps
<1>4. n \in G
  BY <1>3
<1> QED BY <1>4 DEF G

-----------------------------------------------------------------------------
(* What the units of a player see, and what else their player sees. *)

(* Every bound on the constants, in a form that is easy to use. *)
LEMMA Sizes ==
  /\ Width \in Nat \ {0} /\ Height \in Nat \ {0} /\ Units \in Nat
  /\ Width * Height \in Nat
<1>1. Width \in Nat /\ Height \in Nat
  BY FogAssumption
<1> QED BY <1>1, FogAssumption

(* What one unit sees, and the blocking cells that it may show besides. *)
SeesAlone(c, r, cells) ==
  IF BlockedNear(c, r, cells) THEN ShadowCast(c, r, cells) ELSE Disk(c, r)
RimOf(c, r, cells) == {b \in cells : Within(c, b, r + 1)}

LEMMA SeesCells ==
  ASSUME NEW c \in Cell, NEW r, NEW cells
  PROVE  SeesAlone(c, r, cells) \subseteq Cell
BY DEF SeesAlone, ShadowCast, Disk

(* Each step of the scan adds one blocking cell, or none. *)
Adds(f, n, set) == \A i \in 1 .. n : f[i] = f[i - 1] \/ \E b \in set : f[i] = f[i - 1] \cup {b}

LEMMA RimLoop ==
  ASSUME NEW c, NEW r, NEW cells \in SUBSET Cell, NEW visible \in SUBSET Cell
  PROVE  \E f : /\ f[0] = visible
                /\ Adds(f, Width * Height, RimOf(c, r, cells))
                /\ Rim(c, r, cells, visible) = f[Width * Height]
<1> DEFINE n == Width * Height
           Looked(i, v) == IF /\ ScanCell(i) \in cells /\ Within(c, ScanCell(i), r + 1)
                              /\ \E w \in v : Within(ScanCell(i), w, 1)
                           THEN v \cup {ScanCell(i)} ELSE v
           Loop(f) == f = [i \in 0 .. n |-> IF i = 0 THEN visible
                                            ELSE Looked(i, f[i - 1])]
           S == SUBSET Cell
           step == [i \in 1 .. n |-> [v \in S |-> Looked(i, v)]]
<1>1. n \in Nat /\ visible \in S
  BY Sizes
<1>2. step \in [1 .. n -> [S -> S]]
  OBVIOUS
<1> HIDE DEF n, S, step, Looked
<1>3. PICK f \in [0 .. n -> S] : f[0] = visible /\ Runs(f, n, step)
  BY <1>1, <1>2, Iterates
<1>4. Loop(f)
  <2>1. ASSUME NEW i \in 0 .. n
        PROVE  f[i] = IF i = 0 THEN visible ELSE Looked(i, f[i - 1])
    <3>1. CASE i = 0
      BY <1>3, <3>1
    <3>2. CASE i # 0
      <4>1. i \in 1 .. n /\ f[i - 1] \in S
        BY <1>1, <3>2
      <4>2. f[i] = step[i][f[i - 1]]
        BY <1>3, <4>1 DEF Runs
      <4> QED BY <3>2, <4>1, <4>2 DEF step
    <3> QED BY <3>1, <3>2
  <2> QED BY <2>1
<1> DEFINE h == CHOOSE g : Loop(g)
<1>5. Loop(h)
  <2> HIDE DEF Loop
  <2> QED BY <1>4
<1>6. Rim(c, r, cells, visible) = h[n]
  BY DEF Rim, n, Looked
<1> HIDE DEF h
<1>7. h[0] = visible /\ \A i \in 1 .. n : h[i] = Looked(i, h[i - 1])
  BY <1>1, <1>5
<1>8. Adds(h, n, RimOf(c, r, cells))
  BY <1>7 DEF Looked, RimOf, Adds
<1> QED BY <1>6, <1>7, <1>8 DEF n

LEMMA RimBounds ==
  ASSUME NEW c, NEW r, NEW cells \in SUBSET Cell, NEW visible \in SUBSET Cell
  PROVE  /\ visible \subseteq Rim(c, r, cells, visible)
         /\ Rim(c, r, cells, visible) \subseteq visible \cup RimOf(c, r, cells)
<1> DEFINE n == Width * Height
           rim == RimOf(c, r, cells)
           all == Rim(c, r, cells, visible)
<1>1. PICK f : /\ f[0] = visible
               /\ Adds(f, n, rim)
               /\ all = f[n]
  BY RimLoop
<1>2. n \in Nat
  BY Sizes
<1> DEFINE Between(v) == visible \subseteq v /\ v \subseteq visible \cup rim
           G == {i \in 0 .. n : Between(f[i])}
<1> HIDE DEF n, rim, all
<1>3. 0 \in G
  BY <1>1, <1>2
<1>4. ASSUME NEW i \in 1 .. n, i - 1 \in G
      PROVE  i \in G
  <2>1. Between(f[i - 1])
    BY <1>4
  <2>2. Between(f[i])
    BY <1>1, <2>1 DEF Adds
  <2> QED BY <2>2
<1> HIDE DEF G
<1>5. 0 .. n \subseteq G
  BY <1>2, <1>3, <1>4, Steps
<1>6. Between(all)
  BY <1>1, <1>2, <1>5 DEF G
<1> QED BY <1>6 DEF all, rim

LEMMA RevealBounds ==
  ASSUME NEW v \in SUBSET Cell, NEW c \in Cell, NEW r,
         NEW cells \in SUBSET Cell
  PROVE  /\ v \cup SeesAlone(c, r, cells) \subseteq Reveal(v, c, r, cells)
         /\ Reveal(v, c, r, cells)
              \subseteq v \cup SeesAlone(c, r, cells) \cup RimOf(c, r, cells)
         /\ Reveal(v, c, r, cells) \in SUBSET Cell
<1>1. /\ SeesAlone(c, r, cells) \subseteq Cell
      /\ RimOf(c, r, cells) \subseteq Cell
  BY SeesCells DEF RimOf
<1>2. CASE BlockedNear(c, r, cells)
  <2> DEFINE w == v \cup ShadowCast(c, r, cells)
  <2>1. SeesAlone(c, r, cells) = ShadowCast(c, r, cells)
    BY <1>2 DEF SeesAlone
  <2>2. w \in SUBSET Cell /\ Reveal(v, c, r, cells) = Rim(c, r, cells, w)
    BY <1>1, <1>2, <2>1 DEF Reveal
  <2> QED BY <1>1, <2>1, <2>2, RimBounds
<1>3. CASE ~BlockedNear(c, r, cells)
  BY <1>1, <1>3 DEF Reveal, SeesAlone
<1> QED BY <1>2, <1>3

(* What the units of a player show, and the blocking cells at their rims. *)
Alone(p, cells) ==
  UNION {SeesAlone(unit[u].cell, Radius[u], cells) : u \in Revealers(p)}
Rims(p, cells) == UNION {RimOf(unit[u].cell, Radius[u], cells) : u \in Revealers(p)}
ByModifiers(p) == UNION {Effect[m].cells : m \in AppliedModifiers(p)}

UnitTypes == unit \in [Unit -> [cell : Place, owner : Player, reveals : BOOLEAN]]

LEMMA UnitCells ==
  ASSUME UnitTypes, NEW u \in Unit
  PROVE  unit[u].cell \in Cell
BY FogAssumption DEF UnitTypes

LEMMA SeenLoop ==
  ASSUME UnitTypes, NEW p, NEW cells \in SUBSET Cell
  PROVE  \E f : /\ f[0] = {}
                /\ \A i \in Unit :
                     f[i] = IF i \in Revealers(p)
                            THEN Reveal(f[i - 1], unit[i].cell, Radius[i], cells)
                            ELSE f[i - 1]
                /\ Seen(p, cells) = f[Units] \cup ByModifiers(p)
<1> DEFINE n == Units
           Add(i, v) == IF i \in Revealers(p)
                        THEN Reveal(v, unit[i].cell, Radius[i], cells) ELSE v
           Loop(f) == f = [i \in 0 .. Units |->
             IF i = 0 THEN {}
             ELSE IF i \in Revealers(p)
                  THEN Reveal(f[i - 1], unit[i].cell, Radius[i], cells)
             ELSE f[i - 1]]
           S == SUBSET Cell
           step == [i \in 1 .. n |-> [v \in S |-> Add(i, v)]]
<1>1. n \in Nat /\ {} \in S
  BY Sizes
<1>2. step \in [1 .. n -> [S -> S]]
  <2>1. ASSUME NEW i \in 1 .. n, NEW v \in S
        PROVE  Add(i, v) \in S
    <3>1. CASE i \in Revealers(p)
      <4>1. unit[i].cell \in Cell
        BY UnitCells DEF Unit
      <4>2. Reveal(v, unit[i].cell, Radius[i], cells) \in SUBSET Cell
        BY <4>1, RevealBounds
      <4> QED BY <3>1, <4>2
    <3>2. CASE i \notin Revealers(p)
      BY <3>2
    <3> QED BY <3>1, <3>2
  <2> QED BY <2>1
<1> HIDE DEF n, S, step, Add
<1>3. PICK f \in [0 .. n -> S] : f[0] = {} /\ Runs(f, n, step)
  BY <1>1, <1>2, Iterates
<1>4. Loop(f)
  <2>1. ASSUME NEW i \in 0 .. n
        PROVE  f[i] = IF i = 0 THEN {} ELSE Add(i, f[i - 1])
    <3>1. CASE i = 0
      BY <1>3, <3>1
    <3>2. CASE i # 0
      <4>1. i \in 1 .. n /\ f[i - 1] \in S
        BY <1>1, <3>2
      <4>2. f[i] = step[i][f[i - 1]]
        BY <1>3, <4>1 DEF Runs
      <4> QED BY <3>2, <4>1, <4>2 DEF step
    <3> QED BY <3>1, <3>2
  <2> QED BY <2>1 DEF n, Add
<1> DEFINE h == CHOOSE g : Loop(g)
<1>5. Loop(h)
  <2> HIDE DEF Loop
  <2> QED BY <1>4
<1>6. Seen(p, cells) = h[n] \cup ByModifiers(p)
  BY DEF Seen, n, ByModifiers
<1> HIDE DEF h
<1>7. h[0] = {} /\ \A i \in 1 .. n : h[i] = Add(i, h[i - 1])
  <2>1. h = [i \in 0 .. n |-> IF i = 0 THEN {} ELSE Add(i, h[i - 1])]
    BY <1>5, Zenon DEF n, Add
  <2> HIDE DEF Loop
  <2>2. h[0] = {}
    BY <1>1, <2>1
  <2>3. ASSUME NEW i \in 1 .. n
        PROVE  h[i] = Add(i, h[i - 1])
    <3>1. i \in 0 .. n /\ i # 0
      BY <1>1
    <3> QED BY <2>1, <3>1
  <2> QED BY <2>2, <2>3
<1> QED BY <1>6, <1>7 DEF n, Add, Unit

LEMMA SeenBounds ==
  ASSUME UnitTypes, NEW p, NEW cells \in SUBSET Cell
  PROVE  /\ Alone(p, cells) \cup ByModifiers(p) \subseteq Seen(p, cells)
         /\ Seen(p, cells) \subseteq Alone(p, cells) \cup Rims(p, cells) \cup ByModifiers(p)
<1> DEFINE n == Units
           R == Revealers(p)
           Show(u) == SeesAlone(unit[u].cell, Radius[u], cells)
           Edge(u) == RimOf(unit[u].cell, Radius[u], cells)
<1>1. PICK f : /\ f[0] = {}
               /\ \A i \in Unit :
                    f[i] = IF i \in R THEN Reveal(f[i - 1], unit[i].cell, Radius[i], cells)
                                      ELSE f[i - 1]
               /\ Seen(p, cells) = f[n] \cup ByModifiers(p)
  BY SeenLoop
<1>2. n \in Nat /\ Unit = 1 .. n /\ R \subseteq Unit
  BY Sizes DEF Unit, Revealers
<1>3. ASSUME NEW v \in SUBSET Cell, NEW i \in Unit
      PROVE  LET w == Reveal(v, unit[i].cell, Radius[i], cells)
             IN  /\ v \cup Show(i) \subseteq w /\ w \subseteq v \cup Show(i) \cup Edge(i)
                 /\ w \in SUBSET Cell
  <2>1. unit[i].cell \in Cell
    BY UnitCells
  <2> QED BY <2>1, RevealBounds
<1> DEFINE Good(v, i) == /\ v \in SUBSET Cell
                         /\ \A u \in R : u <= i => Show(u) \subseteq v
                         /\ \A x \in v : \E u \in R : x \in Show(u) \cup Edge(u)
           G == {i \in 0 .. n : Good(f[i], i)}
<1>4. /\ Alone(p, cells) = UNION {Show(u) : u \in R}
      /\ Rims(p, cells) = UNION {Edge(u) : u \in R}
  BY DEF Alone, Rims
<1> HIDE DEF n, R, Show, Edge
<1>5. 0 \in G
  <2>1. \A u \in R : ~(u <= 0)
    BY <1>2
  <2> QED BY <1>1, <1>2, <2>1
<1>6. ASSUME NEW i \in 1 .. n, i - 1 \in G
      PROVE  i \in G
  <2> DEFINE v == f[i - 1]
             j == i - 1
  <2>1. Good(v, j) /\ j \in Int /\ i = j + 1
    BY <1>6
  <2>2. \A u \in R : u <= i <=> u = i \/ u <= j
    BY <1>2, <2>1
  <2>3. i \in Unit /\ f[i] = IF i \in R THEN Reveal(v, unit[i].cell, Radius[i], cells) ELSE v
    BY <1>1, <1>2
  <2> HIDE DEF v, j
  <2>4. CASE i \notin R
    BY <2>1, <2>2, <2>3, <2>4
  <2>5. CASE i \in R
    <3> DEFINE w == Reveal(v, unit[i].cell, Radius[i], cells)
    <3>1. /\ v \cup Show(i) \subseteq w /\ w \subseteq v \cup Show(i) \cup Edge(i)
          /\ w \in SUBSET Cell
      BY <1>3, <2>1, <2>3
    <3>2. f[i] = w
      BY <2>3, <2>5
    <3> HIDE DEF w
    <3>3. Good(w, i)
      BY <2>1, <2>2, <2>5, <3>1
    <3> QED BY <3>2, <3>3
  <2> QED BY <2>4, <2>5
<1> HIDE DEF G
<1>7. 0 .. n \subseteq G
  BY <1>2, <1>5, <1>6, Steps
<1>8. Good(f[n], n)
  BY <1>2, <1>7 DEF G
<1>9. \A u \in R : u <= n
  BY <1>2
<1> QED BY <1>1, <1>4, <1>8, <1>9

LEMMA SeenCells ==
  ASSUME UnitTypes, NEW p, NEW cells \in SUBSET Cell,
         modifiers \in Seq(Modifier)
  PROVE  Seen(p, cells) \in SUBSET Cell
<1>1. Alone(p, cells) \subseteq Cell
  <2>1. ASSUME NEW u \in Revealers(p)
        PROVE  SeesAlone(unit[u].cell, Radius[u], cells) \subseteq Cell
    BY UnitCells, SeesCells DEF Revealers
  <2> QED BY <2>1 DEF Alone
<1>2. Rims(p, cells) \subseteq Cell
  BY DEF Rims, RimOf
<1>3. ByModifiers(p) \subseteq Cell
  <2>1. AppliedModifiers(p) \subseteq Modifier
    BY DEF AppliedModifiers, ToSet
  <2>2. \A m \in Modifier : Effect[m].cells \subseteq Cell
    BY FogAssumption
  <2> QED BY <2>1, <2>2 DEF ByModifiers
<1> QED BY <1>1, <1>2, <1>3, SeenBounds

LEMMA NothingSeen ==
  ASSUME UnitTypes, NEW p, NEW cells \in SUBSET Cell, ~HasVisible(p)
  PROVE  Seen(p, cells) = {}
<1>1. Alone(p, cells) = {} /\ Rims(p, cells) = {} /\ ByModifiers(p) = {}
  BY DEF HasVisible, Alone, Rims, ByModifiers
<1> QED BY <1>1, SeenBounds

-----------------------------------------------------------------------------
(* The chunks that a plane's dirty rows are cut to: each of a count from   *)
(* one to the limit, none beyond the last row, and no dirty row left out.  *)
ChunkType == [first : Nat, count : Nat]
InChunk(c, y) == c.first <= y /\ y <= c.first + c.count - 1
Covers(s, rows, i) == \A y \in rows : y < i => \E k \in DOMAIN s : InChunk(s[k], y)
Bounded(s, limit, i) ==
  \A k \in DOMAIN s : /\ 1 <= s[k].count /\ s[k].count <= limit
                      /\ s[k].first + s[k].count <= i

LEMMA ChunkFields ==
  ASSUME NEW s \in Seq(ChunkType)
  PROVE  \A k \in DOMAIN s : s[k].first \in Nat /\ s[k].count \in Nat
<1>1. ASSUME NEW k \in DOMAIN s
      PROVE  s[k] \in ChunkType
  OBVIOUS
<1> QED BY <1>1 DEF ChunkType

LEMMA AddRowType ==
  ASSUME NEW s \in Seq(ChunkType), NEW y \in Nat, NEW limit
  PROVE  AddRow(s, y, limit) \in Seq(ChunkType)
<1>1. [first |-> y, count |-> 1] \in ChunkType
  BY DEF ChunkType
<1>2. CASE AddRow(s, y, limit) = Append(s, [first |-> y, count |-> 1])
  BY <1>1, <1>2
<1>3. CASE s # <<>> /\ AddRow(s, y, limit) = [s EXCEPT ![Len(s)].count = @ + 1]
  <2>1. Len(s) \in DOMAIN s /\ s[Len(s)] \in ChunkType
    BY <1>3
  <2>2. [s[Len(s)] EXCEPT !.count = @ + 1] \in ChunkType
    BY <2>1 DEF ChunkType
  <2> QED BY <1>3, <2>1, <2>2
<1> QED BY <1>2, <1>3 DEF AddRow

(* The last chunk goes on. *)
LEMMA RowGoesOn ==
  ASSUME NEW s \in Seq(ChunkType), NEW y \in Nat, NEW limit \in Nat \ {0},
         NEW rows \in SUBSET Nat, y \in rows,
         Covers(s, rows, y), Bounded(s, limit, y),
         s # <<>>, Last(s).first + Last(s).count = y, Last(s).count < limit,
         NEW t, t = [s EXCEPT ![Len(s)].count = @ + 1]
  PROVE  Covers(t, rows, y + 1) /\ Bounded(t, limit, y + 1)
<1> DEFINE n == Len(s)
<1>1. /\ n \in DOMAIN s
      /\ s[n] \in ChunkType
      /\ Last(s) = s[n]
      /\ DOMAIN t = DOMAIN s
  BY DEF Last
<1>2. t[n] = [s[n] EXCEPT !.count = @ + 1] /\ \A k \in DOMAIN s : k # n => t[k] = s[k]
  BY <1>1
<1>3. t[n].first = s[n].first /\ t[n].count = s[n].count + 1
  BY <1>1, <1>2 DEF ChunkType
<1>4. \A k \in DOMAIN s : s[k].first \in Nat /\ s[k].count \in Nat
  BY ChunkFields
<1> HIDE DEF n
<1>5. Bounded(t, limit, y + 1)
  <2>1. ASSUME NEW k \in DOMAIN t
        PROVE  1 <= t[k].count /\ t[k].count <= limit /\ t[k].first + t[k].count <= y + 1
    <3>1. CASE k = n
      BY <1>1, <1>3, <1>4, <3>1
    <3>2. CASE k # n
      <4>1. k \in DOMAIN s /\ t[k] = s[k]
        BY <1>1, <1>2, <3>2
      <4>2. /\ 1 <= s[k].count
            /\ s[k].count <= limit
            /\ s[k].first + s[k].count <= y
        BY <4>1 DEF Bounded
      <4>3. s[k].first \in Nat /\ s[k].count \in Nat
        BY <1>4, <4>1
      <4>4. s[k].first + s[k].count <= y + 1
        BY <4>2, <4>3
      <4> QED BY <4>1, <4>2, <4>4
    <3> QED BY <3>1, <3>2
  <2> QED BY <2>1 DEF Bounded
<1>6. Covers(t, rows, y + 1)
  <2>1. ASSUME NEW z \in rows, z < y + 1
        PROVE  \E k \in DOMAIN t : InChunk(t[k], z)
    <3>1. CASE z = y
      <4>1. t[n].first <= z /\ z <= t[n].first + t[n].count - 1
        BY <1>1, <1>3, <1>4, <3>1
      <4> QED BY <1>1, <4>1 DEF InChunk
    <3>2. CASE z # y
      <4>1. z \in Nat /\ z < y
        BY <2>1, <3>2
      <4>2. PICK k \in DOMAIN s : InChunk(s[k], z)
        BY <4>1 DEF Covers
      <4>3. CASE k = n
        <5>1. t[n].first <= z /\ z <= t[n].first + t[n].count - 1
          BY <1>3, <1>4, <4>1, <4>2, <4>3 DEF InChunk
        <5> QED BY <1>1, <5>1 DEF InChunk
      <4>4. CASE k # n
        BY <1>1, <1>2, <4>2, <4>4
      <4> QED BY <4>3, <4>4
    <3> QED BY <3>1, <3>2
  <2> QED BY <2>1 DEF Covers
<1> QED BY <1>5, <1>6

(* A new chunk begins. *)
LEMMA RowBegins ==
  ASSUME NEW s \in Seq(ChunkType), NEW y \in Nat, NEW limit \in Nat \ {0},
         NEW rows \in SUBSET Nat, y \in rows,
         Covers(s, rows, y), Bounded(s, limit, y),
         NEW t, t = Append(s, [first |-> y, count |-> 1])
  PROVE  Covers(t, rows, y + 1) /\ Bounded(t, limit, y + 1)
<1> DEFINE c == [first |-> y, count |-> 1]
           n == Len(s) + 1
<1>0. c.first = y /\ c.count = 1 /\ c \in ChunkType /\ t = Append(s, c)
  BY DEF ChunkType
<1> HIDE DEF c
<1>1. n \in DOMAIN t /\ t[n] = c /\ DOMAIN t = 1 .. n /\ DOMAIN s = 1 .. n - 1
  BY <1>0
<1>2. \A k \in DOMAIN s : t[k] = s[k] /\ k \in DOMAIN t
  BY <1>0
<1>4. \A k \in DOMAIN s : s[k].first \in Nat /\ s[k].count \in Nat
  BY ChunkFields
<1>7. n \in Nat
  OBVIOUS
<1> HIDE DEF n
<1>5. Bounded(t, limit, y + 1)
  <2>1. ASSUME NEW k \in DOMAIN t
        PROVE  1 <= t[k].count /\ t[k].count <= limit /\ t[k].first + t[k].count <= y + 1
    <3>1. CASE k = n
      BY <1>0, <1>1, <3>1
    <3>2. CASE k # n
      <4>1. k \in DOMAIN s /\ t[k] = s[k]
        BY <1>1, <1>2, <1>7, <3>2
      <4>2. /\ 1 <= s[k].count
            /\ s[k].count <= limit
            /\ s[k].first + s[k].count <= y
        BY <4>1 DEF Bounded
      <4>3. s[k].first \in Nat /\ s[k].count \in Nat
        BY <1>4, <4>1
      <4>4. s[k].first + s[k].count <= y + 1
        BY <4>2, <4>3
      <4> QED BY <4>1, <4>2, <4>4
    <3> QED BY <3>1, <3>2
  <2> QED BY <2>1 DEF Bounded
<1>6. Covers(t, rows, y + 1)
  <2>1. ASSUME NEW z \in rows, z < y + 1
        PROVE  \E k \in DOMAIN t : InChunk(t[k], z)
    <3>1. CASE z = y
      BY <1>0, <1>1, <3>1 DEF InChunk
    <3>2. CASE z # y
      <4>1. z \in Nat /\ z < y
        BY <2>1, <3>2
      <4>2. PICK k \in DOMAIN s : InChunk(s[k], z)
        BY <4>1 DEF Covers
      <4> QED BY <1>2, <4>2
    <3> QED BY <3>1, <3>2
  <2> QED BY <2>1 DEF Covers
<1> QED BY <1>5, <1>6

LEMMA RowAdded ==
  ASSUME NEW s \in Seq(ChunkType), NEW y \in Nat, NEW limit \in Nat \ {0},
         NEW rows \in SUBSET Nat, y \in rows,
         Covers(s, rows, y), Bounded(s, limit, y),
         NEW t, t = AddRow(s, y, limit)
  PROVE  Covers(t, rows, y + 1) /\ Bounded(t, limit, y + 1)
<1>1. CASE s # <<>> /\ Last(s).first + Last(s).count = y /\ Last(s).count < limit
  <2>1. t = [s EXCEPT ![Len(s)].count = @ + 1]
    BY <1>1 DEF AddRow
  <2> QED BY <1>1, <2>1, RowGoesOn
<1>2. CASE ~(s # <<>> /\ Last(s).first + Last(s).count = y /\ Last(s).count < limit)
  <2>1. t = Append(s, [first |-> y, count |-> 1])
    BY <1>2 DEF AddRow
  <2> QED BY <2>1, RowBegins
<1> QED BY <1>1, <1>2

(* The loop over the rows. *)
Scans(f, rows, limit) ==
  \A i \in 1 .. Height : f[i] = IF i - 1 \in rows THEN AddRow(f[i - 1], i - 1, limit)
                                ELSE f[i - 1]

LEMMA ChunkLoop ==
  ASSUME NEW rows, NEW limit
  PROVE  \E f \in [0 .. Height -> Seq(ChunkType)] :
           /\ f[0] = <<>> /\ Scans(f, rows, limit)
           /\ DirtyChunks(rows, limit) = f[Height]
<1> DEFINE n == Height
           Add(i, s) == IF i - 1 \in rows THEN AddRow(s, i - 1, limit) ELSE s
           Loop(f) == f = [i \in 0 .. Height |->
             IF i = 0 THEN <<>>
             ELSE IF i - 1 \in rows THEN AddRow(f[i - 1], i - 1, limit)
             ELSE f[i - 1]]
           S == Seq(ChunkType)
           step == [i \in 1 .. n |-> [s \in S |-> Add(i, s)]]
<1>1. n \in Nat /\ <<>> \in S
  BY Sizes
<1>2. step \in [1 .. n -> [S -> S]]
  <2>1. ASSUME NEW i \in 1 .. n, NEW s \in S
        PROVE  Add(i, s) \in S
    <3>1. i - 1 \in Nat
      BY <1>1
    <3> QED BY <3>1, AddRowType
  <2> QED BY <2>1
<1> HIDE DEF n, S, step, Add
<1>3. PICK f \in [0 .. n -> S] : f[0] = <<>> /\ Runs(f, n, step)
  BY <1>1, <1>2, Iterates
<1>4. Loop(f)
  <2>1. ASSUME NEW i \in 0 .. n
        PROVE  f[i] = IF i = 0 THEN <<>> ELSE Add(i, f[i - 1])
    <3>1. CASE i = 0
      BY <1>3, <3>1
    <3>2. CASE i # 0
      <4>1. i \in 1 .. n /\ f[i - 1] \in S
        BY <1>1, <3>2
      <4>2. f[i] = step[i][f[i - 1]]
        BY <1>3, <4>1 DEF Runs
      <4> QED BY <3>2, <4>1, <4>2 DEF step
    <3> QED BY <3>1, <3>2
  <2> QED BY <2>1 DEF n, Add
<1> DEFINE h == CHOOSE g : Loop(g)
<1>5. Loop(h)
  <2> HIDE DEF Loop
  <2> QED BY <1>4
<1>6. DirtyChunks(rows, limit) = h[n]
  BY DEF DirtyChunks, n
<1> HIDE DEF h
<1>7. h = [i \in 0 .. n |-> IF i = 0 THEN <<>> ELSE Add(i, h[i - 1])]
  BY <1>5, Zenon DEF n, Add
<1> HIDE DEF Loop
<1>8. h[0] = <<>> /\ DOMAIN h = 0 .. n
  BY <1>1, <1>7
<1>9. ASSUME NEW i \in 1 .. n
      PROVE  h[i] = Add(i, h[i - 1])
  <2>1. i \in 0 .. n /\ i # 0
    BY <1>1
  <2> QED BY <1>7, <2>1
<1>10. Scans(h, rows, limit)
  BY <1>9 DEF Scans, n, Add
<1>11. h \in [0 .. n -> S]
  <2> DEFINE G == {i \in 0 .. n : h[i] \in S}
  <2>1. 0 \in G
    BY <1>1, <1>8
  <2>2. ASSUME NEW i \in 1 .. n, i - 1 \in G
        PROVE  i \in G
    <3>1. h[i - 1] \in S /\ h[i] = Add(i, h[i - 1])
      BY <1>9, <2>2
    <3>2. step[i][h[i - 1]] = Add(i, h[i - 1]) /\ step[i][h[i - 1]] \in S
      BY <1>2, <3>1 DEF step
    <3> QED BY <1>1, <3>1, <3>2
  <2> HIDE DEF G
  <2>3. 0 .. n \subseteq G
    BY <1>1, <2>1, <2>2, Steps
  <2>4. \A i \in 0 .. n : h[i] \in S
    BY <2>3 DEF G
  <2> QED BY <1>7, <2>4
<1> QED BY <1>6, <1>8, <1>10, <1>11 DEF n, S

LEMMA ChunksOfRows ==
  ASSUME NEW rows \in SUBSET Row, NEW limit \in Nat \ {0},
         NEW s, s = DirtyChunks(rows, limit)
  PROVE  s \in Seq(ChunkType) /\ Covers(s, rows, Height) /\ Bounded(s, limit, Height)
<1>1. PICK f \in [0 .. Height -> Seq(ChunkType)] :
           /\ f[0] = <<>> /\ Scans(f, rows, limit)
           /\ s = f[Height]
  BY ChunkLoop
<1>2. Height \in Nat /\ rows \in SUBSET Nat
  BY Sizes DEF Row
<1> DEFINE Good(i) == Covers(f[i], rows, i) /\ Bounded(f[i], limit, i)
           G == {i \in 0 .. Height : Good(i)}
<1>3. 0 \in G
  <2>1. \A y \in rows : ~(y < 0)
    BY <1>2
  <2>2. Covers(f[0], rows, 0)
    BY <2>1 DEF Covers
  <2>3. Bounded(f[0], limit, 0)
    BY <1>1 DEF Bounded
  <2> QED BY <1>2, <2>2, <2>3
<1>4. ASSUME NEW i \in 1 .. Height, i - 1 \in G
      PROVE  i \in G
  <2> DEFINE y == i - 1
             old == f[y]
             new == f[i]
  <2>1. y \in Nat /\ y + 1 = i /\ old \in Seq(ChunkType)
        /\ Covers(old, rows, y) /\ Bounded(old, limit, y)
    BY <1>2, <1>4
  <2>2. new = IF y \in rows THEN AddRow(old, y, limit) ELSE old
    BY <1>1 DEF Scans
  <2> HIDE DEF y, old, new
  <2>3. Covers(new, rows, y + 1) /\ Bounded(new, limit, y + 1)
    <3>1. CASE y \in rows
      <4>1. new = AddRow(old, y, limit)
        BY <2>2, <3>1
      <4> QED BY <1>2, <2>1, <3>1, <4>1, RowAdded
    <3>2. CASE y \notin rows
      <4>1. new = old
        BY <2>2, <3>2
      <4>2. \A z \in rows : z < y + 1 => z < y
        BY <1>2, <2>1, <3>2
      <4>3. Covers(new, rows, y + 1)
        BY <2>1, <4>1, <4>2 DEF Covers
      <4>4. ASSUME NEW k \in DOMAIN old
            PROVE  1 <= old[k].count /\ old[k].count <= limit
                   /\ old[k].first + old[k].count <= y + 1
        <5>1. 1 <= old[k].count /\ old[k].count <= limit
              /\ old[k].first + old[k].count <= y
          BY <2>1 DEF Bounded
        <5>2. old[k].first \in Nat /\ old[k].count \in Nat
          BY <2>1, ChunkFields
        <5> QED BY <2>1, <5>1, <5>2
      <4> QED BY <4>1, <4>3, <4>4 DEF Bounded
    <3> QED BY <3>1, <3>2
  <2> QED BY <2>1, <2>3 DEF new
<1> HIDE DEF G
<1>5. 0 .. Height \subseteq G
  BY <1>2, <1>3, <1>4, Steps
<1>6. Height \in 0 .. Height
  BY <1>2
<1> QED BY <1>1, <1>5, <1>6 DEF G

-----------------------------------------------------------------------------
(* The messages: their rows, and that between them they hold every row     *)
(* that is to be sent.                                                     *)
OnePlane(q) == <<q>>
PlaneLists == {OnePlane("visible"), OnePlane("explored"), Both}

GoodMessage(m, g) ==
  /\ m.planes \in PlaneLists
  /\ m.first \in Nat /\ m.count \in Nat \ {0} /\ m.first + m.count <= Height
  /\ m.full \in BOOLEAN /\ m.full => m.planes = Both
  /\ m.payload = Pack(Bits(g, m.planes, m.first, m.count))

LEMMA LargerOf ==
  ASSUME NEW a \in Int, NEW m, m = Max({1, a})
  PROVE  m \in {1, a} /\ m >= 1 /\ m >= a
<1>1. \E x \in {1, a} : \A y \in {1, a} : x >= y
  <2>1. CASE a >= 1
    BY <2>1
  <2>2. CASE ~(a >= 1)
    BY <2>2
  <2> QED BY <2>1, <2>2
<1> QED BY <1>1 DEF Max

LEMMA SmallerOf ==
  ASSUME NEW a \in Int, NEW b \in Int, NEW m, m = Min({a, b})
  PROVE  m \in {a, b} /\ m <= a /\ m <= b
<1>1. \E x \in {a, b} : \A y \in {a, b} : x <= y
  <2>1. CASE a <= b
    BY <2>1
  <2>2. CASE ~(a <= b)
    BY <2>2
  <2> QED BY <2>1, <2>2
<1> QED BY <1>1 DEF Min

LEMMA Scaled ==
  ASSUME NEW a \in Nat, NEW b \in Nat, NEW c \in Nat, a <= b
  PROVE  c * a <= c * b /\ c * a \in Nat
<1>1. PICK d \in Nat : b = a + d
  <2>1. b - a \in Nat /\ b = a + (b - a)
    OBVIOUS
  <2> QED BY <2>1
<1>2. c * (a + d) = c * a + c * d /\ c * d \in Nat /\ c * a \in Nat
  OBVIOUS
<1> QED BY <1>1, <1>2

LEMMA Quotient ==
  ASSUME NEW a \in Nat, NEW d \in Nat \ {0}
  PROVE  \E q \in Nat, r \in 0 .. d - 1 :
           q = a \div d /\ r = a % d /\ a = d * q + r /\ d * q <= a
<1>1. PICK q \in Int, r \in Int : q = a \div d /\ r = a % d
  OBVIOUS
<1>2. a = d * q + r /\ r \in 0 .. d - 1
  BY <1>1
<1>3. q >= 0
  <2>1. SUFFICES ASSUME q <= -1 PROVE FALSE
    OBVIOUS
  <2>2. -q - 1 \in Nat /\ d * (-q - 1) \in Nat /\ d * q = -d - d * (-q - 1)
    BY <2>1
  <2> QED BY <1>2, <2>2
<1>4. q \in Nat
  BY <1>3
<1>5. d * q \in Nat
  BY <1>4
<1>6. d * q <= a
  BY <1>2, <1>5
<1> QED BY <1>1, <1>2, <1>4, <1>6

LEMMA Apart ==
  ASSUME NEW d \in Nat \ {0}, NEW q \in Nat, NEW v \in Nat, q < v,
         NEW r \in 0 .. d - 1, NEW s \in Nat
  PROVE  d * q + r < d * v + s
<1>1. d * (q + 1) <= d * v
  BY Scaled
<1>2. d * (q + 1) = d * q + d /\ d * q \in Nat /\ d * v \in Nat
  OBVIOUS
<1> QED BY <1>1, <1>2

LEMMA OneQuotient ==
  ASSUME NEW d \in Nat \ {0}, NEW q \in Nat, NEW r \in 0 .. d - 1,
         NEW a, a = d * q + r
  PROVE  a \div d = q /\ a % d = r /\ a \in Nat
<1>1. d * q \in Nat
  OBVIOUS
<1>2. a \in Nat
  BY <1>1
<1>3. PICK v \in Nat, s \in 0 .. d - 1 : v = a \div d /\ s = a % d /\ a = d * v + s
  BY <1>2, Quotient
<1>4. ~(v < q)
  <2>1. v < q => d * v + s < d * q + r
    BY Apart
  <2> QED BY <1>2, <1>3, <2>1
<1>5. ~(q < v)
  <2>1. q < v => d * q + r < d * v + s
    BY Apart
  <2> QED BY <1>2, <1>3, <2>1
<1>6. v = q
  BY <1>4, <1>5
<1>7. s = r
  BY <1>1, <1>3, <1>6
<1> QED BY <1>2, <1>3, <1>6, <1>7

(* A chunk of as many rows as are put in one is not too long to be sent. *)
LEMMA ChunkLimit ==
  ASSUME NEW planes, Len(planes) \in {1, 2}, NEW per,
         per = RowsPerChunk(planes)
  PROVE  /\ per \in Nat \ {0}
         /\ \A count \in Nat : count <= per => Fits(planes, count)
<1> DEFINE k == Len(planes)
           d == Width * k
           D == (Chunk - 1) \div d
<1>1. Width \in Nat \ {0} /\ Chunk \in Nat /\ Chunk > 2 * Width /\ k \in {1, 2}
  BY FogAssumption
<1>2. d \in Nat \ {0} /\ d < Chunk /\ Chunk - 1 \in Nat
  <2>1. CASE k = 1
    BY <1>1, <2>1
  <2>2. CASE k = 2
    BY <1>1, <2>2
  <2> QED BY <1>1, <2>1, <2>2
<1>3. per = Max({1, D})
  BY DEF RowsPerChunk
<1>4. \A count : Fits(planes, count) <=> 1 + (Width * count) * k <= Chunk
  BY DEF Fits, CellsIn
<1>5. \A count \in Nat : (Width * count) * k = d * count
  BY <1>1
<1> HIDE DEF k, d
<1>6. D \in Nat /\ d * D <= Chunk - 1
  <2>1. PICK q \in Nat, r \in 0 .. d - 1 :
          /\ q = (Chunk - 1) \div d /\ r = (Chunk - 1) % d
          /\ Chunk - 1 = d * q + r /\ d * q <= Chunk - 1
    BY <1>2, Quotient
  <2>2. D = q
    BY <2>1
  <2> QED BY <2>1, <2>2
<1> HIDE DEF D
<1>7. per \in {1, D} /\ per >= 1
  BY <1>3, <1>6, LargerOf
<1>8. per \in Nat /\ d * per <= Chunk - 1
  <2>1. CASE per = 1
    <3>1. d * per = d
      BY <1>2, <2>1
    <3> QED BY <1>1, <1>2, <2>1, <3>1
  <2>2. CASE per = D
    BY <1>6, <2>2
  <2> QED BY <1>7, <2>1, <2>2
<1>9. ASSUME NEW count \in Nat, count <= per
      PROVE  Fits(planes, count)
  <2>1. d * count <= d * per /\ d * count \in Nat
    BY <1>2, <1>8, <1>9, Scaled
  <2>2. d * per \in Nat
    BY <1>2, <1>8, Scaled
  <2>3. 1 + d * count <= Chunk
    BY <1>1, <1>8, <2>1, <2>2
  <2> QED BY <1>4, <1>5, <2>3
<1> QED BY <1>7, <1>8, <1>9

(* G_FowSendDirtyPlane *)
LEMMA PlaneMessagesGood ==
  ASSUME NEW g, NEW q \in Plane, g.dirty[q] \in SUBSET Row,
         NEW m \in PlaneMessages(g, q)
  PROVE  GoodMessage(m, g) /\ m.planes = OnePlane(q)
<1> DEFINE limit == RowsPerChunk(OnePlane(q))
           s == DirtyChunks(g.dirty[q], limit)
<1>1. Len(OnePlane(q)) = 1 /\ limit \in Nat \ {0}
  <2>1. Len(OnePlane(q)) = 1
    BY DEF OnePlane
  <2> QED BY <2>1, ChunkLimit
<1>2. PICK c \in ToSet(s) : m = RowMessage(g, OnePlane(q), c.first, c.count, FALSE)
  BY DEF PlaneMessages, OnePlane
<1> HIDE DEF limit
<1>3. s \in Seq(ChunkType) /\ Bounded(s, limit, Height)
  BY <1>1, ChunksOfRows
<1> HIDE DEF s
<1>4. PICK k \in DOMAIN s : c = s[k]
  BY <1>2 DEF ToSet
<1>5. /\ c.first \in Nat /\ c.count \in Nat /\ 1 <= c.count
      /\ c.first + c.count <= Height
  BY <1>3, <1>4, ChunkFields DEF Bounded
<1>6. /\ m.planes = OnePlane(q) /\ m.first = c.first /\ m.count = c.count
      /\ m.full = FALSE
      /\ m.payload = Pack(Bits(g, OnePlane(q), c.first, c.count))
  BY <1>2 DEF RowMessage
<1>7. OnePlane(q) \in PlaneLists
  BY DEF PlaneLists, Plane
<1>8. m.first \in Nat /\ m.count \in Nat \ {0} /\ m.first + m.count <= Height
  BY <1>5, <1>6
<1> QED BY <1>6, <1>7, <1>8 DEF GoodMessage

LEMMA DirtyRowsSent ==
  ASSUME NEW g, NEW q \in Plane, g.dirty[q] \in SUBSET Row,
         NEW y \in g.dirty[q]
  PROVE  \E m \in PlaneMessages(g, q) : y \in RowsIn(m)
<1> DEFINE limit == RowsPerChunk(OnePlane(q))
           rows == g.dirty[q]
           s == DirtyChunks(rows, limit)
<1>1. limit \in Nat \ {0} /\ \A count \in Nat : count <= limit => Fits(OnePlane(q), count)
  <2>1. Len(OnePlane(q)) = 1
    BY DEF OnePlane
  <2> QED BY <2>1, ChunkLimit
<1> DEFINE Sent(c) == RowMessage(g, OnePlane(q), c.first, c.count, FALSE)
<1>2. \A c \in ToSet(s) : Fits(OnePlane(q), c.count) => Sent(c) \in PlaneMessages(g, q)
  BY DEF PlaneMessages, OnePlane
<1>3. y \in Nat /\ y < Height /\ Height \in Nat
  BY Sizes DEF Row
<1> HIDE DEF limit
<1>4. /\ s \in Seq(ChunkType)
      /\ Bounded(s, limit, Height)
      /\ Covers(s, rows, Height)
  BY <1>1, ChunksOfRows
<1> HIDE DEF s
<1>5. PICK k \in DOMAIN s : InChunk(s[k], y)
  BY <1>3, <1>4 DEF Covers
<1> DEFINE c == s[k]
<1>6. c.first \in Nat /\ c.count \in Nat /\ c.count <= limit /\ c \in ToSet(s)
  BY <1>4, ChunkFields DEF Bounded, ToSet
<1>7. InChunk(c, y)
  BY <1>5
<1> HIDE DEF c
<1>8. Sent(c) \in PlaneMessages(g, q)
  BY <1>1, <1>2, <1>6
<1>9. Sent(c).first = c.first /\ Sent(c).count = c.count
  BY DEF RowMessage
<1> HIDE DEF Sent
<1>10. y \in RowsIn(Sent(c))
  BY <1>3, <1>6, <1>7, <1>9 DEF RowsIn, InChunk
<1> QED BY <1>8, <1>10

(* G_FowSendFull *)
LEMMA FullCount ==
  ASSUME NEW y \in Row, NEW n, n = FullRows(y)
  PROVE  n \in Nat \ {0} /\ y + n <= Height /\ Fits(Both, n) /\ n <= RowsPerChunk(Both)
         /\ n \in {RowsPerChunk(Both), Height - y}
<1> DEFINE per == RowsPerChunk(Both)
<1>1. Len(Both) = 2
  BY DEF Both
<1>2. per \in Nat \ {0} /\ \A count \in Nat : count <= per => Fits(Both, count)
  BY <1>1, ChunkLimit
<1>3. n = Min({per, Height - y})
  BY DEF FullRows
<1>4. y \in Nat /\ Height \in Nat /\ Height - y >= 1
  BY Sizes DEF Row
<1> HIDE DEF per
<1>5. n \in {per, Height - y} /\ n <= per /\ n <= Height - y
  BY <1>2, <1>3, <1>4, SmallerOf
<1>6. n \in Nat \ {0} /\ y + n <= Height
  BY <1>2, <1>4, <1>5
<1> QED BY <1>2, <1>5, <1>6 DEF per

LEMMA FullMessagesGood ==
  ASSUME NEW g, NEW m \in FullMessages(g)
  PROVE  GoodMessage(m, g) /\ m.planes = Both /\ m.full = TRUE
<1>1. PICK y \in Row : m = RowMessage(g, Both, y, FullRows(y), TRUE)
  BY DEF FullMessages
<1>2. FullRows(y) \in Nat \ {0} /\ y + FullRows(y) <= Height
  BY FullCount
<1>3. /\ m.planes = Both /\ m.first = y /\ m.count = FullRows(y) /\ m.full = TRUE
      /\ m.payload = Pack(Bits(g, Both, y, FullRows(y)))
  BY <1>1 DEF RowMessage
<1>4. Both \in PlaneLists /\ y \in Nat
  BY Sizes DEF PlaneLists, Row
<1> QED BY <1>2, <1>3, <1>4 DEF GoodMessage

LEMMA EveryRowSent ==
  ASSUME NEW g, NEW y \in Row
  PROVE  \E m \in FullMessages(g) : y \in RowsIn(m)
<1> DEFINE per == RowsPerChunk(Both)
           Sent(w) == RowMessage(g, Both, w, FullRows(w), TRUE)
<1>1. Len(Both) = 2
  BY DEF Both
<1>2. per \in Nat \ {0}
  BY <1>1, ChunkLimit
<1>3. y \in Nat /\ Height \in Nat /\ y < Height
  BY Sizes DEF Row
<1>4. \A w \in Row : w % per = 0 /\ Fits(Both, FullRows(w)) => Sent(w) \in FullMessages(g)
  BY DEF FullMessages
<1>5. \A w \in Row : FullRows(w) \in {per, Height - w}
  BY FullCount
<1> HIDE DEF per
<1>6. PICK v \in Nat, r \in 0 .. per - 1 :
        v = y \div per /\ r = y % per /\ y = per * v + r /\ per * v <= y
  BY <1>2, <1>3, Quotient
<1> DEFINE z == per * v
<1>7. z \in Nat /\ z <= y /\ y < z + per
  <2>1. z \in Nat
    BY <1>2
  <2> QED BY <1>2, <1>3, <1>6, <2>1
<1>8. z % per = 0
  <2>1. 0 \in 0 .. per - 1 /\ z = per * v + 0
    BY <1>2, <1>7
  <2> HIDE DEF z
  <2> QED BY <1>2, <2>1, OneQuotient
<1> HIDE DEF z
<1>9. z \in Row
  BY <1>3, <1>7 DEF Row
<1>10. /\ FullRows(z) \in Nat \ {0}
       /\ Fits(Both, FullRows(z))
       /\ FullRows(z) \in {per, Height - z}
  BY <1>5, <1>9, FullCount
<1>11. Sent(z) \in FullMessages(g)
  BY <1>4, <1>8, <1>9, <1>10
<1>12. Sent(z).first = z /\ Sent(z).count = FullRows(z)
  BY DEF RowMessage
<1> HIDE DEF Sent
<1>13. y <= z + FullRows(z) - 1
  BY <1>3, <1>7, <1>10
<1>14. y \in RowsIn(Sent(z))
  BY <1>3, <1>7, <1>10, <1>12, <1>13 DEF RowsIn
<1> QED BY <1>11, <1>14

-----------------------------------------------------------------------------
(* What is packed is what is unpacked. *)
Bit == {0, 1}
PackState == [out : Seq(Nat), current : Bit, run : Nat]
UnpackState == [value : Bit, bits : Seq(Bit)]

LEMMA LongestRun == RunMax \in Nat /\ RunMax >= 2
BY FogAssumption

LEMMA RunType ==
  ASSUME NEW b \in Bit, NEW k \in Nat
  PROVE  Run(b, k) \in Seq(Bit) /\ Len(Run(b, k)) = k
BY DEF Run

LEMMA TakeType ==
  ASSUME NEW s \in UnpackState, NEW k \in Nat
  PROVE  Take(s, k) \in UnpackState
<1>1. s.value \in Bit /\ s.bits \in Seq(Bit) /\ 1 - s.value \in Bit
  BY DEF UnpackState, Bit
<1>2. s.bits \o Run(s.value, k) \in Seq(Bit)
  BY <1>1, RunType
<1> QED BY <1>1, <1>2 DEF Take, UnpackState

LEMMA PutType ==
  ASSUME NEW s \in PackState, NEW b \in Bit
  PROVE  Put(s, b) \in PackState
<1>1. /\ s.out \in Seq(Nat)
      /\ s.current \in Bit
      /\ s.run \in Nat
      /\ s.run + 1 \in Nat
  BY DEF PackState
<1>2. s.out \o <<RunMax, 0>> \in Seq(Nat) /\ s.out \o <<s.run>> \in Seq(Nat)
      /\ Append(s.out, RunMax) \in Seq(Nat)
  BY <1>1, LongestRun
<1>3. \A o \in Seq(Nat), r \in Nat : Packing(o, b, r) \in PackState
  BY DEF Packing, PackState
<1>4. CASE b # s.current
  BY <1>2, <1>3, <1>4 DEF Put
<1>5. CASE b = s.current
  BY <1>1, <1>2, <1>3, <1>5 DEF Put
<1> QED BY <1>4, <1>5

(* The loops. *)
Takes(f, payload) ==
  \A i \in 1 .. Len(payload) - 1 : f[i] = Take(f[i - 1], payload[i + 1])

LEMMA TakenLoop ==
  ASSUME NEW payload \in Seq(Nat), Len(payload) >= 1, payload[1] \in Bit
  PROVE  \E f \in [0 .. Len(payload) - 1 -> UnpackState] :
           /\ f[0] = [value |-> payload[1], bits |-> <<>>]
           /\ Takes(f, payload)
           /\ Taken(payload) = f[Len(payload) - 1]
<1> DEFINE n == Len(payload) - 1
           start == [value |-> payload[1], bits |-> <<>>]
           Loop(f) == f = [i \in 0 .. Len(payload) - 1 |->
             IF i = 0 THEN [value |-> payload[1], bits |-> <<>>]
             ELSE Take(f[i - 1], payload[i + 1])]
           S == UnpackState
           step == [i \in 1 .. n |-> [s \in S |-> Take(s, payload[i + 1])]]
<1>1. n \in Nat /\ start \in S
  <2>1. <<>> \in Seq(Bit)
    OBVIOUS
  <2> QED BY <2>1 DEF UnpackState
<1>2. step \in [1 .. n -> [S -> S]]
  <2>1. ASSUME NEW i \in 1 .. n, NEW s \in S
        PROVE  Take(s, payload[i + 1]) \in S
    <3>1. payload[i + 1] \in Nat
      BY <1>1
    <3> QED BY <3>1, TakeType
  <2> QED BY <2>1
<1> HIDE DEF n, S, step, start
<1>3. PICK f \in [0 .. n -> S] : f[0] = start /\ Runs(f, n, step)
  BY <1>1, <1>2, Iterates
<1>4. Loop(f)
  <2>1. ASSUME NEW i \in 0 .. n
        PROVE  f[i] = IF i = 0 THEN start ELSE Take(f[i - 1], payload[i + 1])
    <3>1. CASE i = 0
      BY <1>3, <3>1
    <3>2. CASE i # 0
      <4>1. i \in 1 .. n /\ f[i - 1] \in S
        BY <1>1, <3>2
      <4>2. f[i] = step[i][f[i - 1]]
        BY <1>3, <4>1 DEF Runs
      <4> QED BY <3>2, <4>1, <4>2 DEF step
    <3> QED BY <3>1, <3>2
  <2> QED BY <2>1 DEF n, start
<1> DEFINE h == CHOOSE g : Loop(g)
<1>5. Loop(h)
  <2> HIDE DEF Loop
  <2> QED BY <1>4
<1>6. Taken(payload) = h[n]
  BY DEF Taken, n
<1> HIDE DEF h
<1>7. h = [i \in 0 .. n |-> IF i = 0 THEN start ELSE Take(h[i - 1], payload[i + 1])]
  BY <1>5, Zenon DEF n, start
<1> HIDE DEF Loop
<1>8. h[0] = start /\ DOMAIN h = 0 .. n
  BY <1>1, <1>7
<1>9. ASSUME NEW i \in 1 .. n
      PROVE  h[i] = Take(h[i - 1], payload[i + 1])
  <2>1. i \in 0 .. n /\ i # 0
    BY <1>1
  <2> QED BY <1>7, <2>1
<1>10. Takes(h, payload)
  BY <1>9 DEF Takes, n
<1>11. h \in [0 .. n -> S]
  <2> DEFINE G == {i \in 0 .. n : h[i] \in S}
  <2>1. 0 \in G
    BY <1>1, <1>8
  <2>2. ASSUME NEW i \in 1 .. n, i - 1 \in G
        PROVE  i \in G
    <3>1. h[i - 1] \in S /\ h[i] = Take(h[i - 1], payload[i + 1])
      BY <1>9, <2>2
    <3>2. /\ step[i][h[i - 1]] = Take(h[i - 1], payload[i + 1])
          /\ step[i][h[i - 1]] \in S
      BY <1>2, <3>1 DEF step
    <3> QED BY <1>1, <3>1, <3>2
  <2> HIDE DEF G
  <2>3. 0 .. n \subseteq G
    BY <1>1, <2>1, <2>2, Steps
  <2>4. \A i \in 0 .. n : h[i] \in S
    BY <2>3 DEF G
  <2> QED BY <1>7, <2>4
<1> QED BY <1>6, <1>8, <1>10, <1>11 DEF n, S, start

LEMMA TakenStart ==
  ASSUME NEW b \in Bit
  PROVE  Taken(<<b>>) = [value |-> b, bits |-> <<>>]
<1> DEFINE o == <<b>>
<1>1. o \in Seq(Nat) /\ Len(o) = 1 /\ o[1] = b
  BY DEF Bit
<1> HIDE DEF o
<1>2. PICK f \in [0 .. Len(o) - 1 -> UnpackState] :
           /\ f[0] = [value |-> o[1], bits |-> <<>>]
           /\ Takes(f, o)
           /\ Taken(o) = f[Len(o) - 1]
  BY <1>1, TakenLoop
<1>3. Taken(o) = [value |-> b, bits |-> <<>>]
  BY <1>1, <1>2
<1> QED BY <1>3 DEF o

LEMMA TakenAppend ==
  ASSUME NEW o \in Seq(Nat), Len(o) >= 1, o[1] \in Bit, NEW k \in Nat
  PROVE  Taken(o) \in UnpackState /\ Taken(Append(o, k)) = Take(Taken(o), k)
<1> DEFINE p == Append(o, k)
           n == Len(o)
<1>1. /\ p \in Seq(Nat) /\ Len(p) = n + 1 /\ p[1] = o[1] /\ p[n + 1] = k
      /\ n \in Nat \ {0} /\ \A i \in 1 .. n : p[i] = o[i]
  OBVIOUS
<1> HIDE DEF p
<1>2. PICK f \in [0 .. Len(o) - 1 -> UnpackState] :
           /\ f[0] = [value |-> o[1], bits |-> <<>>]
           /\ Takes(f, o)
           /\ Taken(o) = f[Len(o) - 1]
  BY TakenLoop
<1>3. PICK g \in [0 .. Len(p) - 1 -> UnpackState] :
           /\ g[0] = [value |-> p[1], bits |-> <<>>]
           /\ Takes(g, p)
           /\ Taken(p) = g[Len(p) - 1]
  <2>1. Len(p) >= 1 /\ p[1] \in Bit /\ p \in Seq(Nat)
    BY <1>1
  <2> HIDE DEF n
  <2> QED BY <2>1, TakenLoop
<1> HIDE DEF n
<1> DEFINE m == n - 1
           G == {i \in 0 .. m : f[i] = g[i]}
<1>4. m \in Nat /\ m = Len(o) - 1 /\ Len(p) - 1 = n
  BY <1>1 DEF n
<1>5. 0 \in G
  BY <1>1, <1>2, <1>3, <1>4
<1>6. ASSUME NEW i \in 1 .. m, i - 1 \in G
      PROVE  i \in G
  <2>1. i \in 1 .. Len(o) - 1 /\ i \in 1 .. Len(p) - 1 /\ i + 1 \in 1 .. n
    BY <1>1, <1>4
  <2>2. f[i] = Take(f[i - 1], o[i + 1])
    BY <1>2, <2>1 DEF Takes
  <2>3. g[i] = Take(g[i - 1], p[i + 1])
    BY <1>3, <2>1 DEF Takes
  <2>4. p[i + 1] = o[i + 1] /\ f[i - 1] = g[i - 1]
    BY <1>1, <1>6, <2>1
  <2> QED BY <2>2, <2>3, <2>4
<1> HIDE DEF G
<1>7. 0 .. m \subseteq G
  BY <1>4, <1>5, <1>6, Steps
<1>8. f[m] = g[m]
  BY <1>4, <1>7 DEF G
<1>9. g[n] = Take(g[n - 1], p[n + 1])
  <2>1. n \in 1 .. Len(p) - 1
    BY <1>1, <1>4
  <2> QED BY <1>3, <2>1 DEF Takes
<1>10. Taken(o) = g[n - 1] /\ Taken(p) = g[n]
  BY <1>2, <1>3, <1>4, <1>8
<1>11. Taken(o) \in UnpackState
  BY <1>2, <1>4
<1> QED BY <1>1, <1>9, <1>10, <1>11 DEF p

Puts(f, bits) ==
  \A i \in 1 .. Len(bits) - 1 : f[i] = Put(f[i - 1], bits[i + 1])

LEMMA PackedLoop ==
  ASSUME NEW bits \in Seq(Bit), Len(bits) >= 1
  PROVE  \E f \in [0 .. Len(bits) - 1 -> PackState] :
           /\ f[0] = Packing(<<bits[1]>>, bits[1], 1)
           /\ Puts(f, bits)
           /\ Packed(bits) = f[Len(bits) - 1]
<1> DEFINE n == Len(bits) - 1
           start == Packing(<<bits[1]>>, bits[1], 1)
           Loop(f) == f = [i \in 0 .. Len(bits) - 1 |->
             IF i = 0 THEN Packing(<<bits[1]>>, bits[1], 1)
             ELSE Put(f[i - 1], bits[i + 1])]
           S == PackState
           step == [i \in 1 .. n |-> [s \in S |-> Put(s, bits[i + 1])]]
<1>1. n \in Nat /\ start \in S
  <2>1. bits[1] \in Bit
    OBVIOUS
  <2>2. <<bits[1]>> \in Seq(Nat)
    BY <2>1 DEF Bit
  <2> QED BY <2>1, <2>2 DEF PackState, Packing
<1>2. step \in [1 .. n -> [S -> S]]
  <2>1. ASSUME NEW i \in 1 .. n, NEW s \in S
        PROVE  Put(s, bits[i + 1]) \in S
    <3>1. bits[i + 1] \in Bit
      BY <1>1
    <3> QED BY <3>1, PutType
  <2> QED BY <2>1
<1> HIDE DEF n, S, step, start
<1>3. PICK f \in [0 .. n -> S] : f[0] = start /\ Runs(f, n, step)
  BY <1>1, <1>2, Iterates
<1>4. Loop(f)
  <2>1. ASSUME NEW i \in 0 .. n
        PROVE  f[i] = IF i = 0 THEN start ELSE Put(f[i - 1], bits[i + 1])
    <3>1. CASE i = 0
      BY <1>3, <3>1
    <3>2. CASE i # 0
      <4>1. i \in 1 .. n /\ f[i - 1] \in S
        BY <1>1, <3>2
      <4>2. f[i] = step[i][f[i - 1]]
        BY <1>3, <4>1 DEF Runs
      <4> QED BY <3>2, <4>1, <4>2 DEF step
    <3> QED BY <3>1, <3>2
  <2> QED BY <2>1 DEF n, start
<1> DEFINE h == CHOOSE g : Loop(g)
<1>5. Loop(h)
  <2> HIDE DEF Loop
  <2> QED BY <1>4
<1>6. Packed(bits) = h[n]
  BY DEF Packed, n
<1> HIDE DEF h
<1>7. h = [i \in 0 .. n |-> IF i = 0 THEN start ELSE Put(h[i - 1], bits[i + 1])]
  BY <1>5, Zenon DEF n, start
<1> HIDE DEF Loop
<1>8. h[0] = start /\ DOMAIN h = 0 .. n
  BY <1>1, <1>7
<1>9. ASSUME NEW i \in 1 .. n
      PROVE  h[i] = Put(h[i - 1], bits[i + 1])
  <2>1. i \in 0 .. n /\ i # 0
    BY <1>1
  <2> QED BY <1>7, <2>1
<1>10. Puts(h, bits)
  BY <1>9 DEF Puts, n
<1>11. h \in [0 .. n -> S]
  <2> DEFINE G == {i \in 0 .. n : h[i] \in S}
  <2>1. 0 \in G
    BY <1>1, <1>8
  <2>2. ASSUME NEW i \in 1 .. n, i - 1 \in G
        PROVE  i \in G
    <3>1. h[i - 1] \in S /\ h[i] = Put(h[i - 1], bits[i + 1])
      BY <1>9, <2>2
    <3>2. /\ step[i][h[i - 1]] = Put(h[i - 1], bits[i + 1])
          /\ step[i][h[i - 1]] \in S
      BY <1>2, <3>1 DEF step
    <3> QED BY <1>1, <3>1, <3>2
  <2> HIDE DEF G
  <2>3. 0 .. n \subseteq G
    BY <1>1, <2>1, <2>2, Steps
  <2>4. \A i \in 0 .. n : h[i] \in S
    BY <2>3 DEF G
  <2> QED BY <1>7, <2>4
<1> QED BY <1>6, <1>8, <1>10, <1>11 DEF n, S, start

LEMMA TwoMore ==
  ASSUME NEW s \in Seq(Nat), NEW a \in Nat, NEW b \in Nat
  PROVE  s \o <<a, b>> = Append(Append(s, a), b)
OBVIOUS

(* After m bits: the runs that have ended, taken back, and the run that    *)
(* goes on are the first m bits; and no run takes more bytes than bits.    *)
InRun(s, bits, m) ==
  /\ Len(s.out) >= 1 /\ s.out[1] \in Bit
  /\ s.run >= 1 /\ s.run <= RunMax
  /\ Len(s.out) + s.run <= m + 1
  /\ Taken(s.out).value = s.current
  /\ Taken(s.out).bits \o Run(s.current, s.run) = SubSeq(bits, 1, m)

LEMMA SameSequence ==
  ASSUME NEW S, NEW x \in Seq(S), NEW y \in Seq(S), NEW n \in Nat,
         Len(x) = n, Len(y) = n, \A i \in 1 .. n : x[i] = y[i]
  PROVE  x = y
<1>1. x = [i \in 1 .. n |-> x[i]] /\ y = [i \in 1 .. n |-> y[i]]
  OBVIOUS
<1> QED BY <1>1

LEMMA RunGoesOn ==
  ASSUME NEW t \in Seq(Bit), NEW b \in Bit, NEW r \in Nat
  PROVE  /\ t \o Run(b, r + 1) = Append(t \o Run(b, r), b)
         /\ t \o Run(b, 1) = Append(t, b)
         /\ t \o Run(b, 0) = t
<1>1. Run(b, r) \in Seq(Bit) /\ Len(Run(b, r)) = r
  BY RunType
<1>2. Run(b, r + 1) \in Seq(Bit) /\ Len(Run(b, r + 1)) = r + 1
  BY RunType
<1>3. Run(b, 1) \in Seq(Bit) /\ Len(Run(b, 1)) = 1 /\ Run(b, 1)[1] = b
  <2>1. Run(b, 1)[1] = b
    BY DEF Run
  <2> QED BY <2>1, RunType
<1>4. Run(b, 0) \in Seq(Bit) /\ Len(Run(b, 0)) = 0
  BY RunType
<1>5. /\ \A i \in 1 .. r : Run(b, r)[i] = b
      /\ \A i \in 1 .. r + 1 : Run(b, r + 1)[i] = b
  BY DEF Run
<1>6. t \o Run(b, r + 1) = Append(t \o Run(b, r), b)
  <2> DEFINE x == t \o Run(b, r + 1)
             y == Append(t \o Run(b, r), b)
             n == Len(t)
  <2>1. x \in Seq(Bit) /\ y \in Seq(Bit) /\ Len(x) = n + r + 1 /\ Len(y) = n + r + 1
        /\ n \in Nat /\ n + r + 1 \in Nat
    BY <1>1, <1>2
  <2>2. ASSUME NEW i \in 1 .. n + r + 1
        PROVE  x[i] = y[i]
    <3>1. CASE i <= n
      BY <1>1, <1>2, <3>1
    <3>2. CASE i > n /\ i <= n + r
      <4>1. i - n \in 1 .. r /\ i - n \in 1 .. r + 1
        BY <3>2
      <4>2. x[i] = Run(b, r + 1)[i - n]
        BY <1>2, <3>2
      <4>3. y[i] = Run(b, r)[i - n]
        BY <1>1, <3>2
      <4> QED BY <1>5, <4>1, <4>2, <4>3
    <3>3. CASE i = n + r + 1
      <4>1. i - n = r + 1 /\ r + 1 \in 1 .. r + 1
        BY <3>3
      <4>2. x[i] = Run(b, r + 1)[r + 1]
        BY <1>2, <3>3, <4>1
      <4>3. y[i] = b
        BY <1>1, <3>3
      <4> QED BY <1>5, <4>1, <4>2, <4>3
    <3> HIDE DEF x, y, n
    <3>4. i <= n \/ (i > n /\ i <= n + r) \/ i = n + r + 1
      BY <2>1
    <3> QED BY <3>1, <3>2, <3>3, <3>4
  <2> HIDE DEF x, y, n
  <2>3. x = y
    BY <2>1, <2>2, SameSequence
  <2> QED BY <2>3 DEF x, y
<1>7. t \o Run(b, 1) = Append(t, b)
  <2>1. <<b>> \in Seq(Bit) /\ Len(<<b>>) = 1 /\ \A i \in 1 .. 1 : Run(b, 1)[i] = <<b>>[i]
    BY <1>3
  <2>2. Run(b, 1) = <<b>>
    BY <1>3, <2>1, SameSequence
  <2>3. t \o <<b>> = Append(t, b)
    OBVIOUS
  <2> QED BY <2>2, <2>3
<1>8. t \o Run(b, 0) = t
  BY <1>4
<1> QED BY <1>6, <1>7, <1>8

LEMMA FirstBits ==
  ASSUME NEW bits \in Seq(Bit), NEW m \in Nat, m + 1 <= Len(bits)
  PROVE  /\ SubSeq(bits, 1, m + 1) = Append(SubSeq(bits, 1, m), bits[m + 1])
         /\ SubSeq(bits, 1, Len(bits)) = bits
<1>1. SubSeq(bits, 1, m) \in Seq(Bit) /\ Len(SubSeq(bits, 1, m)) = m
  OBVIOUS
<1>2. /\ SubSeq(bits, 1, m + 1) \in Seq(Bit)
      /\ Len(SubSeq(bits, 1, m + 1)) = m + 1
  OBVIOUS
<1>3. \A i \in 1 .. m : SubSeq(bits, 1, m)[i] = bits[i]
  OBVIOUS
<1>4. \A i \in 1 .. m + 1 : SubSeq(bits, 1, m + 1)[i] = bits[i]
  OBVIOUS
<1>5. SubSeq(bits, 1, m + 1) = Append(SubSeq(bits, 1, m), bits[m + 1])
  <2> DEFINE x == SubSeq(bits, 1, m + 1)
             y == Append(SubSeq(bits, 1, m), bits[m + 1])
  <2>1. x \in Seq(Bit) /\ y \in Seq(Bit) /\ Len(x) = m + 1 /\ Len(y) = m + 1
    BY <1>1, <1>2
  <2>2. \A i \in 1 .. m + 1 : x[i] = y[i]
    BY <1>1, <1>3, <1>4
  <2> HIDE DEF x, y
  <2> QED BY <2>1, <2>2
<1> QED BY <1>5

LEMMA PutKeeps ==
  ASSUME NEW bits \in Seq(Bit), NEW m \in Nat, m + 1 <= Len(bits),
         NEW s \in PackState, InRun(s, bits, m),
         NEW t, t = Put(s, bits[m + 1])
  PROVE  InRun(t, bits, m + 1)
<1> DEFINE b == bits[m + 1]
           o == s.out
           c == s.current
           r == s.run
           u == Taken(s.out)
           first == SubSeq(bits, 1, m)
<1>1. /\ o \in Seq(Nat) /\ c \in Bit /\ r \in Nat /\ b \in Bit
      /\ Len(o) >= 1 /\ o[1] \in Bit /\ r >= 1 /\ r <= RunMax
      /\ Len(o) + r <= m + 1 /\ Len(o) \in Nat
      /\ u.value = c /\ u.bits \o Run(c, r) = first
  BY DEF PackState, InRun
<1>2. u \in UnpackState
  BY <1>1, TakenAppend
<1>3. u.bits \in Seq(Bit) /\ first \in Seq(Bit)
  BY <1>2 DEF UnpackState
<1>4. SubSeq(bits, 1, m + 1) = Append(first, b)
  BY FirstBits
<1>5. \A k \in Nat : /\ Taken(Append(o, k)) = Take(u, k)
                     /\ Append(o, k) \in Seq(Nat) /\ Len(Append(o, k)) >= 1
                     /\ Append(o, k)[1] = o[1]
  <2>1. \A k \in Nat : Taken(Append(o, k)) = Take(u, k)
    BY <1>1, TakenAppend
  <2>2. \A k \in Nat : /\ Append(o, k) \in Seq(Nat) /\ Len(Append(o, k)) >= 1
                       /\ Append(o, k)[1] = o[1]
    BY <1>1
  <2> QED BY <2>1, <2>2
<1>6. t = Put(s, b)
  OBVIOUS
<1>p. \A x, y, z : /\ Packing(x, y, z).out = x /\ Packing(x, y, z).current = y
                   /\ Packing(x, y, z).run = z
  BY DEF Packing
<1> HIDE DEF b, u, first
<1>7. Take(u, r).bits = first /\ Take(u, r).value = IF r = RunMax THEN c ELSE 1 - c
  BY <1>1 DEF Take
<1>8. CASE b = c /\ r < RunMax
  <2>1. t = Packing(o, b, r + 1)
    BY <1>1, <1>6, <1>8, LongestRun DEF Put
  <2>2. u.bits \o Run(b, r + 1) = Append(first, b)
    BY <1>1, <1>3, <1>8, RunGoesOn
  <2>3. r + 1 >= 1 /\ r + 1 <= RunMax
    BY <1>1, <1>8, LongestRun
  <2>20. t.out = o /\ t.current = b /\ t.run = r + 1
    BY <1>p, <2>1
  <2>21. Len(t.out) >= 1 /\ t.out[1] \in Bit /\ t.run >= 1 /\ t.run <= RunMax
    BY <1>1, <2>3, <2>20
  <2>22. Taken(t.out).value = t.current
    BY <1>1, <1>8, <2>20 DEF u
  <2>23. Taken(t.out).bits \o Run(t.current, t.run) = SubSeq(bits, 1, m + 1)
    BY <1>4, <2>2, <2>20 DEF u
  <2>24. Len(t.out) + t.run <= m + 1 + 1
    BY <1>1, <2>20
  <2> QED BY <1>1, <2>20, <2>21, <2>22, <2>23, <2>24 DEF InRun
<1>9. CASE b = c /\ r = RunMax
  <2>1. t = Packing(Append(o, RunMax), b, 1)
    BY <1>6, <1>9 DEF Put
  <2>2. /\ Taken(Append(o, RunMax)).bits = first
        /\ Taken(Append(o, RunMax)).value = c
    BY <1>1, <1>5, <1>7, <1>9
  <2>3. first \o Run(b, 1) = Append(first, b)
    BY <1>1, <1>3, RunGoesOn
  <2>4. Len(Append(o, RunMax)) >= 1 /\ Append(o, RunMax)[1] \in Bit
    BY <1>1, <1>5, LongestRun
  <2>20. t.out = Append(o, RunMax) /\ t.current = b /\ t.run = 1
    <3> DEFINE o1 == Append(o, RunMax)
    <3>1. t = Packing(o1, b, 1)
      BY <2>1
    <3> HIDE DEF o1
    <3>2. t.out = o1 /\ t.current = b /\ t.run = 1
      BY <1>p, <3>1
    <3> QED BY <3>2 DEF o1
  <2>21. Len(t.out) >= 1 /\ t.out[1] \in Bit /\ t.run >= 1 /\ t.run <= RunMax
    BY <2>4, <2>20, LongestRun
  <2>22. Taken(t.out).value = t.current
    BY <1>9, <2>2, <2>3, <2>20
  <2>23. Taken(t.out).bits \o Run(t.current, t.run) = SubSeq(bits, 1, m + 1)
    BY <1>4, <1>9, <2>2, <2>3, <2>20
  <2>24. Len(t.out) + t.run <= m + 1 + 1
    <3>1. Len(Append(o, RunMax)) = Len(o) + 1
      BY <1>1
    <3> QED BY <1>1, <1>9, <2>20, <3>1, LongestRun
  <2> QED BY <1>1, <2>20, <2>21, <2>22, <2>23, <2>24 DEF InRun
<1>10. CASE b # c /\ r # RunMax
  <2>1. t = Packing(Append(o, r), b, 1)
    <3>1. o \o <<r>> = Append(o, r)
      BY <1>1
    <3> QED BY <1>6, <1>10, <3>1 DEF Put
  <2>2. Taken(Append(o, r)).bits = first /\ Taken(Append(o, r)).value = 1 - c
    BY <1>1, <1>5, <1>7, <1>10
  <2>3. first \o Run(b, 1) = Append(first, b)
    BY <1>1, <1>3, RunGoesOn
  <2>4. Len(Append(o, r)) >= 1 /\ Append(o, r)[1] \in Bit
    BY <1>1, <1>5
  <2>5. b = 1 - c
    BY <1>1, <1>10 DEF Bit
  <2>20. t.out = Append(o, r) /\ t.current = b /\ t.run = 1
    <3> DEFINE o1 == Append(o, r)
    <3>1. t = Packing(o1, b, 1)
      BY <2>1
    <3> HIDE DEF o1
    <3>2. t.out = o1 /\ t.current = b /\ t.run = 1
      BY <1>p, <3>1
    <3> QED BY <3>2 DEF o1
  <2>21. Len(t.out) >= 1 /\ t.out[1] \in Bit /\ t.run >= 1 /\ t.run <= RunMax
    BY <2>4, <2>20, LongestRun
  <2>22. Taken(t.out).value = t.current
    BY <2>2, <2>3, <2>5, <2>20
  <2>23. Taken(t.out).bits \o Run(t.current, t.run) = SubSeq(bits, 1, m + 1)
    BY <1>4, <2>2, <2>3, <2>5, <2>20
  <2>24. Len(t.out) + t.run <= m + 1 + 1
    <3>1. Len(Append(o, r)) = Len(o) + 1
      BY <1>1
    <3> QED BY <1>1, <1>10, <2>20, <3>1, LongestRun
  <2> QED BY <1>1, <2>20, <2>21, <2>22, <2>23, <2>24 DEF InRun
<1>11. CASE b # c /\ r = RunMax
  <2> DEFINE o1 == Append(o, RunMax)
             o2 == Append(o1, 0)
  <2>1. t = Packing(o2, b, 1)
    <3>1. o \in Seq(Nat) /\ RunMax \in Nat /\ 0 \in Nat
      BY <1>1, LongestRun
    <3>2. o \o <<RunMax, 0>> = o2
      BY <3>1, TwoMore
    <3> QED BY <1>6, <1>11, <3>2 DEF Put
  <2>2. Taken(o1).bits = first /\ Taken(o1).value = c
    BY <1>1, <1>5, <1>7, <1>11
  <2>3. o1 \in Seq(Nat) /\ Len(o1) >= 1 /\ o1[1] \in Bit
    BY <1>1, <1>5, LongestRun
  <2> HIDE DEF o1
  <2>4. Taken(o2) = Take(Taken(o1), 0)
    BY <2>3, TakenAppend
  <2>5. o2 \in Seq(Nat) /\ Len(o2) >= 1 /\ o2[1] \in Bit
    BY <2>3
  <2>6. Taken(o2).bits = first /\ Taken(o2).value = 1 - c
    <3>1. first \o Run(c, 0) = first
      BY <1>1, <1>3, RunGoesOn
    <3> QED BY <2>2, <2>4, <3>1, LongestRun DEF Take
  <2> HIDE DEF o2
  <2>7. first \o Run(b, 1) = Append(first, b)
    BY <1>1, <1>3, RunGoesOn
  <2>8. b = 1 - c
    BY <1>1, <1>11 DEF Bit
  <2>20. t.out = o2 /\ t.current = b /\ t.run = 1
    BY <1>p, <2>1
  <2>21. Len(t.out) >= 1 /\ t.out[1] \in Bit /\ t.run >= 1 /\ t.run <= RunMax
    BY <2>5, <2>20, LongestRun
  <2>22. Taken(t.out).value = t.current
    BY <2>6, <2>7, <2>8, <2>20
  <2>23. Taken(t.out).bits \o Run(t.current, t.run) = SubSeq(bits, 1, m + 1)
    BY <1>4, <2>6, <2>7, <2>8, <2>20
  <2>24. Len(t.out) + t.run <= m + 1 + 1
    <3>1. Len(o2) = Len(o) + 2
      BY <1>1 DEF o1, o2
    <3> QED BY <1>1, <1>11, <2>20, <3>1, LongestRun
  <2> QED BY <1>1, <2>20, <2>21, <2>22, <2>23, <2>24 DEF InRun
<1>12. r < RunMax \/ r = RunMax
  BY <1>1, LongestRun
<1> QED BY <1>8, <1>9, <1>10, <1>11, <1>12

(* CL_UnpackFogRLE (cl_parse.c:455-485) undoes G_FowPackRows (g_fow.c:864-  *)
(* 932), CL_ValidateFogRLE accepts what it packs, and that is never longer *)
(* than the bits and one: a message that G_FowWriteRows has room for is    *)
(* not given up when it is packed.  For every length of the longest run.   *)
THEOREM UnpackPack ==
  ASSUME NEW bits \in Seq(Bit), Len(bits) >= 1
  PROVE  /\ Unpack(Pack(bits)) = bits
         /\ Valid(Pack(bits), Len(bits))
         /\ Len(Pack(bits)) <= 1 + Len(bits)
<1> DEFINE n == Len(bits)
           m == n - 1
<1>1. PICK f \in [0 .. Len(bits) - 1 -> PackState] :
           /\ f[0] = Packing(<<bits[1]>>, bits[1], 1)
           /\ Puts(f, bits)
           /\ Packed(bits) = f[Len(bits) - 1]
  BY PackedLoop
<1>2. n \in Nat /\ m \in Nat /\ m + 1 = n
  OBVIOUS
<1> DEFINE G == {i \in 0 .. m : InRun(f[i], bits, i + 1)}
<1>3. 0 \in G
  <2> DEFINE b == bits[1]
             s == f[0]
  <2>1. b \in Bit
    OBVIOUS
  <2>2. s.out = <<b>> /\ s.current = b /\ s.run = 1
    BY <1>1 DEF Packing
  <2>3. Taken(<<b>>) = [value |-> b, bits |-> <<>>]
    BY <2>1, TakenStart
  <2> HIDE DEF b, s
  <2>4. Taken(s.out).value = b /\ Taken(s.out).bits = <<>>
    BY <2>2, <2>3
  <2>5. <<>> \o Run(b, 1) = Append(<<>>, b)
    <3>1. <<>> \in Seq(Bit) /\ 0 \in Nat
      OBVIOUS
    <3> QED BY <2>1, <3>1, RunGoesOn
  <2>6. SubSeq(bits, 1, 0 + 1) = Append(SubSeq(bits, 1, 0), bits[0 + 1])
    <3>1. 0 \in Nat /\ 0 + 1 <= Len(bits)
      OBVIOUS
    <3> QED BY <3>1, FirstBits
  <2>7. SubSeq(bits, 1, 0) = <<>>
    OBVIOUS
  <2>8. SubSeq(bits, 1, 0 + 1) = Append(<<>>, b)
    BY <2>6, <2>7 DEF b
  <2>9. Len(s.out) >= 1 /\ s.out[1] \in Bit
    BY <2>1, <2>2
  <2>a. Len(s.out) + s.run <= 2
    BY <2>2
  <2>10. InRun(s, bits, 0 + 1)
    BY <2>2, <2>a, <2>4, <2>5, <2>8, <2>9, LongestRun DEF InRun
  <2> QED BY <1>2, <2>10 DEF s
<1>4. ASSUME NEW i \in 1 .. m, i - 1 \in G
      PROVE  i \in G
  <2>1. i \in Nat /\ i + 1 <= Len(bits) /\ i - 1 + 1 = i /\ i \in 1 .. Len(bits) - 1
        /\ i - 1 \in 0 .. Len(bits) - 1
    BY <1>2
  <2>2. InRun(f[i - 1], bits, i - 1 + 1)
    BY <1>4
  <2>3. InRun(f[i - 1], bits, i)
    BY <2>1, <2>2
  <2>4. f[i] = Put(f[i - 1], bits[i + 1])
    BY <1>1, <2>1 DEF Puts
  <2>5. f[i - 1] \in PackState
    BY <1>1, <2>1
  <2>6. InRun(f[i], bits, i + 1)
    BY <2>1, <2>3, <2>4, <2>5, PutKeeps
  <2> QED BY <2>6
<1> HIDE DEF G
<1>5. 0 .. m \subseteq G
  BY <1>2, <1>3, <1>4, Steps
<1> DEFINE e == Packed(bits)
           p == Pack(bits)
<1>6. e \in PackState /\ InRun(e, bits, n)
  <2>1. m \in 0 .. m
    BY <1>2
  <2>2. InRun(f[m], bits, m + 1)
    BY <1>5, <2>1 DEF G
  <2> QED BY <1>1, <1>2, <2>1, <2>2
<1>7. p = Append(e.out, e.run)
  BY DEF Pack
<1> HIDE DEF e, p
<1>8. /\ e.out \in Seq(Nat) /\ e.current \in Bit /\ e.run \in Nat
      /\ Len(e.out) >= 1 /\ e.out[1] \in Bit /\ e.run >= 1
      /\ Len(e.out) + e.run <= n + 1
      /\ Taken(e.out).value = e.current
      /\ Taken(e.out).bits \o Run(e.current, e.run) = SubSeq(bits, 1, n)
  BY <1>6 DEF PackState, InRun
<1>9. SubSeq(bits, 1, n) = bits
  OBVIOUS
<1>10. Taken(p) = Take(Taken(e.out), e.run)
  BY <1>7, <1>8, TakenAppend
<1>11. Unpack(p) = bits
  <2>1. Take(Taken(e.out), e.run).bits = bits
    BY <1>8, <1>9 DEF Take
  <2> QED BY <1>10, <2>1 DEF Unpack
<1>12. Len(p) >= 2 /\ p[1] \in {0, 1} /\ Last(p) # 0
  BY <1>7, <1>8 DEF Last, Bit
<1>13. Len(p) <= 1 + n
  <2> DEFINE k == Len(e.out)
             r == e.run
  <2>1. Len(p) = k + 1 /\ k \in Nat
    BY <1>7, <1>8
  <2>2. k + r <= n + 1 /\ r >= 1 /\ r \in Nat /\ n \in Nat
    BY <1>2, <1>8
  <2> HIDE DEF k, r, n
  <2> QED BY <2>1, <2>2
<1> QED BY <1>11, <1>12, <1>13 DEF Valid, p, n

-----------------------------------------------------------------------------
(* A message that arrives says, of the rows it is about, what the server   *)
(* had when it was made.                                                   *)
LEMMA CellPosition ==
  ASSUME NEW first \in Nat, NEW count \in Nat \ {0}, NEW c,
         c \in CellsOf(first .. first + count - 1), NEW k, k = IndexOf(c, first)
  PROVE  /\ CellsIn(count) \in Nat \ {0} /\ k \in 0 .. CellsIn(count) - 1
         /\ CellAt(k, first) = c
<1> DEFINE x == c[1]
           y == c[2]
           row == y - first
           W == Width
<1>1. W \in Nat \ {0} /\ c = <<x, y>> /\ x \in 0 .. W - 1
      /\ y \in Int /\ first <= y /\ y <= first + count - 1
  BY Sizes DEF CellsOf, Column
<1>2. row \in Nat /\ row < count /\ first + row = y
  BY <1>1
<1>3. k = row * W + x
  BY DEF IndexOf
<1>4. CellAt(k, first) = <<k % W, first + (k \div W)>>
  BY DEF CellAt
<1>5. CellsIn(count) = W * count
  BY DEF CellsIn
<1> HIDE DEF x, y, row, W
<1>6. row * W = W * row /\ W * row \in Nat /\ W * count \in Nat \ {0}
  BY <1>1, <1>2
<1>7. k = W * row + x
  BY <1>3, <1>6
<1>8. k \div W = row /\ k % W = x /\ k \in Nat
  BY <1>1, <1>2, <1>7, OneQuotient
<1>9. W * row + x < W * count + 0
  BY <1>1, <1>2, Apart
<1>10. k \in 0 .. W * count - 1
  BY <1>6, <1>7, <1>8, <1>9
<1>11. CellAt(k, first) = c
  BY <1>1, <1>2, <1>4, <1>8
<1> QED BY <1>5, <1>6, <1>10, <1>11

LEMMA PlaneCounts ==
  ASSUME NEW planes \in PlaneLists
  PROVE  /\ Len(planes) \in {1, 2} /\ DOMAIN planes = 1 .. Len(planes)
         /\ \A i \in 1 .. Len(planes) : planes[i] \in Plane
         /\ Len(planes) = 2 => planes[1] = "visible" /\ planes[2] = "explored"
BY DEF PlaneLists, OnePlane, Both, Plane

LEMMA BitsType ==
  ASSUME NEW g, NEW planes \in PlaneLists, NEW first \in Nat,
         NEW count \in Nat \ {0},
         NEW s, s = Bits(g, planes, first, count)
  PROVE  s \in Seq(Bit) /\ Len(s) = CellsIn(count) * Len(planes) /\ Len(s) >= 1
<1> DEFINE n == CellsIn(count) * Len(planes)
           Of(i) == LET q == planes[(i - 1) \div CellsIn(count) + 1]
                    IN  IF CellAt((i - 1) % CellsIn(count), first) \in g[q] THEN 1 ELSE 0
<1>1. n \in Nat /\ n >= 1
  <2>1. CellsIn(count) \in Nat \ {0}
    BY Sizes DEF CellsIn
  <2>2. CASE Len(planes) = 1
    BY <2>1, <2>2
  <2>3. CASE Len(planes) = 2
    BY <2>1, <2>3
  <2> QED BY <2>2, <2>3, PlaneCounts
<1>2. s = [i \in 1 .. n |-> Of(i)]
  BY DEF Bits
<1>3. \A i \in 1 .. n : Of(i) \in Bit
  BY DEF Bit
<1> HIDE DEF n, Of
<1>4. s \in [1 .. n -> Bit]
  BY <1>2, <1>3
<1> QED BY <1>1, <1>4 DEF n

LEMMA BitOf ==
  ASSUME NEW g, NEW planes \in PlaneLists, NEW first \in Nat,
         NEW count \in Nat \ {0},
         NEW s, s = Bits(g, planes, first, count),
         NEW i \in {0, 1}, i < Len(planes),
         NEW c, c \in CellsOf(first .. first + count - 1)
  PROVE  s[CellsIn(count) * i + IndexOf(c, first) + 1] = 1 <=> c \in g[planes[i + 1]]
<1> DEFINE L == CellsIn(count)
           k == IndexOf(c, first)
           a == L * i + k
           n == a + 1
<1>1. L \in Nat \ {0} /\ k \in 0 .. L - 1 /\ CellAt(k, first) = c
  BY CellPosition
<1>2. Len(planes) \in {1, 2}
  BY PlaneCounts
<1>3. s = [j \in 1 .. L * Len(planes) |->
             IF CellAt((j - 1) % L, first) \in g[planes[(j - 1) \div L + 1]] THEN 1 ELSE 0]
  BY DEF Bits
<1> HIDE DEF L, k
<1>4. a \div L = i /\ a % L = k /\ a \in Nat
  BY <1>1, OneQuotient
<1>5. n \in 1 .. L * Len(planes)
  <2>1. a = L * i + k
    OBVIOUS
  <2> HIDE DEF a
  <2>2. CASE i = 0
    <3>1. L * 0 = 0
      BY <1>1
    <3>2. a = k
      BY <1>1, <2>1, <2>2, <3>1
    <3>3. CASE Len(planes) = 1
      BY <1>1, <3>2, <3>3
    <3>4. CASE Len(planes) = 2
      BY <1>1, <3>2, <3>4
    <3> QED BY <1>2, <3>3, <3>4
  <2>3. CASE i = 1
    <3>1. L * 1 = L
      BY <1>1
    <3>2. a = L + k
      BY <2>1, <2>3, <3>1, Zenon
    <3>3. Len(planes) = 2
      <4>1. SUFFICES ASSUME Len(planes) = 1 PROVE FALSE
        BY <1>2
      <4>2. i < 1
        BY <4>1
      <4> QED BY <2>3, <4>2
    <3> QED BY <1>1, <3>2, <3>3
  <2> QED BY <2>2, <2>3
<1>6. n - 1 = a
  BY <1>4
<1> HIDE DEF a, n
<1>7. s[n] = IF CellAt(a % L, first) \in g[planes[a \div L + 1]] THEN 1 ELSE 0
  BY <1>3, <1>5, <1>6
<1>8. s[n] = IF c \in g[planes[i + 1]] THEN 1 ELSE 0
  BY <1>1, <1>4, <1>7
<1> QED BY <1>8 DEF L, k, a, n

LEMMA Decodes ==
  ASSUME NEW g, NEW m, GoodMessage(m, g), NEW q \in Plane
  PROVE  /\ Accepted(m)
         /\ Holds(m, q) => Decoded(m, q) = g[q] \cap CellsOf(RowsIn(m))
<1> DEFINE planes == m.planes
           first == m.first
           count == m.count
           s == Bits(g, planes, first, count)
           L == CellsIn(count)
<1>1. /\ planes \in PlaneLists
      /\ first \in Nat
      /\ count \in Nat \ {0}
      /\ m.payload = Pack(s)
  BY DEF GoodMessage
<1>2. RowsIn(m) = first .. first + count - 1
  BY DEF RowsIn
<1>3. Decoded(m, q) =
        {c \in CellsOf(RowsIn(m)) :
           Unpack(m.payload)[(IF planes[1] = q THEN 0 ELSE L) + IndexOf(c, first) + 1] = 1}
  BY DEF Decoded
<1>4. Accepted(m) <=> Valid(m.payload, L * Len(planes))
  BY DEF Accepted
<1>5. Holds(m, q) <=> \E i \in DOMAIN planes : planes[i] = q
  BY DEF Holds
<1> HIDE DEF planes, first, count
<1>6. s \in Seq(Bit) /\ Len(s) = L * Len(planes) /\ Len(s) >= 1
  BY <1>1, BitsType
<1>7. /\ Len(planes) \in {1, 2} /\ DOMAIN planes = 1 .. Len(planes)
      /\ Len(planes) = 2 => planes[1] = "visible" /\ planes[2] = "explored"
  BY <1>1, PlaneCounts
<1>8. \A i \in {0, 1}, c \in CellsOf(first .. first + count - 1) :
        i < Len(planes) => (s[L * i + IndexOf(c, first) + 1] = 1 <=> c \in g[planes[i + 1]])
  BY <1>1, BitOf
<1>9. L \in Nat \ {0}
  BY <1>1, Sizes DEF CellsIn
<1> HIDE DEF s
<1>10. Unpack(m.payload) = s /\ Valid(m.payload, Len(s))
  BY <1>1, <1>6, UnpackPack
<1>11. ASSUME Holds(m, q)
       PROVE  Decoded(m, q) = g[q] \cap CellsOf(RowsIn(m))
  <2>1. CASE planes[1] = q
    <3>1. L * 0 = 0 /\ 0 < Len(planes) /\ planes[0 + 1] = q
      BY <1>7, <1>9, <2>1
    <3>2. \A c \in CellsOf(first .. first + count - 1) :
            s[0 + IndexOf(c, first) + 1] = 1 <=> c \in g[q]
      BY <1>8, <3>1
    <3>3. Decoded(m, q) = {c \in CellsOf(RowsIn(m)) : s[0 + IndexOf(c, first) + 1] = 1}
      BY <1>3, <1>10, <2>1
    <3> QED BY <1>2, <3>2, <3>3
  <2>2. CASE planes[1] # q
    <3>1. Len(planes) = 2 /\ planes[2] = q
      BY <1>5, <1>7, <1>11, <2>2
    <3>2. L * 1 = L /\ 1 < Len(planes) /\ planes[1 + 1] = q
      BY <1>9, <3>1
    <3>3. \A c \in CellsOf(first .. first + count - 1) :
            s[L + IndexOf(c, first) + 1] = 1 <=> c \in g[q]
      BY <1>8, <3>2
    <3>4. Decoded(m, q) = {c \in CellsOf(RowsIn(m)) : s[L + IndexOf(c, first) + 1] = 1}
      BY <1>3, <1>10, <2>2
    <3> QED BY <1>2, <3>3, <3>4
  <2> QED BY <2>1, <2>2
<1> QED BY <1>4, <1>6, <1>10, <1>11

-----------------------------------------------------------------------------
(* What one update of a player's planes does. *)
GridType == [visible : SUBSET Cell, explored : SUBSET Cell,
             had_visible : BOOLEAN, client_connected : BOOLEAN, dirty : Rows]
Kept(g) == IF g.had_visible \/ g.client_connected THEN {} ELSE g.visible
InputTypes == grid \in [Player -> GridType] /\ UnitTypes /\ modifiers \in Seq(Modifier)

LEMMA CellsRows ==
  /\ \A cells \in SUBSET Cell : RowsOf(cells) \in SUBSET Row
  /\ \A rows \in SUBSET Row : CellsOf(rows) \in SUBSET Cell
  /\ \A c \in Cell : c[2] \in Row
  /\ \A c \in Cell : \A cells : c \in cells => c[2] \in RowsOf(cells)
  /\ \A c \in Cell : \A rows : c \in CellsOf(rows) <=> c[2] \in rows
BY DEF RowsOf, CellsOf, Cell

PairOf(v, e) == [q \in Plane |-> IF q = "visible" THEN v ELSE e]

LEMMA PlanesRecords ==
  /\ \A v, e \in SUBSET Cell : PairOf(v, e) \in Planes
  /\ \A v, e \in SUBSET Row : PairOf(v, e) \in Rows
BY DEF Planes, Rows, Plane, PairOf

UpdatedAs(g, now, h, v, e) ==
  [g EXCEPT !.visible = now, !.explored = @ \cup now, !.had_visible = h,
            !.dirty.visible = @ \cup v, !.dirty.explored = @ \cup e]
IsUpdated(u, g, now, h, v, e) ==
  /\ u \in GridType /\ u.visible = now /\ u.explored = g.explored \cup now
  /\ u.had_visible = h /\ u.client_connected = g.client_connected
  /\ u.dirty["visible"] = g.dirty["visible"] \cup v
  /\ u.dirty["explored"] = g.dirty["explored"] \cup e

LEMMA UpdatedAsSaid ==
  ASSUME NEW g \in GridType, NEW now \in SUBSET Cell, NEW h \in BOOLEAN,
         NEW v \in SUBSET Row, NEW e \in SUBSET Row
  PROVE  IsUpdated(UpdatedAs(g, now, h, v, e), g, now, h, v, e)
BY DEF GridType, Rows, UpdatedAs, IsUpdated

Now(p, cells) == Kept(grid[p]) \cup Seen(p, cells)
MarkedVisible(p, cells) == RowsOf((grid[p].visible \cup Now(p, cells)) \ Kept(grid[p]))
MarkedExplored(p, cells) == RowsOf(Now(p, cells) \ grid[p].explored)

LEMMA UpdatedIs ==
  ASSUME InputTypes, NEW p \in Player, NEW cells \in SUBSET Cell
  PROVE  IsUpdated(Updated(p, cells), grid[p], Now(p, cells), HasVisible(p),
                   MarkedVisible(p, cells), MarkedExplored(p, cells))
<1> DEFINE g == grid[p]
           now == Now(p, cells)
           dv == MarkedVisible(p, cells)
           de == MarkedExplored(p, cells)
           h == HasVisible(p)
<1>1. g \in GridType /\ Seen(p, cells) \in SUBSET Cell
  <2>1. g \in GridType
    BY DEF InputTypes
  <2>2. Seen(p, cells) \in SUBSET Cell
    BY SeenCells DEF InputTypes
  <2> QED BY <2>1, <2>2
<1>2. now \in SUBSET Cell
  <2>1. Kept(g) \in SUBSET Cell
    BY <1>1 DEF Kept, GridType
  <2> QED BY <1>1, <2>1 DEF Now
<1>3. dv \in SUBSET Row /\ de \in SUBSET Row
  <2>1. /\ (g.visible \cup now) \ Kept(g) \in SUBSET Cell
        /\ now \ g.explored \in SUBSET Cell
    BY <1>1, <1>2 DEF GridType
  <2>2. /\ dv = RowsOf((g.visible \cup now) \ Kept(g))
        /\ de = RowsOf(now \ g.explored)
    BY DEF MarkedVisible, MarkedExplored
  <2> HIDE DEF now, g, dv, de
  <2> QED BY <2>1, <2>2, CellsRows
<1>4. Updated(p, cells) = UpdatedAs(g, now, h, dv, de)
  BY DEF Updated, UpdatedAs, Kept, Now, MarkedVisible, MarkedExplored
<1>5. h \in BOOLEAN
  BY DEF HasVisible
<1>6. /\ now = Now(p, cells)
      /\ g = grid[p]
      /\ dv = MarkedVisible(p, cells)
      /\ de = MarkedExplored(p, cells)
  OBVIOUS
<1>a. IsUpdated(UpdatedAs(g, now, h, dv, de), g, now, h, dv, de)
  <2> HIDE DEF g, now, dv, de, h
  <2> QED BY <1>1, <1>2, <1>3, <1>5, UpdatedAsSaid
<1> QED BY <1>4, <1>a

LEMMA UpdatedPlanes ==
  ASSUME InputTypes, NEW p \in Player, NEW cells \in SUBSET Cell
  PROVE  /\ Updated(p, cells) \in GridType
         /\ Updated(p, cells).visible = Kept(grid[p]) \cup Seen(p, cells)
         /\ Updated(p, cells).explored = grid[p].explored \cup Updated(p, cells).visible
         /\ Updated(p, cells).had_visible = HasVisible(p)
         /\ Updated(p, cells).client_connected = grid[p].client_connected
BY UpdatedIs DEF IsUpdated, Now

LEMMA UpdatedRows ==
  ASSUME InputTypes, NEW p \in Player, NEW cells \in SUBSET Cell
  PROVE  /\ Updated(p, cells).dirty["visible"] = grid[p].dirty["visible"]
              \cup RowsOf((grid[p].visible \cup Updated(p, cells).visible) \ Kept(grid[p]))
         /\ Updated(p, cells).dirty["explored"] = grid[p].dirty["explored"]
              \cup RowsOf(Updated(p, cells).visible \ grid[p].explored)
<1>1. Updated(p, cells).visible = Now(p, cells)
  BY UpdatedPlanes DEF Now
<1>2. /\ Updated(p, cells).dirty["visible"] = grid[p].dirty["visible"] \cup MarkedVisible(p, cells)
      /\ Updated(p, cells).dirty["explored"] = grid[p].dirty["explored"] \cup MarkedExplored(p, cells)
  BY UpdatedIs DEF IsUpdated
<1> QED BY <1>1, <1>2 DEF MarkedVisible, MarkedExplored

(* A row that an update does not mark is as it was. *)
LEMMA RowsUnchanged ==
  ASSUME InputTypes, NEW p \in Player, NEW cells \in SUBSET Cell,
         grid[p].client_connected, NEW q \in Plane,
         NEW u, u = Updated(p, cells),
         NEW c \in Cell, c[2] \notin u.dirty[q]
  PROVE  c[2] \notin grid[p].dirty[q] /\ (c \in u[q] <=> c \in grid[p][q])
<1> DEFINE g == grid[p]
<1>0. g = grid[p]
  OBVIOUS
<1> HIDE DEF g
<1>1. /\ u.visible = Kept(g) \cup Seen(p, cells)
      /\ u.explored = g.explored \cup u.visible
      /\ u.dirty["visible"] = g.dirty["visible"]
           \cup RowsOf((g.visible \cup u.visible) \ Kept(g))
      /\ u.dirty["explored"] = g.dirty["explored"] \cup RowsOf(u.visible \ g.explored)
  BY <1>0, UpdatedPlanes, UpdatedRows
<1>2. Kept(g) = {}
  BY <1>0 DEF Kept
<1>3. \A all : c \in all => c[2] \in RowsOf(all)
  BY CellsRows
<1>4. CASE q = "visible"
  <2>1. /\ c[2] \notin g.dirty["visible"]
        /\ c[2] \notin RowsOf((g.visible \cup u.visible) \ Kept(g))
    BY <1>1, <1>4
  <2>2. c \notin g.visible /\ c \notin u.visible
    BY <1>2, <1>3, <2>1
  <2>3. c \notin g["visible"] /\ c \notin u["visible"]
    BY <2>2
  <2> QED BY <1>4, <2>1, <2>3 DEF g
<1>5. CASE q = "explored"
  <2>1. /\ c[2] \notin g.dirty["explored"]
        /\ c[2] \notin RowsOf(u.visible \ g.explored)
    BY <1>1, <1>5
  <2>2. c \notin u.visible \ g.explored
    BY <1>3, <2>1
  <2>3. c \in u["explored"] <=> c \in g["explored"]
    BY <1>1, <2>2
  <2> QED BY <1>5, <2>1, <2>3 DEF g
<1> QED BY <1>4, <1>5 DEF Plane

LEMMA CleanedType ==
  ASSUME NEW u \in GridType
  PROVE  /\ Cleaned(u) \in GridType
         /\ Cleaned(u).visible = u.visible /\ Cleaned(u).explored = u.explored
         /\ Cleaned(u).had_visible = u.had_visible
         /\ Cleaned(u).client_connected = u.client_connected
         /\ \A q \in Plane : Cleaned(u)[q] = u[q]
<1>1. NoCells \in Rows
  BY DEF NoCells, Rows
<1>2. CASE u.client_connected
  <2>1. Cleaned(u) = [u EXCEPT !.dirty = NoCells]
    BY <1>2 DEF Cleaned
  <2> QED BY <1>1, <2>1 DEF GridType, Plane
<1>3. CASE ~u.client_connected
  BY <1>3 DEF Cleaned
<1> QED BY <1>2, <1>3

-----------------------------------------------------------------------------
(* What a client makes of the messages that arrive in a frame: their rows  *)
(* are as the server had them, the others as they were.                    *)
LEMMA Parsed ==
  ASSUME NEW copy \in Planes, NEW g, NEW messages,
         \A m \in messages : GoodMessage(m, g), NEW q \in Plane,
         NEW told, told = CellsOf(RowsOfPlane(q, messages))
  PROVE  ParseFogOfWar(copy, messages)[q] = (copy[q] \ told) \cup (g[q] \cap told)
<1> DEFINE about == {m \in messages : Holds(m, q)}
           read == {m \in messages : Accepted(m)}
<1>1. read = messages
  BY Decodes
<1>2. ASSUME NEW m \in messages
      PROVE  Cleared(m, q) = IF Holds(m, q) THEN CellsOf(RowsIn(m)) ELSE {}
  <2>1. m.full => m.planes = Both
    BY DEF GoodMessage
  <2>2. m.planes = Both => Holds(m, q)
    <3>1. /\ Both[1] = "visible"
          /\ Both[2] = "explored"
          /\ 1 \in DOMAIN Both
          /\ 2 \in DOMAIN Both
      BY DEF Both
    <3> QED BY <3>1 DEF Holds, Plane
  <2>3. m.full => Holds(m, q)
    BY <2>1, <2>2
  <2> QED BY <2>3 DEF Cleared
<1>3. told = UNION {CellsOf(RowsIn(m)) : m \in about}
  BY DEF RowsOfPlane, CellsOf
<1>4. UNION {Cleared(m, q) : m \in messages} = told
  BY <1>2, <1>3
<1>5. \A m \in about : Decoded(m, q) = g[q] \cap CellsOf(RowsIn(m))
  BY Decodes
<1>6. UNION {Decoded(m, q) : m \in about} = g[q] \cap told
  BY <1>3, <1>5
<1>7. ParseFogOfWar(copy, messages)[q] =
        (copy[q] \ UNION {Cleared(m, q) : m \in read})
          \cup UNION {Decoded(m, q) : m \in {n \in read : Holds(n, q)}}
  BY DEF ParseFogOfWar
<1> QED BY <1>1, <1>4, <1>6, <1>7

LEMMA ParsedType ==
  ASSUME NEW copy \in Planes, NEW g, g \in GridType, NEW messages,
         \A m \in messages : GoodMessage(m, g)
  PROVE  ParseFogOfWar(copy, messages) \in Planes
<1> DEFINE f == ParseFogOfWar(copy, messages)
<1>1. ASSUME NEW q \in Plane
      PROVE  f[q] \in SUBSET Cell
  <2>1. copy[q] \in SUBSET Cell
    BY DEF Planes, Plane
  <2>2. g[q] \in SUBSET Cell
    BY DEF GridType, Plane
  <2> QED BY <2>1, <2>2, Parsed
<1>2. f = [q \in Plane |-> f[q]]
  BY DEF ParseFogOfWar
<1> DEFINE v == f["visible"]
           e == f["explored"]
<1> HIDE DEF f
<1>3. v \in SUBSET Cell /\ e \in SUBSET Cell
  BY <1>1 DEF Plane
<1>4. f = PairOf(v, e)
  BY <1>2 DEF Plane, PairOf
<1> HIDE DEF v, e
<1>5. f \in Planes
  BY <1>3, <1>4, PlanesRecords
<1> QED BY <1>5 DEF f

(* The only player of whose rows client k can be sent any: its own if it   *)
(* is alone, otherwise the one with the number of its place (PF_Unicast).  *)
Sender(k) == IF Len(seat) = 1 THEN seat[1] ELSE k

(* The messages of a frame, to whom they go and what they are made of. *)
SentOK(sent, G) ==
  \A s \in sent : /\ s.to \in Clients /\ Sender(s.to) \in Player
                  /\ GoodMessage(s.message, G[Sender(s.to)])

LEMMA GoodMessageRows ==
  ASSUME NEW g, NEW m, GoodMessage(m, g)
  PROVE  RowsIn(m) \subseteq Row
BY Sizes DEF GoodMessage, RowsIn, Row

LEMMA RowsSplit ==
  ASSUME NEW sent, NEW lost, lost \subseteq sent, NEW k, NEW q,
         NEW all, all = RowsOfPlane(q, MessagesTo(k, sent)),
         NEW came, came = RowsOfPlane(q, MessagesTo(k, sent \ lost)),
         NEW left, left = RowsOfPlane(q, MessagesTo(k, lost))
  PROVE  all = came \cup left
BY DEF RowsOfPlane, MessagesTo

LEMMA MessagesGood ==
  ASSUME NEW G, NEW sent, SentOK(sent, G), NEW lost \in SUBSET sent, NEW k
  PROVE  /\ \A m \in MessagesTo(k, sent) : GoodMessage(m, G[Sender(k)])
         /\ \A m \in MessagesTo(k, sent \ lost) : GoodMessage(m, G[Sender(k)])
         /\ \A q : RowsOfPlane(q, MessagesTo(k, sent)) \subseteq Row
         /\ \A q : RowsOfPlane(q, MessagesTo(k, lost)) \subseteq Row
<1>1. \A m \in MessagesTo(k, sent) : GoodMessage(m, G[Sender(k)])
  BY DEF MessagesTo, SentOK
<1>2. MessagesTo(k, sent) = MessagesTo(k, sent \ lost) \cup MessagesTo(k, lost)
  BY DEF MessagesTo
<1>3. \A m \in MessagesTo(k, sent) : RowsIn(m) \subseteq Row
  BY <1>1, GoodMessageRows
<1>4. \A q : RowsOfPlane(q, MessagesTo(k, sent)) \subseteq Row
  BY <1>3 DEF RowsOfPlane
<1>5. \A q : RowsOfPlane(q, MessagesTo(k, lost)) \subseteq Row
  BY <1>2, <1>3 DEF RowsOfPlane
<1> QED BY <1>1, <1>2, <1>4, <1>5

LEMMA TransmitTypes ==
  ASSUME NEW G \in [Player -> GridType], NEW sent, SentOK(sent, G),
         NEW lost \in Losses(sent), Transmit(sent, lost),
         client \in [Seat -> Planes], missed \in [Seat -> Rows],
         losses \in 0 .. MaxLosses
  PROVE  /\ lost \in SUBSET sent
         /\ client' \in [Seat -> Planes] /\ missed' \in [Seat -> Rows]
         /\ losses' \in 0 .. MaxLosses
<1>1. PICK n \in 0 .. MaxLosses - losses : lost \in kSubset(n, sent)
  BY DEF Losses
<1>2. lost \in SUBSET sent /\ Cardinality(lost) = n
  BY <1>1 DEF kSubset
<1>3. losses' \in 0 .. MaxLosses
  <2>1. MaxLosses \in Nat
    BY FogAssumption
  <2> QED BY <1>2, <2>1 DEF Transmit
<1>4. client' \in [Seat -> Planes]
  <2>1. ASSUME NEW k \in Seat
        PROVE  ParseFogOfWar(client[k], MessagesTo(k, sent \ lost)) \in Planes
    <3>1. client[k] \in Planes
      OBVIOUS
    <3>2. \A m \in MessagesTo(k, sent \ lost) : GoodMessage(m, G[Sender(k)])
      BY <1>2, MessagesGood
    <3>3. CASE MessagesTo(k, sent \ lost) = {}
      <4>1. G[0] \in GridType
        BY FogAssumption
      <4> QED BY <3>1, <3>3, <4>1, ParsedType
    <3>4. CASE MessagesTo(k, sent \ lost) # {}
      <4>1. PICK s \in sent : s.to = k
        BY <3>4 DEF MessagesTo
      <4>2. Sender(k) \in Player
        BY <4>1 DEF SentOK
      <4>3. G[Sender(k)] \in GridType
        BY <4>2
      <4> QED BY <3>1, <3>2, <4>3, ParsedType
    <3> QED BY <3>3, <3>4
  <2> QED BY <2>1 DEF Transmit
<1>5. missed' \in [Seat -> Rows]
  <2> DEFINE new(k, q) == (missed[k][q] \ RowsOfPlane(q, MessagesTo(k, sent)))
                            \cup RowsOfPlane(q, MessagesTo(k, lost))
  <2>1. ASSUME NEW k \in Seat
        PROVE  [q \in Plane |-> new(k, q)] \in Rows
    <3>1. ASSUME NEW q \in Plane
          PROVE  new(k, q) \in SUBSET Row
      <4>1. missed[k][q] \in SUBSET Row
        BY DEF Rows, Plane
      <4>2. RowsOfPlane(q, MessagesTo(k, lost)) \in SUBSET Row
        BY <1>2, MessagesGood
      <4> QED BY <4>1, <4>2
    <3> DEFINE v == new(k, "visible")
               e == new(k, "explored")
    <3>2. v \in SUBSET Row /\ e \in SUBSET Row
      BY <3>1 DEF Plane
    <3>3. [q \in Plane |-> new(k, q)] = PairOf(v, e)
      BY DEF Plane, PairOf
    <3> HIDE DEF new, v, e
    <3> QED BY <3>2, <3>3, PlanesRecords
  <2> QED BY <2>1 DEF Transmit
<1> QED BY <1>2, <1>3, <1>4, <1>5

-----------------------------------------------------------------------------
(* The list of modifiers. *)
LEMMA FirstOf ==
  ASSUME NEW S, NEW s \in Seq(S), NEW m \in Nat, m <= Len(s),
         NEW t, t = SubSeq(s, 1, m)
  PROVE  /\ t \in Seq(S) /\ Len(t) = m /\ DOMAIN t = 1 .. m
         /\ \A i \in 1 .. m : t[i] = s[i]
<1>1. \A i \in 1 .. m : s[i] \in S
  OBVIOUS
<1>2. t = [i \in 1 .. m |-> s[i]]
  OBVIOUS
<1> QED BY <1>1, <1>2

LEMMA FirstAt ==
  ASSUME NEW S, NEW s \in Seq(S), NEW m \in Nat, m <= Len(s), NEW k \in 1 .. m
  PROVE  SubSeq(s, 1, m)[k] = s[k]
OBVIOUS

LEMMA TakenOut ==
  ASSUME NEW s \in Seq(Modifier), IsInjective(s), NEW i \in 1 .. Len(s),
         NEW t, t = Front([s EXCEPT ![i] = Last(s)])
  PROVE  /\ t \in Seq(Modifier) /\ Len(t) = Len(s) - 1 /\ IsInjective(t)
         /\ ToSet(t) = ToSet(s) \ {s[i]}
<1> DEFINE n == Len(s)
           r == [s EXCEPT ![i] = Last(s)]
           m == n - 1
<1>1. /\ n \in Nat \ {0} /\ m \in Nat /\ m = n - 1
      /\ DOMAIN s = 1 .. n /\ n \in 1 .. n
  OBVIOUS
<1>2. r \in Seq(Modifier) /\ Len(r) = n
      /\ \A k \in 1 .. n : r[k] = IF k = i THEN s[n] ELSE s[k]
  BY <1>1 DEF Last
<1>3. t = SubSeq(r, 1, m)
  BY <1>2 DEF Front
<1> HIDE DEF r, n, m
<1>4. /\ t \in Seq(Modifier) /\ Len(t) = m /\ DOMAIN t = 1 .. m
      /\ \A k \in 1 .. m : t[k] = r[k]
  <2>1. m <= Len(r)
    BY <1>1, <1>2
  <2>2. r \in Seq(Modifier) /\ m \in Nat
    BY <1>1, <1>2
  <2>3. t \in Seq(Modifier)
    BY <1>3, <2>1, <2>2, FirstOf
  <2>4. Len(t) = m /\ DOMAIN t = 1 .. m
    BY <1>3, <2>1, <2>2, FirstOf
  <2>5. ASSUME NEW k \in 1 .. m
        PROVE  t[k] = r[k]
    <3>1. SubSeq(r, 1, m)[k] = r[k]
      BY <2>1, <2>2, FirstAt
    <3> QED BY <1>3, <3>1
  <2> QED BY <2>3, <2>4, <2>5
<1>5. ASSUME NEW k \in 1 .. m
      PROVE  k \in 1 .. n /\ k # n /\ t[k] = IF k = i THEN s[n] ELSE s[k]
  <2>1. k \in 1 .. n /\ k # n
    BY <1>1
  <2> QED BY <1>2, <1>4, <2>1
<1>6. \A a, b \in 1 .. n : s[a] = s[b] => a = b
  BY <1>1 DEF IsInjective, n
<1>7. \A a \in 1 .. n : a = n \/ a \in 1 .. m
  BY <1>1
<1>8. IsInjective(t)
  <2>1. ASSUME NEW a \in 1 .. m, NEW b \in 1 .. m, t[a] = t[b]
        PROVE  a = b
    BY <1>1, <1>5, <1>6, <2>1
  <2> QED BY <1>4, <2>1 DEF IsInjective
<1>9. ToSet(t) = ToSet(s) \ {s[i]}
  <2>1. ASSUME NEW x \in ToSet(t)
        PROVE  x \in ToSet(s) /\ x # s[i]
    <3>1. PICK k \in 1 .. m : x = t[k]
      BY <1>4 DEF ToSet
    <3>2. CASE k = i
      BY <1>1, <1>5, <1>6, <3>1, <3>2 DEF ToSet, n
    <3>3. CASE k # i
      BY <1>1, <1>5, <1>6, <3>1, <3>3 DEF ToSet, n
    <3> QED BY <3>2, <3>3
  <2>2. ASSUME NEW x \in ToSet(s), x # s[i]
        PROVE  x \in ToSet(t)
    <3>1. PICK k \in 1 .. n : x = s[k] /\ k # i
      BY <1>1, <2>2 DEF ToSet
    <3>2. CASE k = n
      <4>1. i \in 1 .. m /\ t[i] = x
        BY <1>5, <1>7, <3>1, <3>2 DEF n
      <4> QED BY <1>4, <4>1 DEF ToSet
    <3>3. CASE k # n
      <4>1. k \in 1 .. m /\ t[k] = x
        BY <1>5, <1>7, <3>1, <3>3
      <4> QED BY <1>4, <4>1 DEF ToSet
    <3> QED BY <3>2, <3>3
  <2> QED BY <2>1, <2>2
<1> QED BY <1>4, <1>8, <1>9 DEF n, m

LEMMA PutIn ==
  ASSUME NEW s \in Seq(Modifier), IsInjective(s), NEW m \in Modifier,
         ~Contains(s, m),
         NEW t, t = Append(s, m)
  PROVE  /\ t \in Seq(Modifier) /\ Len(t) = Len(s) + 1 /\ IsInjective(t)
         /\ ToSet(t) = ToSet(s) \cup {m}
<1> DEFINE n == Len(s)
<1>1. /\ n \in Nat /\ DOMAIN s = 1 .. n /\ DOMAIN t = 1 .. n + 1 /\ n + 1 \in DOMAIN t
      /\ t \in Seq(Modifier) /\ Len(t) = n + 1
      /\ t[n + 1] = m /\ \A k \in 1 .. n : t[k] = s[k] /\ s[k] # m /\ k \in DOMAIN t
  BY DEF Contains
<1>2. \A a, b \in 1 .. n : s[a] = s[b] => a = b
  BY <1>1 DEF IsInjective
<1>3. \A a \in 1 .. n + 1 : a = n + 1 \/ a \in 1 .. n
  BY <1>1
<1> HIDE DEF n
<1>4. IsInjective(t)
  BY <1>1, <1>2, <1>3 DEF IsInjective
<1>5. ToSet(t) = ToSet(s) \cup {m}
  BY <1>1, <1>3 DEF ToSet
<1> QED BY <1>1, <1>4, <1>5 DEF n

LEMMA ListedAreModifiers ==
  ASSUME NEW s \in Seq(Modifier)
  PROVE  ToSet(s) \subseteq Modifier
BY DEF ToSet

ListOK(s) == s \in Seq(Modifier) /\ Len(s) <= MaxModifiers /\ IsInjective(s)

LEMMA ListStarts ==
  ASSUME NEW m \in Modifier, ListOK(modifiers), FogModifierStart(m)
  PROVE  ListOK(modifiers')
<1>1. MaxModifiers \in Nat /\ modifiers \in Seq(Modifier)
  BY FogAssumption DEF ListOK
<1>2. CASE Contains(modifiers, m) \/ Len(modifiers) >= MaxModifiers
  BY <1>2 DEF FogModifierStart
<1>3. CASE ~Contains(modifiers, m) /\ ~(Len(modifiers) >= MaxModifiers)
  <2>1. modifiers' = Append(modifiers, m)
    BY <1>3 DEF FogModifierStart
  <2>2. /\ modifiers' \in Seq(Modifier) /\ Len(modifiers') = Len(modifiers) + 1
        /\ IsInjective(modifiers')
    BY <1>3, <2>1, PutIn DEF ListOK
  <2>3. Len(modifiers) + 1 <= MaxModifiers
    BY <1>1, <1>3
  <2> QED BY <2>2, <2>3 DEF ListOK
<1> QED BY <1>2, <1>3

LEMMA StopsAt ==
  ASSUME NEW m, ListOK(modifiers), FogModifierStop(m)
  PROVE  \/ modifiers' = modifiers /\ m \notin ToSet(modifiers)
         \/ \E i \in 1 .. Len(modifiers) : modifiers[i] = m /\ modifiers' = Without(i)
<1> DEFINE at == {i \in DOMAIN modifiers : modifiers[i] = m}
<1>1. modifiers' = IF at = {} THEN modifiers ELSE Without(Min(at))
  BY DEF FogModifierStop
<1>2. DOMAIN modifiers = 1 .. Len(modifiers)
  BY DEF ListOK
<1>3. CASE at = {}
  BY <1>1, <1>3 DEF ToSet
<1>4. CASE at # {}
  <2>1. at \in SUBSET Nat
    BY <1>2
  <2>2. modifiers' = Without(Min(at))
    BY <1>1, <1>4
  <2>3. \A i \in at : i \in 1 .. Len(modifiers) /\ modifiers[i] = m
    BY <1>2
  <2> HIDE DEF at
  <2>4. \E x \in at : \A y \in at : x <= y
    BY <1>4, <2>1, HasLeast
  <2>5. Min(at) \in at
    BY <2>4 DEF Min
  <2> QED BY <2>2, <2>3, <2>5
<1> QED BY <1>3, <1>4

LEMMA ListStops ==
  ASSUME NEW m, ListOK(modifiers), FogModifierStop(m)
  PROVE  ListOK(modifiers') /\ ToSet(modifiers') = ToSet(modifiers) \ {m}
<1>1. CASE modifiers' = modifiers /\ m \notin ToSet(modifiers)
  BY <1>1
<1>2. ASSUME NEW i \in 1 .. Len(modifiers), modifiers[i] = m,
             modifiers' = Without(i)
      PROVE  ListOK(modifiers') /\ ToSet(modifiers') = ToSet(modifiers) \ {m}
  <2>1. modifiers' = Front([modifiers EXCEPT ![i] = Last(modifiers)])
    BY <1>2 DEF Without
  <2>2. /\ modifiers' \in Seq(Modifier) /\ Len(modifiers') = Len(modifiers) - 1
        /\ IsInjective(modifiers') /\ ToSet(modifiers') = ToSet(modifiers) \ {m}
    BY <1>2, <2>1, TakenOut DEF ListOK
  <2>3. /\ MaxModifiers \in Nat
        /\ Len(modifiers) \in Nat
        /\ Len(modifiers) <= MaxModifiers
    BY FogAssumption DEF ListOK
  <2> QED BY <2>2, <2>3 DEF ListOK
<1> QED BY <1>1, <1>2, StopsAt

-----------------------------------------------------------------------------
(* The invariant: types; the blocked cells are those of the trees they     *)
(* were made from; of whom nothing was visible nothing is left; and the    *)
(* players taken for connected are those of the clients that have begun.   *)
BlockersOK ==
  \/ hashed = {"none"}
  \/ hashed \subseteq Tree /\ blocked = BlockedCells(hashed)
NothingKept == \A p \in Player : ~grid[p].had_visible => grid[p].visible = {}
Connected ==
  \A p \in Player :
    grid[p].client_connected <=> \E k \in begun : seat[k] = p
FogInv == FogTypeOK /\ BlockersOK /\ NothingKept /\ Connected

WorldTypes ==
  /\ UnitTypes /\ standing \subseteq Tree
  /\ allied \subseteq {{p, q} : p, q \in Player}
  /\ started \subseteq Modifier /\ ListOK(modifiers)
FowTypes == blocked \subseteq Cell /\ grid \in [Player -> GridType]
SeatTypes ==
  seat \in Seq(Player) /\ Len(seat) <= MaxClients /\ begun \subseteq Clients
CopyTypes ==
  /\ client \in [Seat -> Planes] /\ missed \in [Seat -> Rows]
  /\ losses \in 0 .. MaxLosses
BoundTypes == changes \in 0 .. MaxChanges /\ stale \in BOOLEAN

LEMMA TypesApart ==
  FogTypeOK <=> WorldTypes /\ FowTypes /\ SeatTypes /\ CopyTypes /\ BoundTypes
BY DEF FogTypeOK, WorldTypes, UnitTypes, ListOK, FowTypes, GridType,
   SeatTypes, CopyTypes, BoundTypes

LEMMA TypesApartNext ==
  FogTypeOK' <=> WorldTypes' /\ FowTypes' /\ SeatTypes' /\ CopyTypes' /\ BoundTypes'
BY DEF FogTypeOK, WorldTypes, UnitTypes, ListOK, FowTypes, GridType,
   SeatTypes, CopyTypes, BoundTypes

LEMMA BlockedAreCells == \A trees \in SUBSET Tree : BlockedCells(trees) \in SUBSET Cell
BY FogAssumption DEF BlockedCells

LEMMA BlockersCurrent ==
  ASSUME FogInv
  PROVE  Blockers = BlockedCells(standing) /\ Blockers \in SUBSET Cell
<1>1. standing \subseteq Tree /\ "none" \notin Tree
  BY FogAssumption DEF FogInv, FogTypeOK
<1>2. hashed = standing => blocked = BlockedCells(standing)
  BY <1>1 DEF FogInv, BlockersOK
<1> QED BY <1>1, <1>2, BlockedAreCells DEF Blockers

LEMMA InitHolds == ASSUME FogInit PROVE FogInv
<1>1. WorldTypes
  <2>1. UnitTypes
    BY FogAssumption DEF FogInit, UnitTypes
  <2>2. ListOK(<<>>)
    BY FogAssumption DEF ListOK, IsInjective
  <2> QED BY <2>1, <2>2 DEF FogInit, WorldTypes
<1>2. FowTypes
  <2>1. [visible |-> Row, explored |-> Row] \in Rows
    BY DEF Rows
  <2>2. [visible |-> {}, explored |-> {}, had_visible |-> FALSE, client_connected |-> FALSE,
         dirty |-> [visible |-> Row, explored |-> Row]] \in GridType
    BY <2>1 DEF GridType
  <2> QED BY <2>2 DEF FogInit, FowTypes
<1>3. CopyTypes
  <2>1. NoCells \in Planes /\ NoCells \in Rows
    BY DEF NoCells, Planes, Rows
  <2> QED BY <2>1, FogAssumption DEF FogInit, CopyTypes
<1>4. BoundTypes
  BY FogAssumption DEF FogInit, BoundTypes
<1>5. BlockersOK /\ NothingKept /\ Connected
  BY DEF FogInit, BlockersOK, NothingKept, Connected
<1>6. SeatTypes
  BY FogAssumption DEF FogInit, SeatTypes
<1> QED BY <1>1, <1>2, <1>3, <1>4, <1>5, <1>6, TypesApart DEF FogInv

(* What changes the world: as an action, without the scripts' modifiers. *)
LEMMA WorldStep ==
  ASSUME FogInv, WorldChanged, WorldTypes'
  PROVE  FogInv'
<1>1. WorldTypes /\ FowTypes /\ SeatTypes /\ CopyTypes /\ BoundTypes
  BY TypesApart DEF FogInv
<1>2. UNCHANGED <<hashed, blocked, grid, seat, begun, client, missed, losses>>
  BY DEF WorldChanged, fow, seats, copies
<1>3. FowTypes' /\ SeatTypes' /\ CopyTypes'
  BY <1>1, <1>2 DEF FowTypes, SeatTypes, Clients, CopyTypes
<1>4. BoundTypes'
  BY <1>1, FogAssumption DEF BoundTypes, WorldChanged
<1>5. BlockersOK' /\ NothingKept' /\ Connected'
  BY <1>2 DEF FogInv, BlockersOK, NothingKept, Connected, BlockedCells
<1> QED BY <1>3, <1>4, <1>5, TypesApartNext DEF FogInv

LEMMA MoveUnitKeeps ==
  ASSUME FogInv, NEW u \in Unit, NEW c \in Place, MoveUnit(u, c)
  PROVE  FogInv'
<1>1. WorldTypes /\ WorldChanged /\ unit' = [unit EXCEPT ![u].cell = c]
      /\ UNCHANGED <<standing, allied, started, modifiers>>
  BY TypesApart DEF FogInv, MoveUnit
<1>2. UnitTypes'
  BY <1>1 DEF WorldTypes, UnitTypes
<1>3. WorldTypes'
  BY <1>1, <1>2 DEF WorldTypes
<1> QED BY <1>1, <1>3, WorldStep

LEMMA SetUnitOwnerKeeps ==
  ASSUME FogInv, NEW u \in Unit, NEW p \in Player, SetUnitOwner(u, p)
  PROVE  FogInv'
<1>1. WorldTypes /\ WorldChanged /\ unit' = [unit EXCEPT ![u].owner = p]
      /\ UNCHANGED <<standing, allied, started, modifiers>>
  BY TypesApart DEF FogInv, SetUnitOwner
<1>2. UnitTypes'
  BY <1>1 DEF WorldTypes, UnitTypes
<1>3. WorldTypes'
  BY <1>1, <1>2 DEF WorldTypes
<1> QED BY <1>1, <1>3, WorldStep

LEMMA ConcealKeeps ==
  ASSUME FogInv, NEW u \in Unit, Conceal(u)
  PROVE  FogInv'
<1>1. WorldTypes /\ WorldChanged /\ unit' = [unit EXCEPT ![u].reveals = ~@]
      /\ UNCHANGED <<standing, allied, started, modifiers>>
  BY TypesApart DEF FogInv, Conceal
<1> DEFINE v == ~unit[u].reveals
<1>a. v \in BOOLEAN /\ unit' = [unit EXCEPT ![u].reveals = v]
  BY <1>1
<1> HIDE DEF v
<1>2. UnitTypes'
  BY <1>1, <1>a DEF WorldTypes, UnitTypes
<1>3. WorldTypes'
  BY <1>1, <1>2 DEF WorldTypes
<1> QED BY <1>1, <1>3, WorldStep

LEMMA FellTreeKeeps ==
  ASSUME FogInv, NEW t \in Tree, FellTree(t)
  PROVE  FogInv'
<1>1. WorldTypes /\ WorldChanged /\ UNCHANGED <<unit, allied, started, modifiers>>
      /\ standing' = IF t \in standing THEN standing \ {t} ELSE standing \cup {t}
  BY TypesApart DEF FogInv, FellTree
<1>2. WorldTypes'
  BY <1>1 DEF WorldTypes, UnitTypes
<1> QED BY <1>1, <1>2, WorldStep

LEMMA SetPlayerAllianceKeeps ==
  ASSUME FogInv, NEW p \in Player, NEW q \in Player, NEW v \in BOOLEAN,
         SetPlayerAlliance(p, q, v)
  PROVE  FogInv'
<1>1. WorldTypes /\ WorldChanged /\ UNCHANGED <<unit, standing, started, modifiers>>
      /\ allied' = IF v THEN allied \cup {{p, q}} ELSE allied \ {{p, q}}
  BY TypesApart DEF FogInv, SetPlayerAlliance
<1>2. WorldTypes'
  <2>1. {p, q} \in {{a, b} : a, b \in Player}
    OBVIOUS
  <2>2. allied' \subseteq allied \cup {{p, q}}
    BY <1>1
  <2>3. allied' \subseteq {{a, b} : a, b \in Player}
    BY <1>1, <2>1, <2>2 DEF WorldTypes
  <2> QED BY <1>1, <2>3 DEF WorldTypes, UnitTypes
<1> QED BY <1>1, <1>2, WorldStep

LEMMA ModifierStartKeeps ==
  ASSUME FogInv, NEW m \in Modifier, FogModifierStart(m)
  PROVE  FogInv'
<1>1. WorldTypes /\ WorldChanged /\ UNCHANGED <<unit, standing, allied>>
      /\ started' = started \cup {m}
  BY TypesApart DEF FogInv, FogModifierStart
<1>2. ListOK(modifiers')
  BY <1>1, ListStarts DEF WorldTypes
<1>3. WorldTypes'
  BY <1>1, <1>2 DEF WorldTypes, UnitTypes
<1> QED BY <1>1, <1>3, WorldStep

LEMMA ModifierStopKeeps ==
  ASSUME FogInv, NEW m \in Modifier, FogModifierStop(m)
  PROVE  FogInv'
<1>1. WorldTypes /\ WorldChanged /\ UNCHANGED <<unit, standing, allied>>
      /\ started' = started \ {m}
  BY TypesApart DEF FogInv, FogModifierStop
<1>2. ListOK(modifiers')
  BY <1>1, ListStops DEF WorldTypes
<1>3. WorldTypes'
  BY <1>1, <1>2 DEF WorldTypes, UnitTypes
<1> QED BY <1>1, <1>3, WorldStep

-----------------------------------------------------------------------------
(* What a frame and a client's begin have in common: all players' planes   *)
(* updated, and messages made of them.                                     *)
Fresh == [p \in Player |-> Updated(p, Blockers)]
FrameSent ==
  UNION {To(p, DirtyMessages(Fresh[p])) : p \in {q \in Player : Fresh[q].client_connected}}
BeginSent(k) == To(seat[k], FullMessages(Fresh[seat[k]]))

LEMMA FreshFields ==
  ASSUME FogInv, NEW p \in Player, NEW u, u = Fresh[p]
  PROVE  /\ Fresh \in [Player -> GridType] /\ u \in GridType
         /\ u = Updated(p, Blockers)
         /\ u.visible = Kept(grid[p]) \cup Seen(p, Blockers)
         /\ u.explored = grid[p].explored \cup u.visible
         /\ u.had_visible = HasVisible(p)
         /\ u.client_connected = grid[p].client_connected
<1>1. InputTypes /\ Blockers \in SUBSET Cell
  BY TypesApart, BlockersCurrent DEF FogInv, InputTypes, WorldTypes, FowTypes,
     ListOK
<1>2. \A q \in Player : Fresh[q] = Updated(q, Blockers)
  BY DEF Fresh
<1>3. \A q \in Player : Updated(q, Blockers) \in GridType
  BY <1>1, UpdatedPlanes
<1>4. Fresh \in [Player -> GridType]
  BY <1>3 DEF Fresh
<1>5. u = Updated(p, Blockers)
  BY <1>2
<1>6. \A q \in Player :
        /\ Updated(q, Blockers).visible = Kept(grid[q]) \cup Seen(q, Blockers)
        /\ Updated(q, Blockers).explored = grid[q].explored \cup Updated(q, Blockers).visible
        /\ Updated(q, Blockers).had_visible = HasVisible(q)
        /\ Updated(q, Blockers).client_connected = grid[q].client_connected
  BY <1>1, UpdatedPlanes
<1>7. u \in GridType
  BY <1>3, <1>5
<1> HIDE DEF Fresh
<1> QED BY <1>4, <1>5, <1>6, <1>7

LEMMA DirtyAreRows ==
  ASSUME FogInv, NEW p \in Player, NEW q \in Plane
  PROVE  Fresh[p].dirty[q] \in SUBSET Row
<1>1. Fresh[p] \in GridType
  BY FreshFields
<1>2. Fresh[p].dirty \in Rows
  BY <1>1 DEF GridType
<1> HIDE DEF Fresh
<1> QED BY <1>2 DEF Rows, Plane

(* To whom a player's rows go, and from whom a client's come. *)
LEMMA ReceivedFrom ==
  ASSUME FogInv, NEW p \in Player, NEW k \in Receiver(p),
         Len(seat) = 1 => p = seat[1]
  PROVE  k \in Clients /\ Sender(k) = p
<1>1. Len(seat) \in Nat
  BY TypesApart DEF FogInv, SeatTypes
<1>2. CASE p \in Clients
  <2>1. k = p
    BY <1>2 DEF Receiver
  <2> QED BY <1>1, <1>2, <2>1 DEF Clients, Sender
<1>3. CASE p \notin Clients
  <2>1. Clients = {1} /\ k = 1
    BY <1>3 DEF Receiver
  <2>2. Len(seat) = 1
    <3>1. Len(seat) >= 1 => Len(seat) \in Clients
      BY <1>1 DEF Clients
    <3>2. 1 \in 1 .. Len(seat)
      BY <2>1 DEF Clients
    <3> QED BY <1>1, <2>1, <3>1, <3>2
  <2> QED BY <2>1, <2>2 DEF Sender
<1> QED BY <1>2, <1>3

LEMMA ServedBy ==
  ASSUME FogInv, NEW k \in Clients, Served(k)
  PROVE  /\ k \in Seat /\ seat[k] \in Player
         /\ Sender(k) = seat[k] /\ k \in Receiver(seat[k])
<1>1. Len(seat) \in Nat /\ seat[k] \in Player /\ k \in 1 .. Len(seat) /\ k \in Seat
  BY TypesApart, FogAssumption DEF FogInv, SeatTypes, Clients, Seat
<1>2. k \in Receiver(seat[k])
  BY DEF Served
<1>3. Len(seat) = 1 => seat[k] = seat[1]
  BY <1>1
<1>4. Sender(k) = seat[k]
  BY <1>1, <1>2, <1>3, ReceivedFrom
<1> QED BY <1>1, <1>2, <1>4

LEMMA FrameSentOK == ASSUME FogInv PROVE SentOK(FrameSent, Fresh)
<1>1. ASSUME NEW s \in FrameSent
      PROVE  /\ s.to \in Clients /\ Sender(s.to) \in Player
             /\ GoodMessage(s.message, Fresh[Sender(s.to)])
  <2>1. PICK p \in Player : /\ Fresh[p].client_connected
                            /\ s \in To(p, DirtyMessages(Fresh[p]))
    BY DEF FrameSent
  <2>2. PICK k \in Receiver(p), m \in DirtyMessages(Fresh[p]) :
          s = [to |-> k, message |-> m]
    BY <2>1 DEF To
  <2>3. PICK q \in Plane : m \in PlaneMessages(Fresh[p], q)
    BY DEF DirtyMessages
  <2>4. Fresh[p].dirty[q] \in SUBSET Row
    BY DirtyAreRows
  <2>5. GoodMessage(m, Fresh[p])
    BY <2>3, <2>4, PlaneMessagesGood
  <2>6. Len(seat) = 1 => p = seat[1]
    <3>1. grid[p].client_connected
      BY <2>1, FreshFields
    <3>2. PICK j \in begun : seat[j] = p
      BY <3>1 DEF FogInv, Connected
    <3>3. j \in 1 .. Len(seat)
      BY TypesApart DEF FogInv, SeatTypes, Clients
    <3> QED BY <3>2, <3>3
  <2>7. k \in Clients /\ Sender(k) = p
    BY <2>6, ReceivedFrom
  <2>8. s.to = k /\ s.message = m
    BY <2>2
  <2> QED BY <2>5, <2>7, <2>8
<1> QED BY <1>1 DEF SentOK

LEMMA BeginSentOK ==
  ASSUME FogInv, NEW k \in Clients
  PROVE  SentOK(BeginSent(k), Fresh)
<1>1. ASSUME NEW s \in BeginSent(k)
      PROVE  /\ s.to \in Clients /\ Sender(s.to) \in Player
             /\ GoodMessage(s.message, Fresh[Sender(s.to)])
  <2> DEFINE p == seat[k]
  <2>1. PICK j \in Receiver(p), m \in FullMessages(Fresh[p]) :
          s = [to |-> j, message |-> m]
    BY DEF BeginSent, To
  <2>2. GoodMessage(m, Fresh[p])
    BY <2>1, FullMessagesGood
  <2>3. p \in Player /\ (Len(seat) = 1 => p = seat[1])
    BY TypesApart DEF FogInv, SeatTypes, Clients
  <2>4. j \in Clients /\ Sender(j) = p
    BY <2>3, ReceivedFrom
  <2>5. s.to = j /\ s.message = m
    BY <2>1
  <2> QED BY <2>2, <2>3, <2>4, <2>5
<1> QED BY <1>1 DEF SentOK

(* Every dirty row of a client that is served is sent in a frame, and      *)
(* every row of both planes when it begins.                                *)
LEMMA FrameCovers ==
  ASSUME FogInv, NEW k \in Clients, Served(k), NEW q \in Plane,
         Fresh[seat[k]].client_connected
  PROVE  Fresh[seat[k]].dirty[q] \subseteq RowsOfPlane(q, MessagesTo(k, FrameSent))
<1> DEFINE p == seat[k]
<1>a. p \in Player /\ k \in Receiver(p) /\ Fresh[p].client_connected
  BY ServedBy
<1>b. Fresh[p].dirty[q] \in SUBSET Row
  BY <1>a, DirtyAreRows
<1> HIDE DEF p
<1>1. ASSUME NEW y \in Fresh[p].dirty[q]
      PROVE  y \in RowsOfPlane(q, MessagesTo(k, FrameSent))
  <2>1. PICK m \in PlaneMessages(Fresh[p], q) : y \in RowsIn(m)
    BY <1>b, DirtyRowsSent
  <2>2. m.planes = OnePlane(q)
    BY <1>b, PlaneMessagesGood
  <2>3. Holds(m, q)
    BY <2>2 DEF Holds, OnePlane
  <2>4. m \in DirtyMessages(Fresh[p])
    BY DEF DirtyMessages
  <2>5. [to |-> k, message |-> m] \in To(p, DirtyMessages(Fresh[p]))
    BY <1>a, <2>4 DEF To
  <2>6. [to |-> k, message |-> m] \in FrameSent
    BY <1>a, <2>5 DEF FrameSent
  <2>7. m \in MessagesTo(k, FrameSent)
    BY <2>6 DEF MessagesTo
  <2> QED BY <2>1, <2>3, <2>7 DEF RowsOfPlane
<1> QED BY <1>1 DEF p

LEMMA BeginCovers ==
  ASSUME FogInv, NEW k \in Clients, Served(k), NEW q \in Plane
  PROVE  Row \subseteq RowsOfPlane(q, MessagesTo(k, BeginSent(k)))
<1> DEFINE p == seat[k]
<1>1. ASSUME NEW y \in Row
      PROVE  y \in RowsOfPlane(q, MessagesTo(k, BeginSent(k)))
  <2>1. PICK m \in FullMessages(Fresh[p]) : y \in RowsIn(m)
    BY EveryRowSent
  <2>2. m.planes = Both
    BY FullMessagesGood
  <2>3. Holds(m, q)
    BY <2>2 DEF Holds, Both, Plane
  <2>4. k \in Receiver(p)
    BY ServedBy
  <2>5. [to |-> k, message |-> m] \in BeginSent(k)
    BY <2>4 DEF BeginSent, To
  <2>6. m \in MessagesTo(k, BeginSent(k))
    BY <2>5 DEF MessagesTo
  <2> QED BY <2>1, <2>3, <2>6 DEF RowsOfPlane
<1> QED BY <1>1

LEMMA ClientGets ==
  ASSUME FogInv, NEW sent, SentOK(sent, Fresh), NEW lost \in Losses(sent),
         Transmit(sent, lost), NEW k \in Clients, Served(k), NEW q \in Plane,
         NEW told, told = CellsOf(RowsOfPlane(q, MessagesTo(k, sent \ lost)))
  PROVE  client'[k][q] = (client[k][q] \ told) \cup (Fresh[seat[k]][q] \cap told)
<1>0. k \in Seat /\ Sender(k) = seat[k]
  BY ServedBy
<1>1. client[k] \in Planes
  BY <1>0, TypesApart DEF FogInv, CopyTypes
<1>2. lost \in SUBSET sent
  BY DEF Losses, kSubset
<1>3. \A m \in MessagesTo(k, sent \ lost) : GoodMessage(m, Fresh[Sender(k)])
  BY <1>2, MessagesGood
<1>4. client'[k] = ParseFogOfWar(client[k], MessagesTo(k, sent \ lost))
  BY <1>0 DEF Transmit
<1> DEFINE copy == client[k]
           messages == MessagesTo(k, sent \ lost)
           g == Fresh[seat[k]]
<1>5. /\ copy \in Planes /\ \A m \in messages : GoodMessage(m, g)
      /\ told = CellsOf(RowsOfPlane(q, messages))
      /\ client'[k] = ParseFogOfWar(copy, messages)
  BY <1>0, <1>1, <1>3, <1>4
<1>6. copy = client[k] /\ g = Fresh[seat[k]]
  OBVIOUS
<1> HIDE DEF copy, messages, g
<1>7. ParseFogOfWar(copy, messages)[q] = (copy[q] \ told) \cup (g[q] \cap told)
  BY ONLY <1>5, q \in Plane, Parsed
<1> QED BY <1>5, <1>6, <1>7

LEMMA TransmitKeeps ==
  ASSUME FogInv, NEW sent, SentOK(sent, Fresh), NEW lost \in Losses(sent),
         Transmit(sent, lost), hashed' = standing, blocked' = Blockers,
         stale' = FALSE, UNCHANGED <<world, changes>>,
         SeatTypes', Connected', grid' \in [Player -> GridType],
         \A p \in Player : /\ grid'[p].had_visible = Fresh[p].had_visible
                           /\ grid'[p].visible = Fresh[p].visible
  PROVE  FogInv'
<1>1. WorldTypes /\ FowTypes /\ SeatTypes /\ CopyTypes /\ BoundTypes
  BY TypesApart DEF FogInv
<1>2. /\ UNCHANGED <<unit, standing, allied, started, modifiers, changes>>
      /\ Blockers = BlockedCells(standing) /\ Blockers \in SUBSET Cell
  BY BlockersCurrent DEF world
<1>3. WorldTypes' /\ BoundTypes'
  <2>1. ListOK(modifiers') /\ UnitTypes'
    BY <1>1, <1>2 DEF WorldTypes, UnitTypes
  <2>2. WorldTypes'
    BY <1>1, <1>2, <2>1 DEF WorldTypes
  <2>3. stale' \in BOOLEAN
    OBVIOUS
  <2>4. BoundTypes'
    BY <1>1, <1>2, <2>3 DEF BoundTypes
  <2> QED BY <2>2, <2>4
<1>4. FowTypes'
  <2>1. blocked' \subseteq Cell
    BY <1>2
  <2>2. grid' \in [Player -> GridType]
    OBVIOUS
  <2> QED BY <2>1, <2>2 DEF FowTypes
<1>5. CopyTypes'
  <2>1. \A p \in Player : Fresh[p] \in GridType
    BY FreshFields
  <2>2. Fresh \in [Player -> GridType]
    BY <2>1 DEF Fresh
  <2> QED BY <1>1, <2>2, TransmitTypes DEF CopyTypes
<1>6. BlockersOK'
  BY <1>1, <1>2 DEF BlockersOK, WorldTypes, BlockedCells
<1>7. NothingKept'
  <2>1. ASSUME NEW p \in Player, ~grid'[p].had_visible
        PROVE  grid'[p].visible = {}
    <3> DEFINE g == grid[p]
               u == Fresh[p]
    <3>1. /\ u.visible = Kept(g) \cup Seen(p, Blockers)
          /\ u.had_visible = HasVisible(p)
      BY FreshFields
    <3>2. ~HasVisible(p)
      BY <2>1, <3>1
    <3>3. Seen(p, Blockers) = {}
      BY <1>1, <1>2, <3>2, NothingSeen DEF WorldTypes
    <3>4. Kept(g) = {}
      BY DEF Kept, FogInv, NothingKept
    <3> QED BY <3>1, <3>3, <3>4
  <2> QED BY <2>1 DEF NothingKept
<1> QED BY <1>3, <1>4, <1>5, <1>6, <1>7, TypesApartNext DEF FogInv

LEMMA RunFrameIs ==
  ASSUME FogInv, RunFrame
  PROVE  /\ hashed' = standing /\ blocked' = Blockers /\ stale' = FALSE
         /\ UNCHANGED <<world, changes>>
         /\ grid' \in [Player -> GridType]
         /\ \A p \in Player : /\ grid'[p].visible = Fresh[p].visible
                              /\ grid'[p].explored = Fresh[p].explored
                              /\ grid'[p].had_visible = Fresh[p].had_visible
                              /\ grid'[p].client_connected = Fresh[p].client_connected
                              /\ \A q \in Plane : grid'[p][q] = Fresh[p][q]
         /\ \E lost \in Losses(FrameSent) : Transmit(FrameSent, lost)
<1>1. /\ hashed' = standing /\ blocked' = Blockers /\ stale' = FALSE
      /\ UNCHANGED <<world, changes>>
      /\ grid' = [p \in Player |-> Cleaned(Fresh[p])]
      /\ \E lost \in Losses(FrameSent) : Transmit(FrameSent, lost)
  BY DEF RunFrame, Fresh, FrameSent
<1>2. \A p \in Player : Fresh[p] \in GridType
  BY FreshFields
<1>3. \A p \in Player : grid'[p] = Cleaned(Fresh[p])
  BY <1>1
<1> HIDE DEF Fresh
<1>4. \A p \in Player : /\ grid'[p] \in GridType
                        /\ grid'[p].visible = Fresh[p].visible
                        /\ grid'[p].explored = Fresh[p].explored
                        /\ grid'[p].had_visible = Fresh[p].had_visible
                        /\ grid'[p].client_connected = Fresh[p].client_connected
                        /\ \A q \in Plane : grid'[p][q] = Fresh[p][q]
  BY <1>2, <1>3, CleanedType
<1>5. grid' \in [Player -> GridType]
  BY <1>1, <1>3, <1>4
<1> QED BY <1>1, <1>4, <1>5

LEMMA ClientBeginIs ==
  ASSUME FogInv, NEW k \in Clients, ClientBegin(k)
  PROVE  /\ hashed' = standing /\ blocked' = Blockers /\ stale' = FALSE
         /\ UNCHANGED <<world, seat, changes>> /\ begun' = begun \cup {k}
         /\ seat[k] \in Player /\ grid' \in [Player -> GridType]
         /\ grid'[seat[k]].client_connected
         /\ \A p \in Player : /\ grid'[p].visible = Fresh[p].visible
                              /\ grid'[p].explored = Fresh[p].explored
                              /\ grid'[p].had_visible = Fresh[p].had_visible
                              /\ grid'[p].dirty = Fresh[p].dirty
                              /\ p # seat[k] => grid'[p].client_connected = Fresh[p].client_connected
                              /\ \A q \in Plane : grid'[p][q] = Fresh[p][q]
         /\ \E lost \in Losses(BeginSent(k)) : Transmit(BeginSent(k), lost)
<1> DEFINE r == seat[k]
<1>1. /\ hashed' = standing /\ blocked' = Blockers /\ stale' = FALSE
      /\ UNCHANGED <<world, seat, changes>> /\ begun' = begun \cup {k}
      /\ grid' = [Fresh EXCEPT ![r].client_connected = TRUE]
      /\ \E lost \in Losses(BeginSent(k)) : Transmit(BeginSent(k), lost)
  BY DEF ClientBegin, Fresh, BeginSent
<1>2. r \in Player /\ \A p \in Player : Fresh[p] \in GridType
  BY TypesApart, FreshFields DEF FogInv, SeatTypes, Clients
<1>3. Fresh \in [Player -> GridType]
  BY <1>2 DEF Fresh
<1> HIDE DEF Fresh, r
<1>4. grid' \in [Player -> GridType]
  BY <1>1, <1>2, <1>3 DEF GridType
<1>5. \A p \in Player : p # r => grid'[p] = Fresh[p]
  BY <1>1, <1>3
<1>6. grid'[r] = [Fresh[r] EXCEPT !.client_connected = TRUE]
  BY <1>1, <1>2, <1>3
<1>7. /\ grid'[r].visible = Fresh[r].visible
      /\ grid'[r].explored = Fresh[r].explored
      /\ grid'[r].had_visible = Fresh[r].had_visible
      /\ grid'[r].dirty = Fresh[r].dirty
      /\ grid'[r].client_connected
      /\ \A q \in Plane : grid'[r][q] = Fresh[r][q]
  BY <1>2, <1>6 DEF GridType, Plane
<1> QED BY <1>1, <1>2, <1>4, <1>5, <1>7 DEF r

(* Who is there, and who is taken for connected. *)
LEMMA FrameSeats ==
  ASSUME FogInv, RunFrame
  PROVE  SeatTypes' /\ Connected'
<1>1. seat' = seat /\ begun' = begun
  BY DEF RunFrame, seats
<1>2. SeatTypes'
  BY <1>1, TypesApart DEF FogInv, SeatTypes, Clients
<1>3. \A p \in Player : grid'[p].client_connected = grid[p].client_connected
  BY RunFrameIs, FreshFields
<1>4. Connected'
  BY <1>1, <1>3 DEF FogInv, Connected
<1> QED BY <1>2, <1>4

LEMMA BeginSeats ==
  ASSUME FogInv, NEW k \in Clients, ClientBegin(k)
  PROVE  SeatTypes' /\ Connected'
<1>1. seat' = seat /\ begun' = begun \cup {k}
  BY ClientBeginIs
<1>2. SeatTypes'
  BY <1>1, TypesApart DEF FogInv, SeatTypes, Clients
<1>3. /\ grid'[seat[k]].client_connected
      /\ \A p \in Player :
           p # seat[k] => grid'[p].client_connected = grid[p].client_connected
  <2>1. /\ grid'[seat[k]].client_connected
        /\ \A p \in Player :
             p # seat[k] => grid'[p].client_connected = Fresh[p].client_connected
    BY ClientBeginIs
  <2>2. \A p \in Player : Fresh[p].client_connected = grid[p].client_connected
    BY FreshFields
  <2> QED BY <2>1, <2>2
<1>4. ASSUME NEW p \in Player
      PROVE  grid'[p].client_connected <=> \E j \in begun' : seat'[j] = p
  <2>1. CASE p = seat[k]
    BY <1>1, <1>3, <2>1
  <2>2. CASE p # seat[k]
    <3>1. grid[p].client_connected <=> \E j \in begun : seat[j] = p
      BY DEF FogInv, Connected
    <3>2. (\E j \in begun : seat[j] = p) <=> \E j \in begun' : seat'[j] = p
      BY <1>1, <2>2
    <3>3. grid'[p].client_connected = grid[p].client_connected
      BY <1>3, <2>2
    <3> QED BY <3>1, <3>2, <3>3
  <2> QED BY <2>1, <2>2
<1> QED BY <1>2, <1>4 DEF Connected

LEMMA ConnectIs ==
  ASSUME FogInv, DirectConnect
  PROVE  /\ UNCHANGED <<world, fow, begun, copies, stale, changes>>
         /\ seat' \in Seq(Player) /\ Len(seat') = Len(seat) + 1
         /\ Len(seat) \in Nat /\ Len(seat') <= MaxClients
         /\ \A k \in Clients : k \in Clients' /\ seat'[k] = seat[k]
         /\ Clients' = Clients \cup {Len(seat) + 1}
<1>1. /\ seat \in Seq(Player) /\ Len(seat) \in Nat
      /\ MaxClients \in Nat /\ 0 \in Player
  BY TypesApart, FogAssumption DEF FogInv, SeatTypes
<1>2. seat' = Append(seat, 0) /\ Len(seat) < MaxClients
  BY DEF DirectConnect
<1>3. seat' \in Seq(Player) /\ Len(seat') = Len(seat) + 1
  BY <1>1, <1>2
<1>4. \A k \in 1 .. Len(seat) : seat'[k] = seat[k]
  BY <1>1, <1>2
<1>5. 1 .. Len(seat') = (1 .. Len(seat)) \cup {Len(seat) + 1}
  BY <1>1, <1>3
<1> QED BY <1>1, <1>2, <1>3, <1>4, <1>5 DEF DirectConnect, Clients

LEMMA ConnectKeeps ==
  ASSUME FogInv, DirectConnect
  PROVE  FogInv'
<1>1. WorldTypes /\ FowTypes /\ SeatTypes /\ CopyTypes /\ BoundTypes
  BY TypesApart DEF FogInv
<1>2. UNCHANGED <<unit, standing, allied, started, modifiers, hashed, blocked,
                  grid, begun, client, missed, losses, stale, changes>>
  BY ConnectIs DEF world, fow, copies
<1>3. WorldTypes' /\ FowTypes' /\ CopyTypes' /\ BoundTypes'
  BY <1>1, <1>2 DEF WorldTypes, UnitTypes, FowTypes, CopyTypes, BoundTypes, ListOK
<1>4. SeatTypes'
  BY <1>1, <1>2, ConnectIs DEF SeatTypes
<1>5. BlockersOK' /\ NothingKept'
  BY <1>2 DEF FogInv, BlockersOK, NothingKept, BlockedCells
<1>6. Connected'
  <2>1. \A k \in begun : seat'[k] = seat[k]
    BY <1>1, ConnectIs DEF SeatTypes
  <2> QED BY <1>2, <2>1 DEF FogInv, Connected
<1> QED BY <1>3, <1>4, <1>5, <1>6, TypesApartNext DEF FogInv

LEMMA FogStep ==
  ASSUME FogInv, FogNext
  PROVE  FogInv'
<1>1. ASSUME RunFrame PROVE FogInv'
  BY <1>1, RunFrameIs, FrameSentOK, FrameSeats, TransmitKeeps
<1>2. ASSUME NEW k \in Clients, ClientBegin(k) PROVE FogInv'
  BY <1>2, ClientBeginIs, BeginSentOK, BeginSeats, TransmitKeeps
<1> QED BY <1>1, <1>2, MoveUnitKeeps, SetUnitOwnerKeeps, ConcealKeeps,
           FellTreeKeeps, SetPlayerAllianceKeeps, ModifierStartKeeps,
           ModifierStopKeeps, ConnectKeeps DEF FogNext

LEMMA FogStutters ==
  ASSUME FogInv, UNCHANGED fogVars
  PROVE  FogInv'
BY DEF fogVars, FogInv, FogTypeOK, BlockersOK, BlockedCells, NothingKept,
   Connected, Clients

(* The types of the fog, the cells blocked by the trees that stand, and    *)
(* that a player of whom nothing was visible has no visible cell: what     *)
(* lets G_FowUpdate pass such a player over (g_fow.c:801).                 *)
THEOREM FogTypesHold == FogSpec => []FogInv
<1>1. FogInit => FogInv
  BY InitHolds
<1>2. FogInv /\ [FogNext]_fogVars => FogInv'
  BY FogStep, FogStutters
<1> QED BY <1>1, <1>2, PTL DEF FogSpec

-----------------------------------------------------------------------------
(* ClientInSync, cell by cell. *)
Told(k, q, c) ==
  /\ k \in begun /\ Served(k)
  /\ c[2] \notin grid[seat[k]].dirty[q] /\ c[2] \notin missed[k][q]
CellsInStep ==
  \A k \in begun, q \in Plane, c \in Cell :
    Told(k, q, c) => (c \in client[k][q] <=> c \in grid[seat[k]][q])

LEMMA SyncByCell == ClientInSync <=> CellsInStep
<1>1. ASSUME NEW k \in begun, NEW q \in Plane, Served(k),
             NEW rows, rows = CellsOf(Row \ (grid[seat[k]].dirty[q] \cup missed[k][q]))
      PROVE  (client[k][q] \cap rows = grid[seat[k]][q] \cap rows)
               <=> \A c \in Cell :
                     Told(k, q, c) => (c \in client[k][q] <=> c \in grid[seat[k]][q])
  <2>1. \A c \in Cell : c \in rows <=> Told(k, q, c)
    BY <1>1 DEF CellsOf, Cell, Told
  <2>2. rows \subseteq Cell
    BY <1>1 DEF CellsOf, Cell
  <2> QED BY <2>1, <2>2
<1>2. ASSUME NEW k \in begun, NEW q \in Plane, ~Served(k)
      PROVE  \A c \in Cell :
               Told(k, q, c) => (c \in client[k][q] <=> c \in grid[seat[k]][q])
  BY <1>2 DEF Told
<1>3. ASSUME NEW k \in begun, NEW q \in Plane
      PROVE  (Served(k) =>
                LET g == grid[seat[k]]
                    rows == CellsOf(Row \ (g.dirty[q] \cup missed[k][q]))
                IN  client[k][q] \cap rows = g[q] \cap rows)
               <=> \A c \in Cell :
                     Told(k, q, c) => (c \in client[k][q] <=> c \in grid[seat[k]][q])
  BY <1>1, <1>2
<1> QED BY <1>3, Zenon DEF ClientInSync, CellsInStep

(* After a frame's messages, or those of a begin: where the row was sent,  *)
(* or need not have been, and the last message of it has come.             *)
LEMMA Synced ==
  ASSUME FogInv, CellsInStep, NEW sent, SentOK(sent, Fresh),
         NEW lost \in Losses(sent), Transmit(sent, lost),
         NEW k \in Clients, Served(k), NEW q \in Plane, NEW c \in Cell,
         c[2] \notin missed'[k][q],
         \/ c[2] \in RowsOfPlane(q, MessagesTo(k, sent))
         \/ k \in begun /\ c[2] \notin Fresh[seat[k]].dirty[q]
  PROVE  c \in client'[k][q] <=> c \in Fresh[seat[k]][q]
<1> DEFINE p == seat[k]
           all == RowsOfPlane(q, MessagesTo(k, sent))
           came == RowsOfPlane(q, MessagesTo(k, sent \ lost))
           left == RowsOfPlane(q, MessagesTo(k, lost))
           told == CellsOf(came)
<1>0. k \in Seat /\ p \in Player
  BY ServedBy
<1>1. lost \subseteq sent
  BY DEF Losses, kSubset
<1>2. all = came \cup left
  BY <1>1, RowsSplit
<1>3. client'[k][q] = (client[k][q] \ told) \cup (Fresh[p][q] \cap told)
  BY ClientGets
<1>4. c \in told <=> c[2] \in came
  BY CellsRows
<1>5. missed'[k][q] = (missed[k][q] \ all) \cup left
  BY <1>0 DEF Transmit
<1>6. CASE c[2] \in all
  <2>1. c[2] \in came
    BY <1>2, <1>5, <1>6
  <2> HIDE DEF all, came, left, told
  <2> QED BY <1>3, <1>4, <2>1
<1>7. CASE c[2] \notin all
  <2>1. c \notin told /\ c[2] \notin missed[k][q]
    BY <1>2, <1>4, <1>5, <1>7
  <2>2. k \in begun /\ c[2] \notin Fresh[p].dirty[q]
    BY <1>7
  <2>3. /\ grid[p].client_connected
        /\ InputTypes /\ Blockers \in SUBSET Cell
    BY <1>0, <2>2, TypesApart, BlockersCurrent
       DEF FogInv, Connected, InputTypes, WorldTypes, FowTypes, ListOK
  <2>4. Fresh[p] = Updated(p, Blockers)
    BY <1>0 DEF Fresh
  <2>5. c[2] \notin grid[p].dirty[q] /\ (c \in Fresh[p][q] <=> c \in grid[p][q])
    BY <1>0, <2>2, <2>3, <2>4, RowsUnchanged
  <2>6. Told(k, q, c)
    BY <2>1, <2>2, <2>5 DEF Told
  <2>7. c \in client[k][q] <=> c \in grid[p][q]
    BY <2>2, <2>6 DEF CellsInStep
  <2> HIDE DEF all, came, left, told
  <2> QED BY <1>3, <2>1, <2>5, <2>7
<1> QED BY <1>6, <1>7

LEMMA FrameInStep ==
  ASSUME FogInv, CellsInStep, RunFrame
  PROVE  CellsInStep'
<1>1. PICK lost \in Losses(FrameSent) : Transmit(FrameSent, lost)
  BY RunFrameIs
<1>2. seat' = seat /\ begun' = begun /\ begun \subseteq Clients
  BY TypesApart DEF RunFrame, seats, FogInv, SeatTypes
<1>3. ASSUME NEW k \in begun, NEW q \in Plane, NEW c \in Cell, Told(k, q, c)'
      PROVE  c \in client'[k][q] <=> c \in grid'[seat'[k]][q]
  <2> DEFINE p == seat[k]
  <2>1. k \in Clients /\ Served(k) /\ p \in Player /\ seat'[k] = p
    <3>1. k \in Clients /\ Served(k)
      BY <1>2, <1>3 DEF Told, Served, Receiver, Clients
    <3> QED BY <1>2, <3>1, ServedBy
  <2>2. /\ grid'[p].client_connected = Fresh[p].client_connected
        /\ grid'[p][q] = Fresh[p][q]
    BY <2>1, RunFrameIs
  <2>3. c[2] \notin missed'[k][q]
    BY <1>3 DEF Told
  <2>4. Fresh[p].client_connected
    BY <2>1, FreshFields DEF FogInv, Connected
  <2>5. Fresh[p].dirty[q] \subseteq RowsOfPlane(q, MessagesTo(k, FrameSent))
    BY <2>1, <2>4, FrameCovers
  <2>6. \/ c[2] \in RowsOfPlane(q, MessagesTo(k, FrameSent))
        \/ k \in begun /\ c[2] \notin Fresh[p].dirty[q]
    BY <2>5
  <2>7. c \in client'[k][q] <=> c \in Fresh[p][q]
    BY <1>1, <2>1, <2>3, <2>6, FrameSentOK, Synced
  <2> QED BY <2>1, <2>2, <2>7
<1> QED BY <1>2, <1>3 DEF CellsInStep

LEMMA BeginInStep ==
  ASSUME FogInv, CellsInStep, NEW j \in Clients, ClientBegin(j)
  PROVE  CellsInStep'
<1>1. PICK lost \in Losses(BeginSent(j)) : Transmit(BeginSent(j), lost)
  BY ClientBeginIs
<1>2. /\ seat' = seat /\ begun' = begun \cup {j}
      /\ begun \subseteq Clients /\ begun' \subseteq Clients
  BY ClientBeginIs, TypesApart DEF FogInv, SeatTypes
<1>3. ASSUME NEW k \in begun', NEW q \in Plane, NEW c \in Cell, Told(k, q, c)'
      PROVE  c \in client'[k][q] <=> c \in grid'[seat'[k]][q]
  <2> DEFINE p == seat[k]
  <2>1. k \in Clients /\ Served(k) /\ p \in Player /\ seat'[k] = p
    <3>1. k \in Clients /\ Served(k)
      BY <1>2, <1>3 DEF Told, Served, Receiver, Clients
    <3> QED BY <1>2, <3>1, ServedBy
  <2>2. grid'[p].dirty = Fresh[p].dirty /\ grid'[p][q] = Fresh[p][q]
    BY <2>1, ClientBeginIs
  <2>3. c[2] \notin grid'[p].dirty[q] /\ c[2] \notin missed'[k][q]
    BY <1>3, <2>1 DEF Told
  <2>4. k = j => c[2] \in RowsOfPlane(q, MessagesTo(k, BeginSent(j)))
    BY <2>1, BeginCovers, CellsRows
  <2>5. \/ c[2] \in RowsOfPlane(q, MessagesTo(k, BeginSent(j)))
        \/ k \in begun /\ c[2] \notin Fresh[p].dirty[q]
    BY <1>2, <2>2, <2>3, <2>4
  <2>6. c \in client'[k][q] <=> c \in Fresh[p][q]
    BY <1>1, <2>1, <2>3, <2>5, BeginSentOK, Synced
  <2> QED BY <2>1, <2>2, <2>6
<1> QED BY <1>3 DEF CellsInStep

(* Who comes later takes the rows from a client that was alone, and gives  *)
(* none to one that was not served before.                                 *)
LEMMA ServedBefore ==
  ASSUME FogInv, DirectConnect, NEW k \in Clients, Served(k)'
  PROVE  Served(k)
<1>1. /\ Len(seat) \in Nat /\ k \in 1 .. Len(seat) /\ seat'[k] = seat[k]
      /\ Clients' = 1 .. Len(seat) + 1
  BY ConnectIs DEF Clients
<1>2. Clients' # {1}
  BY <1>1
<1>3. Receiver(seat[k])' = {k}
  BY <1>1 DEF Served
<1>4. seat[k] = k
  BY <1>1, <1>2, <1>3 DEF Receiver, Served
<1> QED BY <1>4 DEF Served, Receiver

LEMMA ConnectInStep ==
  ASSUME FogInv, CellsInStep, DirectConnect
  PROVE  CellsInStep'
<1>1. UNCHANGED <<grid, begun, client, missed>>
  BY ConnectIs DEF fow, copies
<1>2. ASSUME NEW k \in begun, NEW q \in Plane, NEW c \in Cell, Told(k, q, c)'
      PROVE  c \in client'[k][q] <=> c \in grid'[seat'[k]][q]
  <2>1. k \in Clients
    BY TypesApart DEF FogInv, SeatTypes
  <2>2. seat'[k] = seat[k] /\ Served(k)
    BY <1>2, <2>1, ConnectIs, ServedBefore DEF Told
  <2>3. Told(k, q, c)
    BY <1>1, <1>2, <2>2 DEF Told
  <2> QED BY <1>1, <2>2, <2>3 DEF CellsInStep
<1> QED BY <1>1, <1>2 DEF CellsInStep

(* What the other steps leave alone. *)
LEMMA OtherSteps ==
  ASSUME FogNext, ~RunFrame, ~DirectConnect, \A k \in Clients : ~ClientBegin(k)
  PROVE  WorldChanged
BY DEF FogNext, MoveUnit, SetUnitOwner, Conceal, FellTree, SetPlayerAlliance,
       FogModifierStart, FogModifierStop

LEMMA InStepKept ==
  ASSUME CellsInStep, UNCHANGED <<grid, seat, begun, client, missed>>
  PROVE  CellsInStep'
BY DEF CellsInStep, Told, Served, Receiver, Clients

(* Of a client that PF_Unicast takes its player's edict to mean (sv_game.c *)
(* :136-155): what was sent of a row and not lost is on it as on the       *)
(* server.  Rows are marked when a cell of them changes (g_fow.c:8-22,     *)
(* 115-133), sent with whatever rows lie next to them (g_fow.c:1014-1042)  *)
(* and put in by the client without touching others (cl_parse.c:487-529).  *)
THEOREM CopiesAgree == FogSpec => []ClientInSync
<1>1. FogInit => FogInv /\ CellsInStep
  <2> SUFFICES ASSUME FogInit PROVE CellsInStep
    BY InitHolds
  <2>1. begun = {}
    BY DEF FogInit
  <2> QED BY <2>1 DEF CellsInStep
<1>2. FogInv /\ CellsInStep /\ [FogNext]_fogVars => FogInv' /\ CellsInStep'
  <2> SUFFICES ASSUME FogInv, CellsInStep, [FogNext]_fogVars PROVE FogInv' /\ CellsInStep'
    OBVIOUS
  <2>1. FogInv'
    BY FogStep, FogStutters
  <2>2. CASE RunFrame
    BY <2>1, <2>2, FrameInStep
  <2>3. ASSUME NEW k \in Clients, ClientBegin(k) PROVE CellsInStep'
    BY <2>3, BeginInStep
  <2>4. CASE UNCHANGED fogVars
    BY <2>1, <2>4, InStepKept DEF fogVars
  <2>5. CASE WorldChanged
    BY <2>1, <2>5, InStepKept DEF WorldChanged, fow, seats, copies
  <2>6. CASE DirectConnect
    BY <2>1, <2>6, ConnectInStep
  <2> QED BY <2>1, <2>2, <2>3, <2>4, <2>5, <2>6, OtherSteps
<1>3. CellsInStep => ClientInSync
  BY SyncByCell
<1> QED BY <1>1, <1>2, <1>3, PTL DEF FogSpec

-----------------------------------------------------------------------------
(* What a served client has as explored the server has, and whoever is     *)
(* not there yet has nothing.                                              *)
ExploredKnown ==
  /\ \A k \in Clients :
       Served(k) => client[k].explored \subseteq grid[seat[k]].explored
  /\ \A k \in Seat \ Clients : client[k].explored = {}
NothingForgotten ==
  \A k \in Clients : Served(k) => client[k].explored \subseteq client'[k].explored

LEMMA TransmitExplored ==
  ASSUME FogInv, ExploredKnown, NEW sent, SentOK(sent, Fresh),
         NEW lost \in Losses(sent), Transmit(sent, lost), UNCHANGED seat,
         \A p \in Player : grid'[p].explored = Fresh[p].explored
  PROVE  ExploredKnown' /\ NothingForgotten
<1>1. ASSUME NEW k \in Clients, Served(k)
      PROVE  /\ client'[k].explored \subseteq grid'[seat'[k]].explored
             /\ client[k].explored \subseteq client'[k].explored
  <2> DEFINE p == seat[k]
             told == CellsOf(RowsOfPlane("explored", MessagesTo(k, sent \ lost)))
             new == Fresh[p].explored
             had == client[k].explored
  <2>0. "explored" \in Plane
    BY DEF Plane
  <2>1. client'[k]["explored"] = (client[k]["explored"] \ told) \cup (Fresh[p]["explored"] \cap told)
    BY <1>1, <2>0, ClientGets
  <2>2. client'[k].explored = (had \ told) \cup (new \cap told)
    BY <2>1
  <2>3. p \in Player
    BY <1>1, ServedBy
  <2>4. grid[p].explored \subseteq new
    BY <2>3, FreshFields
  <2>5. had \subseteq new
    BY <1>1, <2>4 DEF ExploredKnown
  <2>6. grid'[p].explored = new /\ seat'[k] = p
    BY <2>3
  <2> HIDE DEF told, new, p
  <2> QED BY <2>2, <2>5, <2>6
<1>2. ASSUME NEW k \in Seat \ Clients
      PROVE  client'[k].explored = {}
  <2>1. MessagesTo(k, sent \ lost) = {}
    BY DEF MessagesTo, SentOK
  <2>2. client'[k] = ParseFogOfWar(client[k], {})
    BY <2>1 DEF Transmit
  <2>3. client'[k]["explored"] = client[k]["explored"]
    BY <2>2 DEF ParseFogOfWar, Plane
  <2> QED BY <2>3 DEF ExploredKnown
<1>3. /\ Clients' = Clients
      /\ \A k \in Clients : Served(k)' <=> Served(k)
  BY DEF Clients, Served, Receiver
<1> QED BY <1>1, <1>2, <1>3 DEF ExploredKnown, NothingForgotten, Seat

LEMMA ConnectExplored ==
  ASSUME FogInv, ExploredKnown, DirectConnect
  PROVE  ExploredKnown' /\ NothingForgotten
<1>1. grid' = grid /\ client' = client
  BY ConnectIs DEF fow, copies
<1>2. ASSUME NEW k \in Clients', Served(k)'
      PROVE  client'[k].explored \subseteq grid'[seat'[k]].explored
  <2>1. CASE k \in Clients
    BY <1>1, <1>2, <2>1, ConnectIs, ServedBefore DEF ExploredKnown
  <2>2. CASE k \notin Clients
    <3>1. k = Len(seat) + 1 /\ k \in Seat
      BY <2>2, ConnectIs, FogAssumption DEF Seat
    <3> QED BY <1>1, <2>2, <3>1 DEF ExploredKnown
  <2> QED BY <2>1, <2>2
<1>3. ASSUME NEW k \in Seat \ Clients'
      PROVE  client'[k].explored = {}
  BY <1>1, ConnectIs DEF ExploredKnown
<1> QED BY <1>1, <1>2, <1>3 DEF ExploredKnown, NothingForgotten, Seat

LEMMA ExploredStep ==
  ASSUME FogInv, ExploredKnown, [FogNext]_fogVars
  PROVE  ExploredKnown' /\ NothingForgotten
<1>1. CASE RunFrame
  <2>1. UNCHANGED seat
    BY <1>1 DEF RunFrame, seats
  <2> QED BY <1>1, <2>1, RunFrameIs, FrameSentOK, TransmitExplored
<1>2. ASSUME NEW k \in Clients, ClientBegin(k) PROVE ExploredKnown' /\ NothingForgotten
  BY <1>2, ClientBeginIs, BeginSentOK, TransmitExplored
<1>3. CASE UNCHANGED fogVars
  BY <1>3 DEF fogVars, ExploredKnown, NothingForgotten, Served, Receiver, Clients
<1>4. CASE WorldChanged
  BY <1>4 DEF WorldChanged, fow, seats, copies, ExploredKnown, NothingForgotten,
              Served, Receiver, Clients
<1>5. CASE DirectConnect
  BY <1>5, ConnectExplored
<1> QED BY <1>1, <1>2, <1>3, <1>4, <1>5, OtherSteps

(* What a client that is served shows as explored stays explored: a        *)
(* message that clears rows (cl_parse.c:522) has in it whatever was        *)
(* explored there, and no other player's rows come to it (sv_game.c:144).  *)
THEOREM NothingUnexplored == FogSpec => ExploredStays
<1>1. FogInit => FogInv /\ ExploredKnown
  <2> SUFFICES ASSUME FogInit PROVE ExploredKnown
    BY InitHolds
  <2>1. Clients \subseteq Seat
    BY InitHolds, TypesApart, FogAssumption DEF FogInv, SeatTypes, Clients, Seat
  <2>2. \A k \in Seat : client[k].explored = {}
    BY DEF FogInit, NoCells
  <2> QED BY <2>1, <2>2 DEF ExploredKnown
<1>2. FogInv /\ ExploredKnown /\ [FogNext]_fogVars => FogInv' /\ ExploredKnown'
  BY FogStep, FogStutters, ExploredStep
<1>3. FogInv /\ ExploredKnown /\ [FogNext]_fogVars
        => [\A c \in Clients :
              Served(c) => client[c].explored \subseteq client'[c].explored]_fogVars
  BY ExploredStep DEF NothingForgotten
<1> QED BY <1>1, <1>2, <1>3, PTL DEF FogSpec, ExploredStays

-----------------------------------------------------------------------------
(* The list of modifiers can hold all that the scripts create: when it is  *)
(* full a modifier that is started is not noted (g_fow.c:658-671).         *)
ModifiersFit == IsFiniteSet(Modifier) /\ Cardinality(Modifier) <= MaxModifiers

ListIsStarted == ToSet(modifiers) = started

LEMMA ListNotFull ==
  ASSUME ModifiersFit, NEW s, ListOK(s), NEW m \in Modifier, m \notin ToSet(s)
  PROVE  Len(s) < MaxModifiers
<1> DEFINE n == Len(s)
           others == Modifier \ {m}
<1>1. n \in Nat /\ s \in [1 .. n -> Modifier] /\ IsInjective(s)
  BY DEF ListOK
<1>2. \A i \in 1 .. n : s[i] # m
  BY <1>1 DEF ToSet
<1>3. s \in Injection(1 .. n, others)
  BY <1>1, <1>2 DEF Injection
<1>4. Cardinality(Modifier) \in Nat /\ MaxModifiers \in Nat
  BY FS_CardinalityType, FogAssumption DEF ModifiersFit
<1>5. IsFiniteSet(others) /\ Cardinality(others) = Cardinality(Modifier) - 1
  BY FS_RemoveElement DEF ModifiersFit
<1>6. Cardinality(1 .. n) = n
  BY <1>1, FS_Interval
<1> HIDE DEF n, others
<1>7. Cardinality(1 .. n) <= Cardinality(others)
  BY <1>3, <1>5, FS_Injection
<1>8. n < MaxModifiers
  BY <1>1, <1>4, <1>5, <1>6, <1>7 DEF ModifiersFit
<1> QED BY <1>8 DEF n

LEMMA StartNoted ==
  ASSUME ModifiersFit, FogInv, ListIsStarted, NEW m \in Modifier,
         FogModifierStart(m)
  PROVE  ListIsStarted'
<1>1. ListOK(modifiers) /\ started' = started \cup {m}
  BY TypesApart DEF FogInv, WorldTypes, FogModifierStart
<1>2. /\ modifiers \in Seq(Modifier)
      /\ Len(modifiers) \in Nat
      /\ MaxModifiers \in Nat
  BY <1>1, FogAssumption DEF ListOK
<1>3. Contains(modifiers, m) <=> m \in ToSet(modifiers)
  BY <1>2 DEF Contains, ToSet
<1>4. CASE m \in ToSet(modifiers)
  BY <1>1, <1>3, <1>4 DEF FogModifierStart, ListIsStarted
<1>5. CASE m \notin ToSet(modifiers)
  <2>1. ~(Len(modifiers) >= MaxModifiers)
    BY <1>1, <1>2, <1>5, ListNotFull
  <2>2. modifiers' = Append(modifiers, m)
    BY <1>3, <1>5, <2>1 DEF FogModifierStart
  <2>3. ToSet(modifiers') = ToSet(modifiers) \cup {m}
    BY <1>1, <1>3, <1>5, <2>2, PutIn DEF ListOK
  <2> QED BY <1>1, <2>3 DEF ListIsStarted
<1> QED BY <1>4, <1>5

LEMMA StopNoted ==
  ASSUME FogInv, ListIsStarted, NEW m \in Modifier, FogModifierStop(m)
  PROVE  ListIsStarted'
<1>1. ListOK(modifiers) /\ started' = started \ {m}
  BY TypesApart DEF FogInv, WorldTypes, FogModifierStop
<1>2. ToSet(modifiers') = ToSet(modifiers) \ {m}
  BY <1>1, ListStops
<1> QED BY <1>1, <1>2 DEF ListIsStarted

(* What a player's planes hold after an update, and what they are to hold. *)
SeesNow(p) ==
  /\ SideSees(p) \subseteq grid[p].visible
  /\ grid[p].visible \subseteq SideSees(p) \cup AtTheRim(p)
SightNow == ~stale => \A p \in Player : SeesNow(p)

LEMMA FreshSees ==
  ASSUME FogInv, ListIsStarted, NEW p \in Player
  PROVE  /\ SideSees(p) \subseteq Fresh[p].visible
         /\ Fresh[p].visible \subseteq SideSees(p) \cup AtTheRim(p)
<1> DEFINE cells == BlockedCells(standing)
<1>1. UnitTypes /\ cells \in SUBSET Cell /\ Blockers = cells
  BY TypesApart, BlockersCurrent DEF FogInv, WorldTypes
<1>2. Fresh[p].visible = Seen(p, cells)
  <2>1. Fresh[p].visible = Kept(grid[p]) \cup Seen(p, Blockers)
    BY FreshFields
  <2>2. Kept(grid[p]) = {}
    BY DEF Kept, FogInv, NothingKept
  <2> QED BY <1>1, <2>1, <2>2
<1>3. AppliedModifiers(p) = {m \in started : AppliesTo(p, m)}
  BY DEF AppliedModifiers, ListIsStarted
<1>4. SideSees(p) = Alone(p, cells) \cup ByModifiers(p)
  <2>1. \A u \in Revealers(p) : UnitSees(u) = SeesAlone(unit[u].cell, Radius[u], cells)
    BY DEF UnitSees, SeesAlone
  <2> HIDE DEF cells
  <2>2. UNION {UnitSees(u) : u \in Revealers(p)} = Alone(p, cells)
    BY <2>1 DEF Alone
  <2>3. UNION {Effect[m].cells : m \in {n \in started : AppliesTo(p, n)}} = ByModifiers(p)
    BY <1>3 DEF ByModifiers
  <2> DEFINE units == UNION {UnitSees(u) : u \in Revealers(p)}
             scripts == UNION {Effect[m].cells : m \in {n \in started : AppliesTo(p, n)}}
  <2>4. SideSees(p) = units \cup scripts
    BY DEF SideSees
  <2> HIDE DEF units, scripts
  <2>5. units = Alone(p, cells) /\ scripts = ByModifiers(p)
    BY <2>2, <2>3 DEF units, scripts
  <2> QED BY <2>4, <2>5
<1>5. Rims(p, cells) \subseteq AtTheRim(p)
  BY DEF Rims, RimOf, AtTheRim
<1>6. /\ Alone(p, cells) \cup ByModifiers(p) \subseteq Seen(p, cells)
      /\ Seen(p, cells) \subseteq Alone(p, cells) \cup Rims(p, cells) \cup ByModifiers(p)
  BY <1>1, SeenBounds
<1> HIDE DEF cells
<1> QED BY <1>2, <1>4, <1>5, <1>6

LEMMA WorldSame ==
  ASSUME UNCHANGED world, NEW p \in Player
  PROVE  SideSees(p)' = SideSees(p) /\ AtTheRim(p)' = AtTheRim(p)
<1>1. SideSees(p)' = SideSees(p)
  BY DEF world, SideSees, UnitSees, BlockedCells, Revealers, SharedVision,
     AppliesTo
<1>2. AtTheRim(p)' = AtTheRim(p)
  BY DEF world, AtTheRim, BlockedCells, Revealers, SharedVision
<1> QED BY <1>1, <1>2

LEMMA SightUpdated ==
  ASSUME FogInv, ListIsStarted, UNCHANGED world,
         \A p \in Player : grid'[p].visible = Fresh[p].visible
  PROVE  SightNow'
<1>1. ASSUME NEW p \in Player
      PROVE  SeesNow(p)'
  <2>1. SideSees(p)' = SideSees(p) /\ AtTheRim(p)' = AtTheRim(p)
    BY WorldSame
  <2> QED BY <2>1, FreshSees DEF SeesNow
<1> QED BY <1>1 DEF SightNow

LEMMA SightStep ==
  ASSUME ModifiersFit, FogInv, ListIsStarted, SightNow, [FogNext]_fogVars
  PROVE  ListIsStarted' /\ SightNow'
<1>1. ASSUME UNCHANGED world,
             \A p \in Player : grid'[p].visible = Fresh[p].visible
      PROVE  ListIsStarted' /\ SightNow'
  <2>1. ListIsStarted'
    BY <1>1 DEF world, ListIsStarted
  <2> QED BY <1>1, <2>1, SightUpdated
<1>2. CASE RunFrame
  BY <1>1, <1>2, RunFrameIs
<1>3. ASSUME NEW k \in Clients, ClientBegin(k) PROVE ListIsStarted' /\ SightNow'
  BY <1>1, <1>3, ClientBeginIs
<1>4. CASE UNCHANGED fogVars \/ DirectConnect
  <2>1. UNCHANGED world /\ grid' = grid /\ stale' = stale
    BY <1>4 DEF fogVars, world, DirectConnect, fow
  <2>2. ASSUME NEW p \in Player
        PROVE  SideSees(p)' = SideSees(p) /\ AtTheRim(p)' = AtTheRim(p)
    BY <2>1, WorldSame
  <2>3. ListIsStarted'
    BY <2>1 DEF world, ListIsStarted
  <2>4. SightNow'
    BY <2>1, <2>2 DEF SightNow, SeesNow
  <2> QED BY <2>3, <2>4
<1>5. ASSUME FogNext, ~RunFrame, ~DirectConnect, \A k \in Clients : ~ClientBegin(k)
      PROVE  ListIsStarted' /\ SightNow'
  <2>1. WorldChanged
    BY <1>5, OtherSteps
  <2>2. SightNow'
    BY <2>1 DEF WorldChanged, SightNow
  <2>3. ASSUME started' = started, modifiers' = modifiers PROVE ListIsStarted'
    BY <2>3 DEF ListIsStarted
  <2>4. ASSUME NEW m \in Modifier, FogModifierStart(m) PROVE ListIsStarted'
    BY <2>4, StartNoted
  <2>5. ASSUME NEW m \in Modifier, FogModifierStop(m) PROVE ListIsStarted'
    BY <2>5, StopNoted
  <2>6. \/ UNCHANGED <<started, modifiers>>
        \/ \E m \in Modifier : FogModifierStart(m) \/ FogModifierStop(m)
    BY <1>5 DEF FogNext, MoveUnit, SetUnitOwner, Conceal, FellTree,
       SetPlayerAlliance
  <2> QED BY <2>2, <2>3, <2>4, <2>5, <2>6
<1> QED BY <1>2, <1>3, <1>4, <1>5

(* After an update (g_fow.c:791-820) a player sees what its side sees now, *)
(* and beyond it only blocking cells at the rim: whatever moved, died,     *)
(* fell or was stopped since the last one.                                 *)
THEOREM SightHolds == ASSUME ModifiersFit PROVE FogSpec => []SightIsCurrent
<1>1. FogInit => FogInv /\ ListIsStarted /\ SightNow
  <2>1. FogInit => ListIsStarted /\ SightNow
    BY DEF FogInit, ListIsStarted, SightNow, ToSet
  <2> QED BY <2>1, InitHolds
<1>2. FogInv /\ ListIsStarted /\ SightNow /\ [FogNext]_fogVars
        => FogInv' /\ ListIsStarted' /\ SightNow'
  BY FogStep, FogStutters, SightStep
<1>3. FogInv /\ SightNow => SightIsCurrent
  BY DEF FogInv, SightNow, SeesNow, SightIsCurrent
<1> QED BY <1>1, <1>2, <1>3, PTL DEF FogSpec
==============================================================================
