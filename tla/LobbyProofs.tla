----------------------------- MODULE LobbyProofs -----------------------------
(***************************************************************************)
(* Proofs about the lobby, for every number of slots and of clients and    *)
(* every configuration the host may pass: the tables keep their types, and *)
(* a seated client owns its slot, an occupied slot has its occupant, and a *)
(* remote client keeps its seat.                                           *)
(*                                                                         *)
(* The second is inductive together with the first, and the argument is    *)
(* the same for every operation: a slot is given only to a client when     *)
(* nobody occupies it, so no client is seated there, and a slot that is    *)
(* written while it is occupied takes its one owner with it or unseats it. *)
(* Seen from the slots (Manned), the host is the exception: it may occupy  *)
(* several, but a remote client joins once, and no slot names a client     *)
(* record before there is one.  What one step does to a seat (SeatKept)    *)
(* needs both views: who is unseated is who the slot says sits there.      *)
(*                                                                         *)
(* The screen (LobbyScreen) adds SInv.  It says of the commands that wait  *)
(* what they will do, of an open lobby that each slot of the map is shown  *)
(* or the command that shows it is still ahead (Complete), and of the      *)
(* packets that the last setup under way is the table as it is (Shows).    *)
(***************************************************************************)
EXTENDS LobbyScreen, FiniteSetTheorems, SequenceTheorems, WellFoundedInduction,
        TLAPS

-----------------------------------------------------------------------------
Server == [clients : [ClientNum -> Client], num_clients : 0 .. max_clients,
           active : BOOLEAN, slot_count : 0 .. MAX_PLAYERS,
           slots : [SlotNum -> Slot]]

Seated(v) == \A c \in ClientNum : c < v.num_clients => OwnsSlot(v, c)

(* What the helpers keep. *)
Sound(v) == v \in Server /\ Seated(v)

Manned(v) == \A s \in SlotNum : Occupant(v, s)
Vacant(v) == \A s \in SlotNum : ~v.slots[s].occupied

(* Nothing that decides who sits where differs between v and w. *)
Stands(v, w) ==
  /\ w.num_clients = v.num_clients /\ w.slots = v.slots /\ w.active = v.active
  /\ \A c \in ClientNum : c < v.num_clients =>
       /\ w.clients[c].lobby_slot = v.clients[c].lobby_slot
       /\ w.clients[c].addr = v.clients[c].addr

LEMMA Bounds ==
  /\ MAX_PLAYERS \in Nat \ {0} /\ MAX_CLIENTS \in Nat \ {0}
  /\ max_clients \in 1 .. MAX_CLIENTS
  /\ SlotNum \subseteq Nat /\ ClientNum \subseteq Nat /\ 0 \in ClientNum
  /\ \A n \in 0 .. max_clients : n \in Nat
BY LimitsAssumption DEF SlotNum, ClientNum

(* A seated client is the only one in its slot. *)
LEMMA OneOwner ==
  ASSUME NEW v, Sound(v), NEW c \in ClientNum, c < v.num_clients,
         NEW s \in SlotNum, v.clients[c].lobby_slot = s
  PROVE  /\ v.slots[s].occupied /\ v.slots[s].client = c
         /\ v.slots[s].type = "human"
         /\ v.clients[c].playernum = v.slots[s].map_player
BY Bounds DEF Sound, Seated, OwnsSlot, SlotNum

-----------------------------------------------------------------------------
(* Seating a client. *)

SeatedAt(v, c, s) ==
  [v EXCEPT !.slots[s].occupied = TRUE,
            !.slots[s].client = c,
            !.slots[s].type = "human",
            !.clients[c].lobby_slot = s,
            !.clients[c].playernum = v.slots[s].map_player]

LEMMA SeatedParts ==
  ASSUME NEW v \in Server, NEW c \in ClientNum, NEW s \in SlotNum,
         NEW w, w = SeatedAt(v, c, s)
  PROVE  /\ w \in Server
         /\ w.num_clients = v.num_clients /\ w.active = v.active
         /\ w.slot_count = v.slot_count
         /\ w.slots[s].visible = v.slots[s].visible
         /\ w.slots[s].occupied /\ w.slots[s].client = c
         /\ w.slots[s].type = "human"
         /\ w.slots[s].map_player = v.slots[s].map_player
         /\ \A t \in SlotNum \ {s} : w.slots[t] = v.slots[t]
         /\ w.clients[c].lobby_slot = s
         /\ w.clients[c].playernum = v.slots[s].map_player
         /\ \A d \in ClientNum \ {c} : w.clients[d] = v.clients[d]
<1>1. w.slots[s] = [v.slots[s] EXCEPT !.occupied = TRUE, !.client = c,
                                      !.type = "human"]
  BY DEF Server, SeatedAt
<1>2. w.clients[c] = [v.clients[c] EXCEPT !.lobby_slot = s,
                                    !.playernum = v.slots[s].map_player]
  BY DEF Server, SeatedAt
<1>3. \A t \in SlotNum \ {s} : w.slots[t] = v.slots[t]
  BY DEF Server, SeatedAt
<1>4. \A d \in ClientNum \ {c} : w.clients[d] = v.clients[d]
  BY DEF Server, SeatedAt
<1>5. w.slots = [v.slots EXCEPT ![s] = w.slots[s]]
  BY DEF Server, SeatedAt
<1>6. w.clients = [v.clients EXCEPT ![c] = w.clients[c]]
  BY DEF Server, SeatedAt
<1>7. /\ w.num_clients = v.num_clients /\ w.active = v.active
      /\ w.slot_count = v.slot_count
  BY DEF Server, SeatedAt
<1>8. w = [clients |-> w.clients, num_clients |-> w.num_clients,
           active |-> w.active, slot_count |-> w.slot_count, slots |-> w.slots]
  BY DEF Server, SeatedAt
<1>9. /\ w.slots[s].occupied /\ w.slots[s].client = c
      /\ w.slots[s].type = "human"
      /\ w.slots[s].map_player = v.slots[s].map_player
      /\ w.slots[s].visible = v.slots[s].visible
  BY DEF Server, Slot, SeatedAt
<1>10. /\ w.clients[c].lobby_slot = s
       /\ w.clients[c].playernum = v.slots[s].map_player
  BY DEF Server, Client, SeatedAt
<1> HIDE DEF SeatedAt
<1>11. /\ v.clients \in [ClientNum -> Client] /\ v.slots \in [SlotNum -> Slot]
       /\ v.clients[c] \in Client /\ v.slots[s] \in Slot
  BY DEF Server
<1>12. v.slots[s].map_player \in 0 .. MAX_PLAYERS /\ s \in 0 .. MAX_PLAYERS
  BY <1>11, LimitsAssumption DEF Slot, SlotNum
<1>13. w.slots[s] \in Slot
  <2>1. c \in 0 .. MAX_CLIENTS
    BY Bounds DEF ClientNum
  <2>2. "human" \in SlotType
    BY DEF SlotType
  <2>3. PICK type \in SlotType : type = "human"
    BY <2>2
  <2>4. w.slots[s] = [v.slots[s] EXCEPT !.occupied = TRUE, !.client = c,
                                        !.type = type]
    BY <1>1, <2>3
  <2> QED BY <1>11, <2>1, <2>4 DEF Slot
<1>14. w.clients[c] \in Client
  BY <1>2, <1>11, <1>12 DEF Client
<1>15. w.slots \in [SlotNum -> Slot]
  BY <1>5, <1>11, <1>13
<1>16. w.clients \in [ClientNum -> Client]
  BY <1>6, <1>11, <1>14
<1>17. w \in Server
  BY <1>7, <1>8, <1>15, <1>16 DEF Server
<1> QED BY <1>3, <1>4, <1>7, <1>9, <1>10, <1>17

(* A slot that nobody occupies may be given away. *)
LEMMA AssignSound ==
  ASSUME NEW v, Sound(v), NEW c \in ClientNum, NEW s \in 0 .. MAX_PLAYERS,
         s < MAX_PLAYERS => ~v.slots[s].occupied,
         NEW w, w = AssignClientToSlot(v, c, s)
  PROVE  Sound(w) /\ w.num_clients = v.num_clients
<1>1. CASE ~CanAssignToSlot(v, c, s)
  BY <1>1 DEF AssignClientToSlot
<1>2. CASE CanAssignToSlot(v, c, s)
  <2>0. w = SeatedAt(v, c, s)
    BY <1>2 DEF AssignClientToSlot, SeatedAt
  <2>1. s \in SlotNum /\ ~v.slots[s].occupied
    BY <1>2, Bounds DEF CanAssignToSlot, SlotNum
  <2>2. /\ w \in Server /\ w.num_clients = v.num_clients
        /\ w.slots[s].occupied /\ w.slots[s].client = c
        /\ w.slots[s].type = "human"
        /\ w.slots[s].map_player = v.slots[s].map_player
        /\ \A t \in SlotNum \ {s} : w.slots[t] = v.slots[t]
        /\ w.clients[c].lobby_slot = s
        /\ w.clients[c].playernum = v.slots[s].map_player
        /\ \A d \in ClientNum \ {c} : w.clients[d] = v.clients[d]
    BY <2>0, <2>1, SeatedParts DEF Sound
  <2>3. ASSUME NEW d \in ClientNum, d < w.num_clients
        PROVE  OwnsSlot(w, d)
    <3>1. CASE d = c
      BY <2>2, <3>1 DEF OwnsSlot
    <3>2. CASE d # c
      <4>1. w.clients[d] = v.clients[d] /\ d < v.num_clients
        BY <2>2, <2>3, <3>2
      <4>2. SUFFICES ASSUME w.clients[d].lobby_slot < MAX_PLAYERS
                     PROVE  OwnsSlot(w, d)
        BY DEF OwnsSlot
      <4>3. v.clients[d].lobby_slot \in SlotNum
        BY <4>1, <4>2, Bounds DEF Sound, Server, Client, SlotNum
      <4>4. v.clients[d].lobby_slot # s
        BY <2>1, <4>1, <4>3, OneOwner
      <4>5. w.slots[w.clients[d].lobby_slot] = v.slots[v.clients[d].lobby_slot]
        BY <2>2, <4>1, <4>3, <4>4
      <4>6. OwnsSlot(v, d)
        BY <4>1 DEF Sound, Seated
      <4> QED BY <4>1, <4>5, <4>6 DEF OwnsSlot
    <3> QED BY <3>1, <3>2
  <2> QED BY <2>2, <2>3 DEF Sound, Seated
<1> QED BY <1>1, <1>2

(* The scan finds a slot that nobody occupies, or none. *)
LEMMA FirstIn ==
  ASSUME NEW S, S \subseteq SlotNum, S # {}
  PROVE  First(S) \in S
<1>1. S \subseteq Nat
  BY Bounds
<1>2. PICK s \in S : \A t \in S : <<t, s>> \notin OpToRel(<, Nat)
  BY <1>1, NatLessThanWellFounded, WFMin
<1>3. \A t \in S : ~(t < s)
  BY <1>1, <1>2, Zenon DEF OpToRel
<1>4. \A t \in S : s <= t
  BY <1>1, <1>3
<1> QED BY <1>4 DEF First

LEMMA ChosenFree ==
  ASSUME NEW v, NEW host \in BOOLEAN
  PROVE  /\ ChosenSlot(v, host) \in 0 .. MAX_PLAYERS
         /\ ChosenSlot(v, host) < MAX_PLAYERS =>
              /\ ~v.slots[ChosenSlot(v, host)].occupied
              /\ ChosenSlot(v, host) < v.slot_count
<1>1. \A type : FreeSlots(v, type) \subseteq SlotNum
  BY DEF FreeSlots
<1>2. \A type : FreeSlots(v, type) # {} =>
        /\ First(FreeSlots(v, type)) \in 0 .. MAX_PLAYERS
        /\ ~v.slots[First(FreeSlots(v, type))].occupied
        /\ First(FreeSlots(v, type)) < v.slot_count
  <2> SUFFICES ASSUME NEW type, FreeSlots(v, type) # {}
               PROVE  /\ First(FreeSlots(v, type)) \in 0 .. MAX_PLAYERS
                      /\ ~v.slots[First(FreeSlots(v, type))].occupied
                      /\ First(FreeSlots(v, type)) < v.slot_count
    OBVIOUS
  <2>1. First(FreeSlots(v, type)) \in FreeSlots(v, type)
    BY <1>1, FirstIn
  <2> DEFINE f == First(FreeSlots(v, type))
  <2>2. f \in SlotNum /\ ~v.slots[f].occupied /\ f < v.slot_count
    BY <2>1 DEF FreeSlots
  <2> HIDE DEF f
  <2>3. f \in 0 .. MAX_PLAYERS
    BY <2>2, Bounds DEF SlotNum
  <2> QED BY <2>2, <2>3 DEF f
<1>3. \/ ChosenSlot(v, host) = MAX_PLAYERS
      \/ \E type : /\ FreeSlots(v, type) # {}
                   /\ ChosenSlot(v, host) = First(FreeSlots(v, type))
  BY DEF ChosenSlot
<1>4. MAX_PLAYERS \in 0 .. MAX_PLAYERS /\ ~(MAX_PLAYERS < MAX_PLAYERS)
  BY Bounds
<1> QED BY <1>2, <1>3, <1>4

LEMMA AssignClientSound ==
  ASSUME NEW v, Sound(v), NEW c \in ClientNum, NEW host \in BOOLEAN,
         NEW w, w = AssignClient(v, c, host)
  PROVE  Sound(w) /\ w.num_clients = v.num_clients
<1>1. CASE NothingToAssign(v, c)
  BY <1>1 DEF AssignClient
<1>2. CASE ~NothingToAssign(v, c)
  <2>1. w = AssignClientToSlot(v, c, ChosenSlot(v, host))
    BY <1>2 DEF AssignClient
  <2> QED BY <2>1, ChosenFree, AssignSound
<1> QED BY <1>1, <1>2

-----------------------------------------------------------------------------
(* A slot's configuration. *)

(* The slot that SV_LobbySetSlot writes, and the table it is written to.   *)
NewSlot(v, s, config) ==
  LET stays == config.type = "human" /\ v.slots[s].occupied
  IN [visible |-> config.visible, map_player |-> config.map_player,
      type |-> config.type, occupied |-> stays,
      client |-> IF stays THEN v.slots[s].client ELSE MAX_CLIENTS]
Grown(v, s, config) ==
  [v EXCEPT !.slots[s] = NewSlot(v, s, config),
            !.slot_count = IF s >= @ THEN s + 1 ELSE @]

LEMMA NewSlotType ==
  ASSUME NEW v \in Server, NEW s \in SlotNum, NEW config \in SlotConfig
  PROVE  NewSlot(v, s, config) \in Slot
<1>1. v.slots[s] \in Slot
  BY DEF Server
<1>2. v.slots[s].client \in 0 .. MAX_CLIENTS /\ MAX_CLIENTS \in 0 .. MAX_CLIENTS
  BY <1>1, Bounds DEF Slot
<1>3. /\ config.visible \in BOOLEAN /\ config.map_player \in 0 .. MAX_PLAYERS
      /\ config.type \in SlotType
  BY DEF SlotConfig
<1>4. (config.type = "human" /\ v.slots[s].occupied) \in BOOLEAN
  OBVIOUS
<1> QED BY <1>2, <1>3, <1>4 DEF NewSlot, Slot

LEMMA GrownParts ==
  ASSUME NEW v \in Server, NEW s \in SlotNum, NEW config \in SlotConfig,
         NEW w, w = Grown(v, s, config)
  PROVE  /\ w \in Server
         /\ w.num_clients = v.num_clients /\ w.clients = v.clients
         /\ w.active = v.active
         /\ w.slot_count = IF s >= v.slot_count THEN s + 1 ELSE v.slot_count
         /\ w.slots[s] = NewSlot(v, s, config)
         /\ \A t \in SlotNum \ {s} : w.slots[t] = v.slots[t]
<1>1. NewSlot(v, s, config) \in Slot
  BY NewSlotType
<1> DEFINE slot == NewSlot(v, s, config)
<1> HIDE DEF slot
<1>2. w = [v EXCEPT !.slots[s] = slot,
                    !.slot_count = IF s >= @ THEN s + 1 ELSE @]
  BY DEF Grown, slot
<1>3. /\ w.num_clients = v.num_clients /\ w.clients = v.clients
      /\ w.active = v.active
  BY <1>2 DEF Server
<1>4. w.slots = [v.slots EXCEPT ![s] = slot]
  BY <1>2 DEF Server
<1>5. w.slot_count = IF s >= v.slot_count THEN s + 1 ELSE v.slot_count
  BY <1>2 DEF Server
<1>6. w = [clients |-> w.clients, num_clients |-> w.num_clients,
           active |-> w.active, slot_count |-> w.slot_count, slots |-> w.slots]
  BY <1>2 DEF Server
<1>7. v.slot_count \in 0 .. MAX_PLAYERS
  BY DEF Server
<1>8. w.slot_count \in 0 .. MAX_PLAYERS
  BY <1>5, <1>7, Bounds DEF SlotNum
<1>9. w.slots \in [SlotNum -> Slot]
  BY <1>1, <1>4 DEF Server, slot
<1>10. w \in Server
  BY <1>3, <1>6, <1>8, <1>9 DEF Server
<1>11. w.slots[s] = slot /\ \A t \in SlotNum \ {s} : w.slots[t] = v.slots[t]
  BY <1>4 DEF Server
<1> QED BY <1>3, <1>5, <1>10, <1>11 DEF slot

(* A client whose slot and player are written, and nothing else.           *)
Reseated(v, c, s, p) == [v EXCEPT !.clients[c].lobby_slot = s,
                                  !.clients[c].playernum = p]

LEMMA ReseatedParts ==
  ASSUME NEW v \in Server, NEW c \in ClientNum, NEW s \in 0 .. MAX_PLAYERS,
         NEW p \in 0 .. MAX_PLAYERS, NEW w, w = Reseated(v, c, s, p)
  PROVE  /\ w \in Server /\ w.slot_count = v.slot_count
         /\ w.num_clients = v.num_clients /\ w.slots = v.slots
         /\ w.active = v.active /\ w.clients[c].addr = v.clients[c].addr
         /\ w.clients[c].lobby_slot = s /\ w.clients[c].playernum = p
         /\ \A d \in ClientNum \ {c} : w.clients[d] = v.clients[d]
<1>1. w.clients[c] = [v.clients[c] EXCEPT !.lobby_slot = s, !.playernum = p]
  BY DEF Server, Reseated
<1>2. w.clients = [v.clients EXCEPT ![c] = w.clients[c]]
  BY DEF Server, Reseated
<1>3. /\ w.num_clients = v.num_clients /\ w.active = v.active
      /\ w.slot_count = v.slot_count /\ w.slots = v.slots
  BY DEF Server, Reseated
<1>4. w = [clients |-> w.clients, num_clients |-> w.num_clients,
           active |-> w.active, slot_count |-> w.slot_count, slots |-> w.slots]
  BY DEF Server, Reseated
<1>5. v.clients \in [ClientNum -> Client] /\ v.clients[c] \in Client
  BY DEF Server
<1>6. w.clients[c] \in Client
  BY <1>1, <1>5 DEF Client
<1>7. /\ w.clients[c].lobby_slot = s /\ w.clients[c].playernum = p
      /\ w.clients[c].addr = v.clients[c].addr
  BY <1>1, <1>5 DEF Client
<1>8. w.clients \in [ClientNum -> Client]
  BY <1>2, <1>5, <1>6
<1>9. w \in Server
  BY <1>3, <1>4, <1>8 DEF Server
<1>10. \A d \in ClientNum \ {c} : w.clients[d] = v.clients[d]
  BY <1>2, <1>5
<1> QED BY <1>3, <1>7, <1>9, <1>10

(* Writing a slot leaves every client its seat but the slot's occupant.    *)
LEMMA OthersKeepSeat ==
  ASSUME NEW v, Sound(v), NEW s \in SlotNum, NEW config \in SlotConfig,
         NEW g, g = Grown(v, s, config),
         NEW w \in Server, w.slots = g.slots, w.num_clients = v.num_clients,
         NEW d \in ClientNum, d < w.num_clients,
         w.clients[d] = v.clients[d],
         ~(v.slots[s].occupied /\ v.slots[s].client = d)
  PROVE  OwnsSlot(w, d)
<1>1. /\ g.slots[s] = NewSlot(v, s, config)
      /\ \A t \in SlotNum \ {s} : g.slots[t] = v.slots[t]
  BY GrownParts DEF Sound
<1>2. SUFFICES ASSUME w.clients[d].lobby_slot < MAX_PLAYERS
               PROVE  OwnsSlot(w, d)
  BY DEF OwnsSlot
<1>3. v.clients[d].lobby_slot \in SlotNum
  BY <1>2, Bounds DEF Sound, Server, Client, SlotNum
<1>4. v.clients[d].lobby_slot # s
  BY <1>3, OneOwner
<1>5. w.slots[w.clients[d].lobby_slot] = v.slots[v.clients[d].lobby_slot]
  BY <1>1, <1>3, <1>4
<1>6. OwnsSlot(v, d)
  BY DEF Sound, Seated
<1> QED BY <1>5, <1>6 DEF OwnsSlot

LEMMA ConfiguredSound ==
  ASSUME NEW v, Sound(v), NEW s \in SlotNum, NEW config \in SlotConfig,
         NEW w, w = Configured(v, s, config)
  PROVE  Sound(w) /\ w.num_clients = v.num_clients
<1> DEFINE g == Grown(v, s, config)
           client == v.slots[s].client
           stays == config.type = "human" /\ v.slots[s].occupied
<1>1. /\ g \in Server
      /\ g.num_clients = v.num_clients /\ g.clients = v.clients
      /\ g.slots[s] = NewSlot(v, s, config)
      /\ \A t \in SlotNum \ {s} : g.slots[t] = v.slots[t]
  BY GrownParts DEF Sound
<1>2. w = IF ~v.slots[s].occupied THEN g
          ELSE IF ~stays THEN ClearClientAssignment(g, client)
          ELSE IF client < v.num_clients
            THEN Reseated(g, client, s, config.map_player)
          ELSE g
  BY DEF Configured, Grown, NewSlot, Reseated
<1>3. /\ client < v.num_clients => client \in ClientNum
      /\ config.map_player \in 0 .. MAX_PLAYERS
      /\ s \in 0 .. MAX_PLAYERS /\ MAX_PLAYERS \in 0 .. MAX_PLAYERS
  <2>1. v.slots[s] \in Slot /\ v.num_clients \in 0 .. max_clients
    BY DEF Sound, Server
  <2>2. client \in 0 .. MAX_CLIENTS
    BY <2>1 DEF Slot
  <2> QED BY <2>1, <2>2, Bounds DEF SlotConfig, ClientNum, SlotNum
<1> HIDE DEF g, client
<1>4. CASE w = g /\ ~(v.slots[s].occupied /\ client < v.num_clients)
  <2>1. ASSUME NEW d \in ClientNum, d < w.num_clients
        PROVE  OwnsSlot(w, d)
    BY <1>1, <1>4, <2>1, OthersKeepSeat DEF g, client
  <2> QED BY <1>1, <1>4, <2>1 DEF Sound, Seated
<1>5. ASSUME client \in ClientNum, NEW t \in 0 .. MAX_PLAYERS,
             NEW p \in 0 .. MAX_PLAYERS, w = Reseated(g, client, t, p),
             t < MAX_PLAYERS => t = s /\ stays /\ p = config.map_player
      PROVE  Sound(w) /\ w.num_clients = v.num_clients
  <2>1. /\ w \in Server
        /\ w.num_clients = g.num_clients /\ w.slots = g.slots
        /\ w.clients[client].lobby_slot = t /\ w.clients[client].playernum = p
        /\ \A d \in ClientNum \ {client} : w.clients[d] = g.clients[d]
    BY <1>1, <1>5, ReseatedParts
  <2>2. OwnsSlot(w, client)
    <3>1. SUFFICES ASSUME t < MAX_PLAYERS PROVE OwnsSlot(w, client)
      BY <2>1 DEF OwnsSlot
    <3>2. t = s /\ stays /\ p = config.map_player
      BY <1>5, <3>1
    <3>3. w.slots[t] = NewSlot(v, s, config)
      BY <1>1, <2>1, <3>2
    <3>4. /\ w.slots[t].occupied /\ w.slots[t].client = client
          /\ w.slots[t].type = "human" /\ w.slots[t].map_player = p
      <4>1. config.type = "human" /\ v.slots[s].occupied
        BY <3>2
      <4>2. w.slots[t].occupied = (config.type = "human" /\ v.slots[s].occupied)
        BY <3>3 DEF NewSlot
      <4>3. w.slots[t].client = client
        BY <3>3, <4>1 DEF NewSlot, client
      <4>4. w.slots[t].type = config.type /\ w.slots[t].map_player = config.map_player
        BY <3>3 DEF NewSlot
      <4> HIDE DEF stays
      <4> QED BY <3>2, <4>1, <4>2, <4>3, <4>4
    <3> QED BY <2>1, <3>4 DEF OwnsSlot
  <2>3. ASSUME NEW d \in ClientNum, d < w.num_clients
        PROVE  OwnsSlot(w, d)
    BY <1>1, <2>1, <2>2, <2>3, OthersKeepSeat DEF g, client
  <2> QED BY <1>1, <2>1, <2>3 DEF Sound, Seated
<1>6. CASE v.slots[s].occupied /\ client < v.num_clients
  <2>1. CASE stays
    BY <1>2, <1>3, <1>5, <1>6, <2>1
  <2>2. CASE ~stays
    <3>1. w = Reseated(g, client, MAX_PLAYERS, MAX_PLAYERS)
      <4>1. ~(client >= g.num_clients)
        <5>1. v.num_clients \in Nat /\ client \in Nat
          BY <1>3, <1>6, Bounds DEF Sound, Server
        <5> QED BY <1>1, <1>6, <5>1
      <4> QED BY <1>2, <1>6, <2>2, <4>1 DEF ClearClientAssignment, Reseated
    <3>2. ~(MAX_PLAYERS < MAX_PLAYERS)
      BY Bounds
    <3> QED BY <1>3, <1>5, <1>6, <3>1, <3>2
  <2> QED BY <2>1, <2>2
<1>7. CASE ~(v.slots[s].occupied /\ client < v.num_clients)
  <2>1. v.slots[s].occupied => client >= g.num_clients
    <3>1. v.slots[s] \in Slot /\ v.num_clients \in 0 .. max_clients
      BY DEF Sound, Server
    <3>2. client \in 0 .. MAX_CLIENTS
      BY <3>1 DEF Slot, client
    <3> QED BY <1>1, <1>7, <3>1, <3>2, Bounds
  <2>2. w = g
    BY <1>2, <1>7, <2>1 DEF ClearClientAssignment
  <2> QED BY <1>4, <1>7, <2>2
<1> QED BY <1>6, <1>7

LEMMA SetSlotInSound ==
  ASSUME NEW v, Sound(v), NEW s \in SlotNum, NEW config \in SlotConfig,
         NEW w, w = SetSlotIn(v, s, config)
  PROVE  Sound(w)
<1> DEFINE u == Configured(v, s, config)
<1>1. Sound(u)
  BY ConfiguredSound
<1>2. w = u \/ w = AssignClient(u, 0, TRUE)
  BY DEF SetSlotIn
<1> HIDE DEF u
<1> QED BY <1>1, <1>2, AssignClientSound, Bounds

-----------------------------------------------------------------------------
(* Client records come, go and are written, the slots as they are.         *)

LEMMA Empty ==
  /\ FreeClient \in Client /\ EmptySlot \in Slot
  /\ NoClients \in [ClientNum -> Client] /\ NoSlots \in [SlotNum -> Slot]
  /\ EmptyServer \in Server
  /\ [EmptyServer EXCEPT !.active = TRUE] \in Server
<1>1. FreeClient \in Client
  BY Bounds DEF FreeClient, Client, NoEdict
<1>2. EmptySlot \in Slot
  BY Bounds DEF EmptySlot, Slot, SlotType
<1>3. NoClients \in [ClientNum -> Client] /\ NoSlots \in [SlotNum -> Slot]
  BY <1>1, <1>2 DEF NoClients, NoSlots
<1>4. 0 \in 0 .. max_clients /\ 0 \in 0 .. MAX_PLAYERS
  BY Bounds
<1>5. EmptyServer \in Server
  BY <1>3, <1>4 DEF EmptyServer, Server
<1>6. [EmptyServer EXCEPT !.active = TRUE] \in Server
  BY <1>5 DEF Server
<1> QED BY <1>1, <1>2, <1>3, <1>5, <1>6

Joined(a) == [addr |-> a, cs |-> "connected", playernum |-> MAX_PLAYERS,
              lobby_slot |-> MAX_PLAYERS, edict |-> NoEdict]

LEMMA JoinedType ==
  ASSUME NEW a \in Remote \cup {Loopback}
  PROVE  Joined(a) \in Client
BY Bounds DEF Joined, Client, NoEdict

WithRecord(v, c, r, n) == [v EXCEPT !.num_clients = n, !.clients[c] = r]

LEMMA RecordParts ==
  ASSUME NEW v \in Server, NEW c \in ClientNum, NEW r \in Client,
         NEW n \in 0 .. max_clients,
         NEW w, w = WithRecord(v, c, r, n)
  PROVE  /\ w \in Server /\ w.num_clients = n /\ w.slots = v.slots
         /\ w.active = v.active /\ w.slot_count = v.slot_count
         /\ w.clients[c] = r
         /\ \A d \in ClientNum \ {c} : w.clients[d] = v.clients[d]
<1>1. w.clients = [v.clients EXCEPT ![c] = r]
  BY DEF Server, WithRecord
<1>2. /\ w.num_clients = n /\ w.active = v.active
      /\ w.slot_count = v.slot_count /\ w.slots = v.slots
  BY DEF Server, WithRecord
<1>3. w = [clients |-> w.clients, num_clients |-> w.num_clients,
           active |-> w.active, slot_count |-> w.slot_count, slots |-> w.slots]
  BY DEF Server, WithRecord
<1>4. w.clients \in [ClientNum -> Client]
  BY <1>1 DEF Server
<1>5. w \in Server
  BY <1>2, <1>3, <1>4 DEF Server
<1>6. w.clients[c] = r /\ \A d \in ClientNum \ {c} : w.clients[d] = v.clients[d]
  BY <1>1 DEF Server
<1> QED BY <1>2, <1>5, <1>6

(* A step that moves no client and writes no slot. *)
LEMMA SeatsKept ==
  ASSUME NEW v, Sound(v), NEW w \in Server,
         w.num_clients = v.num_clients, w.slots = v.slots,
         \A c \in ClientNum : c < v.num_clients =>
            /\ w.clients[c].lobby_slot = v.clients[c].lobby_slot
            /\ w.clients[c].playernum = v.clients[c].playernum
  PROVE  Sound(w)
BY DEF Sound, Seated, OwnsSlot

(* A client that joins has no seat until AssignClient finds it one.        *)
LEMMA HostJoined ==
  ASSUME NEW v \in Server, NEW u, u = WithRecord(v, 0, Joined(Loopback), 1)
  PROVE  /\ Sound(u) /\ u.num_clients = 1
         /\ u.slots = v.slots /\ u.active = v.active
         /\ u.slot_count = v.slot_count
<1> DEFINE r == Joined(Loopback)
<1>1. r \in Client /\ 1 \in 0 .. max_clients /\ 0 \in ClientNum
  BY Bounds, JoinedType
<1> HIDE DEF r
<1>2. /\ u \in Server /\ u.num_clients = 1 /\ u.clients[0] = r
      /\ u.slots = v.slots /\ u.active = v.active
      /\ u.slot_count = v.slot_count
  BY <1>1, RecordParts DEF r
<1>3. ASSUME NEW c \in ClientNum, c < u.num_clients
      PROVE  OwnsSlot(u, c)
  <2>1. c = 0
    BY <1>2, <1>3, Bounds
  <2>2. u.clients[c].lobby_slot = MAX_PLAYERS
    BY <1>2, <2>1 DEF Joined, r
  <2> QED BY <2>2, Bounds DEF OwnsSlot
<1> QED BY <1>2, <1>3 DEF Sound, Seated

LEMMA ConnectHostIs ==
  ASSUME NEW v
  PROVE  ConnectHost(v) = AssignClient(WithRecord(v, 0, Joined(Loopback), 1), 0, TRUE)
BY DEF ConnectHost, WithRecord, Joined

LEMMA ConnectHostSound ==
  ASSUME NEW v \in Server, NEW w, w = ConnectHost(v)
  PROVE  Sound(w)
<1> DEFINE u == WithRecord(v, 0, Joined(Loopback), 1)
<1>1. w = AssignClient(u, 0, TRUE)
  BY ConnectHostIs
<1>2. Sound(u)
  BY HostJoined
<1> HIDE DEF u
<1> QED BY <1>1, <1>2, AssignClientSound, Bounds

LEMMA JoinedParts ==
  ASSUME NEW v, Sound(v), v.num_clients < max_clients, NEW a \in Remote,
         NEW w, w = WithClient(v, a)
  PROVE  /\ v.num_clients \in ClientNum
         /\ w \in Server /\ w.num_clients = v.num_clients + 1
         /\ w.slots = v.slots /\ w.active = v.active
         /\ w.slot_count = v.slot_count
         /\ w.clients[v.num_clients] = Joined(a)
         /\ \A d \in ClientNum \ {v.num_clients} : w.clients[d] = v.clients[d]
<1>1. /\ v \in Server /\ v.num_clients \in Nat
      /\ v.num_clients \in ClientNum /\ v.num_clients + 1 \in 0 .. max_clients
  <2>1. v \in Server /\ v.num_clients \in 0 .. max_clients
    BY DEF Sound, Server
  <2> QED BY <2>1, Bounds DEF ClientNum
<1> DEFINE n == v.num_clients
           r == Joined(a)
<1>2. r \in Client
  BY JoinedType
<1>3. w = WithRecord(v, n, r, n + 1)
  BY <1>1 DEF WithClient, WithRecord, Joined, Server
<1> HIDE DEF n, r
<1>4. /\ w \in Server /\ w.num_clients = n + 1 /\ w.slots = v.slots
      /\ w.active = v.active /\ w.clients[n] = r
      /\ w.slot_count = v.slot_count
      /\ \A d \in ClientNum \ {n} : w.clients[d] = v.clients[d]
  BY <1>1, <1>2, <1>3, RecordParts DEF n
<1> QED BY <1>1, <1>4 DEF n, r

LEMMA WithClientSound ==
  ASSUME NEW v, Sound(v), v.num_clients < max_clients, NEW a \in Remote,
         NEW w, w = WithClient(v, a)
  PROVE  Sound(w)
<1> DEFINE n == v.num_clients
<1>1. /\ n \in ClientNum /\ w \in Server /\ w.num_clients = n + 1
      /\ w.slots = v.slots /\ w.clients[n] = Joined(a)
      /\ \A d \in ClientNum \ {n} : w.clients[d] = v.clients[d]
  BY JoinedParts
<1>2. ASSUME NEW c \in ClientNum, c < w.num_clients
      PROVE  OwnsSlot(w, c)
  <2>1. CASE c = n
    <3>1. w.clients[c].lobby_slot = MAX_PLAYERS
      BY <1>1, <2>1 DEF Joined
    <3> QED BY <3>1, Bounds DEF OwnsSlot
  <2>2. CASE c # n
    <3>1. c < n
      <4>1. n \in Nat /\ c \in Nat
        BY <1>1, Bounds
      <4>2. c < n + 1
        BY <1>1, <1>2
      <4> HIDE DEF n
      <4> QED BY <2>2, <4>1, <4>2
    <3>2. OwnsSlot(v, c)
      BY <3>1 DEF Sound, Seated
    <3> QED BY <1>1, <2>2, <3>2 DEF OwnsSlot
  <2> QED BY <2>1, <2>2
<1> QED BY <1>1, <1>2 DEF Sound, Seated

LEMMA RestoredSound ==
  ASSUME NEW v, Sound(v), NEW w, w = Restored(v)
  PROVE  Sound(w) /\ Stands(v, w)
<1> DEFINE f == [c \in ClientNum |->
                   IF c < v.num_clients
                   THEN [v.clients[c] EXCEPT !.cs = "connected",
                                             !.edict = NoEdict]
                   ELSE FreeClient]
<1>1. v \in Server /\ v.clients \in [ClientNum -> Client]
  BY DEF Sound, Server
<1>2. w = [v EXCEPT !.clients = f]
  BY DEF Restored
<1>3. f \in [ClientNum -> Client]
  <2>1. ASSUME NEW c \in ClientNum
        PROVE  [v.clients[c] EXCEPT !.cs = "connected", !.edict = NoEdict]
                 \in Client
    <3>1. v.clients[c] \in Client /\ NoEdict \in 0 .. MAX_PLAYERS
      BY <1>1, Bounds DEF NoEdict
    <3>2. PICK cs \in {"free", "connected", "spawned"} : cs = "connected"
      OBVIOUS
    <3> DEFINE e == NoEdict
    <3> HIDE DEF e
    <3>3. [v.clients[c] EXCEPT !.cs = cs, !.edict = e] \in Client
      BY <3>1 DEF Client, e
    <3> QED BY <3>2, <3>3 DEF e
  <2> QED BY <2>1, Empty
<1>4. \A c \in ClientNum : c < v.num_clients =>
         /\ f[c].lobby_slot = v.clients[c].lobby_slot
         /\ f[c].playernum = v.clients[c].playernum
         /\ f[c].addr = v.clients[c].addr
  BY <1>1 DEF Client
<1> HIDE DEF f
<1>5. /\ w \in Server /\ w.clients = f /\ w.num_clients = v.num_clients
      /\ w.slots = v.slots /\ w.active = v.active
  BY <1>1, <1>2, <1>3 DEF Server
<1>6. Sound(w)
  BY <1>4, <1>5, SeatsKept
<1> QED BY <1>4, <1>5, <1>6 DEF Stands

LEMMA ClientPlayerNumberType ==
  ASSUME NEW r \in Client
  PROVE  ClientPlayerNumber(r) \in 0 .. MAX_PLAYERS
BY Bounds DEF ClientPlayerNumber, Client

-----------------------------------------------------------------------------
(* The steps of the server.                                                *)

IInv == TypeOK /\ SeatOwned

LEMMA IInvParts ==
  IInv <=> /\ state \in {"dead", "lobby", "game"}
           /\ world \in Map \cup {NoMap}
           /\ Sound(svs)
BY DEF IInv, TypeOK, SeatOwned, Sound, Server, Seated

LEMMA InitIInv ==
  ASSUME Init
  PROVE  IInv
<1>1. svs.num_clients = 0 /\ svs \in Server
  BY Empty DEF Init, EmptyServer
<1>2. Seated(svs)
  BY <1>1, Bounds DEF Seated
<1> QED BY <1>1, <1>2, IInvParts DEF Init, Sound

LEMMA StartLobbyIInv ==
  ASSUME IInv, NEW m \in Map, StartLobby(m)
  PROVE  IInv'
<1>1. Sound(svs')
  BY Empty, ConnectHostSound DEF StartLobby
<1>2. state' \in {"dead", "lobby", "game"} /\ world' \in Map \cup {NoMap}
  BY DEF StartLobby
<1> QED BY <1>1, <1>2, IInvParts DEF IInv, TypeOK, SeatOwned, Sound, Server, Seated

LEMMA StartMapIInv ==
  ASSUME IInv, NEW m \in Map, StartMap(m)
  PROVE  IInv'
<1>1. Sound(svs)
  BY IInvParts
<1> DEFINE emptied == [svs EXCEPT !.clients = NoClients]
<1>2. \/ svs' = Restored(svs)
      \/ svs' = ConnectHost(emptied)
      \/ svs' = ConnectHost(EmptyServer)
  BY DEF StartMap
<1>3. svs \in Server /\ emptied \in Server
  BY <1>1, Empty DEF Sound, Server
<1> HIDE DEF emptied
<1>5. Sound(svs')
  BY <1>1, <1>2, <1>3, Empty, RestoredSound, ConnectHostSound
<1>6. state' \in {"dead", "lobby", "game"} /\ world' \in Map \cup {NoMap}
  BY DEF StartMap
<1> QED BY <1>5, <1>6 DEF IInv, TypeOK, SeatOwned, Sound, Server, Seated

LEMMA FailMapIInv ==
  ASSUME IInv, NEW m \in Map, FailMap(m)
  PROVE  IInv'
<1>1. svs \in Server /\ 0 \in 0 .. max_clients
  BY IInvParts, Bounds DEF Sound
<1>2. svs' \in Server /\ svs'.num_clients = 0
  BY <1>1, Empty DEF FailMap, Server
<1>3. Seated(svs')
  BY <1>2, Bounds DEF Seated
<1>4. state' \in {"dead", "lobby", "game"} /\ world' \in Map \cup {NoMap}
  BY DEF FailMap
<1> QED BY <1>2, <1>3, <1>4 DEF IInv, TypeOK, SeatOwned, Server, Seated

LEMMA SetConfigIInv ==
  ASSUME IInv, NEW n \in 0 .. MAX_PLAYERS + 1, SetConfig(n)
  PROVE  IInv'
<1>1. Sound(svs) /\ svs \in Server
  BY IInvParts DEF Sound
<1> DEFINE count == IF n > MAX_PLAYERS THEN MAX_PLAYERS ELSE n
<1>2. count \in 0 .. MAX_PLAYERS
  BY Bounds
<1>3. svs' = [svs EXCEPT !.slot_count = count]
  BY DEF SetConfig
<1> HIDE DEF count
<1>4. /\ svs' \in Server /\ svs'.num_clients = svs.num_clients
      /\ svs'.slots = svs.slots /\ svs'.clients = svs.clients
  BY <1>1, <1>2, <1>3 DEF Server
<1>5. Sound(svs')
  BY <1>1, <1>4, SeatsKept
<1> QED BY <1>5, IInvParts DEF SetConfig, IInv, TypeOK, SeatOwned, Sound, Server, Seated

LEMMA SetSlotIInv ==
  ASSUME IInv, NEW s \in SlotNum, NEW config \in SlotConfig, SetSlot(s, config)
  PROVE  IInv'
<1>1. Sound(svs')
  BY IInvParts, SetSlotInSound DEF SetSlot
<1> QED BY <1>1, IInvParts DEF SetSlot, IInv, TypeOK, SeatOwned, Sound, Server, Seated

LEMMA DirectConnectIInv ==
  ASSUME IInv, NEW a \in Remote, DirectConnect(a)
  PROVE  IInv'
<1> DEFINE c == svs.num_clients
           v == WithClient(svs, a)
<1>1. Sound(svs) /\ c < max_clients
  BY IInvParts DEF DirectConnect
<1>2. c \in ClientNum
  <2>1. c \in 0 .. max_clients
    BY <1>1 DEF Sound, Server
  <2> QED BY <1>1, <2>1, Bounds DEF ClientNum
<1>3. Sound(v)
  BY <1>1, WithClientSound
<1>4. svs' = AssignClient(v, c, FALSE) \/ svs' = v
  BY DEF DirectConnect
<1>5. state' = state /\ world' = world
  BY DEF DirectConnect
<1> HIDE DEF c, v
<1>6. Sound(svs')
  BY <1>2, <1>3, <1>4, AssignClientSound
<1> QED BY <1>5, <1>6, IInvParts DEF IInv, TypeOK, SeatOwned, Sound, Server, Seated

LEMMA RefuseConnectIInv ==
  ASSUME IInv, NEW a \in Remote, RefuseConnect(a)
  PROVE  IInv'
<1> DEFINE c == svs.num_clients
           r == FreeClient
<1>1. Sound(svs) /\ svs \in Server /\ c < max_clients
  BY IInvParts DEF RefuseConnect, Sound
<1>2. c \in 0 .. max_clients /\ c \in ClientNum
  <2>1. c \in 0 .. max_clients
    BY <1>1 DEF Server
  <2> QED BY <1>1, <2>1, Bounds DEF ClientNum
<1>3. svs' = [svs EXCEPT !.clients[c] = r]
  BY DEF RefuseConnect
<1>4. r \in Client
  BY Empty
<1>5. \A d \in ClientNum : d < svs.num_clients => d # c
  BY <1>2, Bounds
<1> HIDE DEF c, r
<1>6. /\ svs' \in Server /\ svs'.num_clients = svs.num_clients
      /\ svs'.slots = svs.slots
      /\ \A d \in ClientNum \ {c} : svs'.clients[d] = svs.clients[d]
  BY <1>1, <1>2, <1>3, <1>4 DEF Server
<1>7. Sound(svs')
  BY <1>1, <1>5, <1>6, SeatsKept
<1> QED BY <1>7, IInvParts DEF RefuseConnect, IInv, TypeOK, SeatOwned, Sound, Server, Seated

(* The two commands that bind a client to an edict. *)
Bound(v, c, cs, edict) ==
  [v EXCEPT !.clients[c].cs = cs, !.clients[c].edict = edict]

LEMMA BoundSound ==
  ASSUME NEW v, Sound(v), NEW c \in ClientNum,
         NEW cs \in {"free", "connected", "spawned"},
         NEW edict \in 0 .. MAX_PLAYERS, NEW w, w = Bound(v, c, cs, edict)
  PROVE  Sound(w) /\ Stands(v, w)
<1>1. v \in Server /\ v.clients \in [ClientNum -> Client] /\ v.clients[c] \in Client
  BY DEF Sound, Server
<1>2. w.clients[c] = [v.clients[c] EXCEPT !.cs = cs, !.edict = edict]
  BY <1>1 DEF Server, Bound
<1>3. w.clients = [v.clients EXCEPT ![c] = w.clients[c]]
  BY <1>1 DEF Server, Bound
<1>4. /\ w.num_clients = v.num_clients /\ w.active = v.active
      /\ w.slot_count = v.slot_count /\ w.slots = v.slots
  BY <1>1 DEF Server, Bound
<1>5. w = [clients |-> w.clients, num_clients |-> w.num_clients,
           active |-> w.active, slot_count |-> w.slot_count, slots |-> w.slots]
  BY <1>1 DEF Server, Bound
<1>6. /\ w.clients[c] \in Client
      /\ w.clients[c].lobby_slot = v.clients[c].lobby_slot
      /\ w.clients[c].playernum = v.clients[c].playernum
      /\ w.clients[c].addr = v.clients[c].addr
  BY <1>1, <1>2 DEF Client
<1>7. w.clients \in [ClientNum -> Client]
  BY <1>1, <1>3, <1>6
<1>8. w \in Server
  BY <1>1, <1>4, <1>5, <1>7 DEF Server
<1>9. \A d \in ClientNum \ {c} : w.clients[d] = v.clients[d]
  BY <1>1, <1>3
<1>10. Sound(w)
  BY <1>4, <1>6, <1>8, <1>9, SeatsKept
<1> QED BY <1>4, <1>6, <1>9, <1>10 DEF Stands

LEMMA PlayerInfoIInv ==
  ASSUME IInv, NEW c \in ClientNum, PlayerInfo(c)
  PROVE  IInv'
<1>1. Sound(svs) /\ svs \in Server /\ svs.clients[c] \in Client
  BY IInvParts DEF Sound, Server
<1> DEFINE edict == ClientPlayerNumber(svs.clients[c])
           cs == svs.clients[c].cs
<1>2. edict \in 0 .. MAX_PLAYERS /\ cs \in {"free", "connected", "spawned"}
  BY <1>1, ClientPlayerNumberType DEF Client
<1>3. svs' = [svs EXCEPT !.clients[c].edict = edict]
  BY DEF PlayerInfo
<1>4. svs' = Bound(svs, c, cs, edict)
  <2>1. [svs.clients[c] EXCEPT !.edict = edict] =
           [svs.clients[c] EXCEPT !.cs = cs, !.edict = edict]
    BY <1>1 DEF Client
  <2> HIDE DEF edict
  <2> QED BY <1>1, <1>3, <2>1 DEF Bound, Server, Client
<1> HIDE DEF edict, cs
<1>5. Sound(svs')
  BY <1>1, <1>2, <1>4, BoundSound
<1> QED BY <1>5, IInvParts DEF PlayerInfo, IInv, TypeOK, SeatOwned, Sound, Server, Seated

LEMMA BeginIInv ==
  ASSUME IInv, NEW c \in ClientNum, Begin(c)
  PROVE  IInv'
<1>1. Sound(svs) /\ svs \in Server /\ svs.clients[c] \in Client
  BY IInvParts DEF Sound, Server
<1> DEFINE edict == IF svs.clients[c].edict = NoEdict
                    THEN ClientPlayerNumber(svs.clients[c])
                    ELSE svs.clients[c].edict
<1>2. edict \in 0 .. MAX_PLAYERS
  BY <1>1, ClientPlayerNumberType DEF Client
<1>3. svs' = Bound(svs, c, "spawned", edict)
  BY <1>1 DEF Begin, Bound, Server, Client
<1> HIDE DEF edict
<1>4. Sound(svs')
  BY <1>1, <1>2, <1>3, BoundSound
<1> QED BY <1>4, IInvParts DEF Begin, IInv, TypeOK, SeatOwned, Sound, Server, Seated

LEMMA NextIInv ==
  ASSUME IInv, [Next]_vars
  PROVE  IInv'
<1>1. ASSUME NEW m \in Map, StartLobby(m) PROVE IInv'
  BY <1>1, StartLobbyIInv
<1>2. ASSUME NEW m \in Map, StartMap(m) PROVE IInv'
  BY <1>2, StartMapIInv
<1>3. ASSUME NEW m \in Map, FailMap(m) PROVE IInv'
  BY <1>3, FailMapIInv
<1>4. ASSUME NEW n \in 0 .. MAX_PLAYERS + 1, SetConfig(n) PROVE IInv'
  BY <1>4, SetConfigIInv
<1>5. ASSUME NEW s \in SlotNum, NEW config \in Config, SetSlot(s, config)
      PROVE  IInv'
  BY <1>5, ConfigAssumption, SetSlotIInv
<1>6. ASSUME NEW a \in Remote, DirectConnect(a) PROVE IInv'
  BY <1>6, DirectConnectIInv
<1>7. ASSUME NEW a \in Remote, RefuseConnect(a) PROVE IInv'
  BY <1>7, RefuseConnectIInv
<1>8. ASSUME NEW c \in ClientNum, PlayerInfo(c) PROVE IInv'
  BY <1>8, PlayerInfoIInv
<1>9. ASSUME NEW c \in ClientNum, Begin(c) PROVE IInv'
  BY <1>9, BeginIInv
<1>10. CASE UNCHANGED vars
  BY <1>10 DEF vars, IInv, TypeOK, SeatOwned, OwnsSlot
<1> QED BY <1>1, <1>2, <1>3, <1>4, <1>5, <1>6, <1>7, <1>8, <1>9, <1>10 DEF Next

(* The induction hypothesis: the types of the tables, and the seats.        *)
THEOREM IInvHolds == Spec => []IInv
<1>1. Init => IInv
  BY InitIInv
<1>2. IInv /\ [Next]_vars => IInv'
  BY NextIInv
<1> QED BY <1>1, <1>2, PTL DEF Spec

(* The client and slot tables keep their types whatever the host configures *)
(* and whoever connects: no index leaves its table.                        *)
THEOREM TypeCorrect == Spec => []TypeOK
<1>1. IInv => TypeOK
  BY DEF IInv
<1> QED BY <1>1, IInvHolds, PTL

(* A seated client owns its slot, so no two clients sit in one: for every  *)
(* number of slots and clients and every order of lobby_config, lobby_slot, *)
(* connects, map loads and user commands.                                  *)
THEOREM SeatsAreOwned == Spec => []SeatOwned
<1>1. IInv => SeatOwned
  BY DEF IInv
<1> QED BY <1>1, IInvHolds, PTL

-----------------------------------------------------------------------------
(* Who occupies a slot. *)

LEMMA OccupantIsClient ==
  ASSUME NEW v, v \in Server, Manned(v), NEW s \in SlotNum, v.slots[s].occupied
  PROVE  /\ v.slots[s].client \in ClientNum
         /\ v.slots[s].client < v.num_clients
         /\ v.slots[s].client > 0 =>
              v.clients[v.slots[s].client].lobby_slot = s
<1>1. /\ v.slots[s].client < v.num_clients
      /\ v.slots[s].client > 0 => v.clients[v.slots[s].client].lobby_slot = s
  BY DEF Manned, Occupant
<1>2. v.slots[s] \in Slot /\ v.num_clients \in 0 .. max_clients
  BY DEF Server
<1>3. v.slots[s].client \in 0 .. MAX_CLIENTS
  BY <1>2 DEF Slot
<1>4. v.slots[s].client \in ClientNum
  BY <1>1, <1>2, <1>3, Bounds DEF ClientNum
<1> QED BY <1>1, <1>4

LEMMA VacantManned ==
  ASSUME NEW v, Vacant(v)
  PROVE  Manned(v)
BY DEF Vacant, Manned, Occupant

LEMMA StandsManned ==
  ASSUME NEW v, v \in Server, Manned(v), NEW w, Stands(v, w)
  PROVE  Manned(w)
<1> SUFFICES ASSUME NEW s \in SlotNum, w.slots[s].occupied
             PROVE  /\ w.slots[s].client < w.num_clients
                    /\ w.slots[s].client > 0 =>
                         w.clients[w.slots[s].client].lobby_slot = s
  BY DEF Manned, Occupant
<1>1. w.slots[s] = v.slots[s] /\ w.num_clients = v.num_clients
  BY DEF Stands
<1>2. /\ v.slots[s].client \in ClientNum
      /\ v.slots[s].client < v.num_clients
      /\ v.slots[s].client > 0 =>
           v.clients[v.slots[s].client].lobby_slot = s
  BY <1>1, OccupantIsClient
<1> QED BY <1>1, <1>2 DEF Stands

(* A client that no slot names yet is seated, or the host, where nobody    *)
(* is; the other clients stay where they are.                              *)
Unnamed(v, c) ==
  \A s \in SlotNum : v.slots[s].occupied => v.slots[s].client # c
Seatable(v, c) == c = 0 \/ Unnamed(v, c)
OthersStay(v, w, c) == \A d \in ClientNum \ {c} : w.clients[d] = v.clients[d]

LEMMA AssignManned ==
  ASSUME NEW v, Sound(v), Manned(v), NEW c \in ClientNum,
         Seatable(v, c), NEW s \in 0 .. MAX_PLAYERS,
         NEW w, w = AssignClientToSlot(v, c, s)
  PROVE  /\ Manned(w) /\ w.active = v.active /\ w.num_clients = v.num_clients
         /\ \A d \in ClientNum \ {c} : w.clients[d] = v.clients[d]
<1>1. CASE ~CanAssignToSlot(v, c, s)
  BY <1>1 DEF AssignClientToSlot
<1>2. CASE CanAssignToSlot(v, c, s)
  <2>0. w = SeatedAt(v, c, s)
    BY <1>2 DEF AssignClientToSlot, SeatedAt
  <2>1. s \in SlotNum /\ c < v.num_clients
    BY <1>2, Bounds DEF CanAssignToSlot, SlotNum
  <2>2. /\ w.num_clients = v.num_clients /\ w.active = v.active
        /\ w.slots[s].client = c
        /\ \A t \in SlotNum \ {s} : w.slots[t] = v.slots[t]
        /\ w.clients[c].lobby_slot = s
        /\ \A d \in ClientNum \ {c} : w.clients[d] = v.clients[d]
    BY <2>0, <2>1, SeatedParts DEF Sound
  <2>3. ASSUME NEW t \in SlotNum PROVE Occupant(w, t)
    <3>1. CASE t = s
      BY <2>1, <2>2, <3>1 DEF Occupant
    <3>2. CASE t # s
      <4>1. SUFFICES ASSUME v.slots[t].occupied PROVE Occupant(w, t)
        BY <2>2, <3>2 DEF Occupant
      <4>2. /\ v.slots[t].client \in ClientNum
            /\ v.slots[t].client < v.num_clients
            /\ v.slots[t].client > 0 =>
                 v.clients[v.slots[t].client].lobby_slot = t
        BY <4>1, OccupantIsClient DEF Sound
      <4>3. v.slots[t].client > 0 => v.slots[t].client # c
        <5>1. ~(0 > 0)
          OBVIOUS
        <5> QED BY <4>1, <5>1 DEF Seatable, Unnamed
      <4>4. w.slots[t] = v.slots[t]
        BY <2>2, <3>2
      <4> QED BY <2>2, <4>2, <4>3, <4>4 DEF Occupant
    <3> QED BY <3>1, <3>2
  <2> QED BY <2>2, <2>3 DEF Manned
<1> QED BY <1>1, <1>2

LEMMA AssignClientManned ==
  ASSUME NEW v, Sound(v), Manned(v), NEW c \in ClientNum,
         Seatable(v, c), NEW host \in BOOLEAN,
         NEW w, w = AssignClient(v, c, host)
  PROVE  /\ Manned(w) /\ w.active = v.active /\ w.num_clients = v.num_clients
         /\ OthersStay(v, w, c)
<1>1. CASE NothingToAssign(v, c)
  BY <1>1 DEF AssignClient, OthersStay
<1>2. CASE ~NothingToAssign(v, c)
  <2>1. w = AssignClientToSlot(v, c, ChosenSlot(v, host))
    BY <1>2 DEF AssignClient
  <2> QED BY <2>1, ChosenFree, AssignManned DEF OthersStay
<1> QED BY <1>1, <1>2

(* The host comes into a lobby whose slots nobody occupies. *)
LEMMA ConnectHostManned ==
  ASSUME NEW v \in Server, Vacant(v), NEW w, w = ConnectHost(v)
  PROVE  Manned(w) /\ w.active = v.active
<1> DEFINE u == WithRecord(v, 0, Joined(Loopback), 1)
<1>1. w = AssignClient(u, 0, TRUE)
  BY ConnectHostIs
<1>2. Sound(u) /\ u.slots = v.slots /\ u.active = v.active
  BY HostJoined
<1> HIDE DEF u
<1>3. Manned(u) /\ Seatable(u, 0)
  BY <1>2, VacantManned DEF Vacant, Seatable
<1> QED BY <1>1, <1>2, <1>3, AssignClientManned, Bounds

(* What a step leaves of the seat of a remote client d: its record, its    *)
(* address, and its seat unless that slot is no longer for a human.        *)
Keeps(v, w, d) ==
  /\ w.clients[d].addr = v.clients[d].addr
  /\ \/ w.clients[d].lobby_slot = v.clients[d].lobby_slot
     \/ /\ v.clients[d].lobby_slot \in SlotNum
        /\ w.slots[v.clients[d].lobby_slot].type # "human"
KeepsSeats(v, w) ==
  /\ w.num_clients \in v.num_clients .. max_clients
  /\ \A d \in ClientNum : 0 < d /\ d < v.num_clients => Keeps(v, w, d)

LEMMA StandsKeeps ==
  ASSUME NEW v, v \in Server, NEW w, Stands(v, w)
  PROVE  KeepsSeats(v, w)
<1>1. v.num_clients \in v.num_clients .. max_clients
  BY Bounds DEF Server
<1> QED BY <1>1 DEF Stands, KeepsSeats, Keeps

(* The occupant of the slot that is configured goes, or stays where it is; *)
(* a remote one sat in this slot and in no other.                          *)
LEMMA ConfiguredManned ==
  ASSUME NEW v, Sound(v), Manned(v), NEW s \in SlotNum, NEW config \in SlotConfig,
         NEW w, w = Configured(v, s, config)
  PROVE  /\ Manned(w) /\ w.active = v.active /\ w.num_clients = v.num_clients
         /\ \A d \in ClientNum : 0 < d /\ d < v.num_clients =>
              /\ w.clients[d].addr = v.clients[d].addr
              /\ \/ w.clients[d].lobby_slot = v.clients[d].lobby_slot
                 \/ v.clients[d].lobby_slot = s /\ w.slots[s].type # "human"
<1> DEFINE g == Grown(v, s, config)
           client == v.slots[s].client
           stays == config.type = "human" /\ v.slots[s].occupied
<1>0. v \in Server
  BY DEF Sound
<1>1. /\ g \in Server
      /\ g.num_clients = v.num_clients /\ g.clients = v.clients
      /\ g.active = v.active
      /\ g.slots[s] = NewSlot(v, s, config)
      /\ \A t \in SlotNum \ {s} : g.slots[t] = v.slots[t]
  BY <1>0, GrownParts
<1>2. w = IF ~v.slots[s].occupied THEN g
          ELSE IF ~stays THEN ClearClientAssignment(g, client)
          ELSE IF client < v.num_clients
            THEN Reseated(g, client, s, config.map_player)
          ELSE g
  BY DEF Configured, Grown, NewSlot, Reseated
<1>3. /\ NewSlot(v, s, config).occupied = stays
      /\ stays => NewSlot(v, s, config).client = client
      /\ NewSlot(v, s, config).type = config.type
  BY DEF NewSlot
<1>4. /\ config.map_player \in 0 .. MAX_PLAYERS
      /\ s \in 0 .. MAX_PLAYERS /\ MAX_PLAYERS \in 0 .. MAX_PLAYERS
  BY Bounds DEF SlotConfig, SlotNum
<1>5. v.slots[s].occupied =>
        /\ client \in ClientNum /\ client < v.num_clients
        /\ client > 0 => v.clients[client].lobby_slot = s
  BY <1>0, OccupantIsClient
<1>6. \A d \in ClientNum : d \in Nat
  BY Bounds
<1> HIDE DEF g
<1>7. CASE ~v.slots[s].occupied
  <2>1. w = g
    BY <1>2, <1>7
  <2>2. ASSUME NEW t \in SlotNum PROVE Occupant(w, t)
    <3>1. CASE t = s
      <4>1. ~w.slots[t].occupied
        BY <1>1, <1>3, <1>7, <2>1, <3>1
      <4> QED BY <4>1 DEF Occupant
    <3>2. CASE t # s
      BY <1>1, <2>1, <3>2 DEF Occupant, Manned
    <3> QED BY <3>1, <3>2
  <2> QED BY <1>1, <2>1, <2>2 DEF Manned
<1>8. CASE v.slots[s].occupied
  <2>1. PICK t \in 0 .. MAX_PLAYERS, p \in 0 .. MAX_PLAYERS :
          w = Reseated(g, client, t, p) /\ (stays => t = s)
    <3>1. CASE stays
      <4>1. w = Reseated(g, client, s, config.map_player)
        BY <1>2, <1>5, <1>8, <3>1
      <4> QED BY <1>4, <4>1
    <3>2. CASE ~stays
      <4>1. ~(client >= g.num_clients)
        <5>1. v.num_clients \in Nat /\ client \in Nat /\ client < v.num_clients
          BY <1>0, <1>5, <1>8, Bounds DEF Server
        <5> QED BY <1>1, <5>1
      <4>2. w = Reseated(g, client, MAX_PLAYERS, MAX_PLAYERS)
        BY <1>2, <1>8, <3>2, <4>1 DEF ClearClientAssignment, Reseated
      <4> QED BY <1>4, <3>2, <4>2
    <3> QED BY <3>1, <3>2
  <2> HIDE DEF stays
  <2>2. /\ w.num_clients = g.num_clients /\ w.slots = g.slots
        /\ w.active = g.active /\ w.clients[client].addr = g.clients[client].addr
        /\ w.clients[client].lobby_slot = t
        /\ \A d \in ClientNum \ {client} : w.clients[d] = g.clients[d]
    <3>1. g \in Server /\ client \in ClientNum
      BY <1>1, <1>5, <1>8
    <3> HIDE DEF client
    <3> QED BY <2>1, <3>1, ReseatedParts
  <2>3. ASSUME NEW r \in SlotNum PROVE Occupant(w, r)
    <3>1. CASE r = s
      <4>1. w.slots[r] = NewSlot(v, s, config)
        BY <1>1, <2>2, <3>1
      <4>2. CASE ~stays
        BY <1>3, <4>1, <4>2 DEF Occupant
      <4>3. CASE stays
        <5>1. w.slots[r].client = client /\ client < w.num_clients
          BY <1>1, <1>3, <1>5, <1>8, <2>2, <4>1, <4>3
        <5>2. w.clients[client].lobby_slot = r
          BY <2>1, <2>2, <3>1, <4>3
        <5> QED BY <5>1, <5>2 DEF Occupant
      <4> QED BY <4>2, <4>3
    <3>2. CASE r # s
      <4>1. w.slots[r] = v.slots[r] /\ w.num_clients = v.num_clients
        BY <1>1, <2>2, <3>2
      <4>2. SUFFICES ASSUME v.slots[r].occupied PROVE Occupant(w, r)
        BY <4>1 DEF Occupant
      <4> DEFINE e == v.slots[r].client
      <4>3. /\ e \in ClientNum /\ e < v.num_clients
            /\ e > 0 => v.clients[e].lobby_slot = r
        BY <1>0, <4>2, OccupantIsClient
      <4> HIDE DEF e, client
      <4>4. e > 0 => e # client
        BY <1>5, <1>8, <3>2, <4>3
      <4>5. e > 0 => w.clients[e] = v.clients[e]
        BY <1>1, <2>2, <4>3, <4>4
      <4> QED BY <4>1, <4>3, <4>5 DEF Occupant, e
    <3> QED BY <3>1, <3>2
  <2>4. ASSUME NEW d \in ClientNum, 0 < d, d < v.num_clients
        PROVE  /\ w.clients[d].addr = v.clients[d].addr
               /\ \/ w.clients[d].lobby_slot = v.clients[d].lobby_slot
                  \/ v.clients[d].lobby_slot = s /\ w.slots[s].type # "human"
    <3>1. CASE d # client
      BY <1>1, <2>2, <3>1
    <3>2. CASE d = client
      <4>1. d > 0 /\ v.clients[d].lobby_slot = s
        BY <1>5, <1>6, <1>8, <2>4, <3>2
      <4>2. CASE stays
        BY <1>1, <2>1, <2>2, <3>2, <4>1, <4>2
      <4>3. CASE ~stays
        <5>1. config.type # "human"
          BY <1>8, <4>3 DEF stays
        <5>2. w.slots[s].type = config.type
          BY <1>1, <1>3, <2>2
        <5> QED BY <1>1, <2>2, <3>2, <4>1, <5>1, <5>2
      <4> QED BY <4>2, <4>3
    <3> QED BY <3>1, <3>2
  <2> QED BY <1>1, <2>2, <2>3, <2>4 DEF Manned
<1> QED BY <1>7, <1>8

(* When the host is seated after all, the slot stays one for a human. *)
LEMMA SetSlotInManned ==
  ASSUME NEW v, Sound(v), Manned(v), NEW s \in SlotNum, NEW config \in SlotConfig,
         NEW w, w = SetSlotIn(v, s, config)
  PROVE  Manned(w) /\ w.active = v.active /\ KeepsSeats(v, w)
<1> DEFINE u == Configured(v, s, config)
<1>1. /\ Sound(u) /\ Manned(u) /\ u.active = v.active
      /\ u.num_clients = v.num_clients
      /\ \A d \in ClientNum : 0 < d /\ d < v.num_clients =>
           /\ u.clients[d].addr = v.clients[d].addr
           /\ \/ u.clients[d].lobby_slot = v.clients[d].lobby_slot
              \/ v.clients[d].lobby_slot = s /\ u.slots[s].type # "human"
  BY ConfiguredSound, ConfiguredManned
<1>2. \/ w = u
      \/ w = AssignClient(u, 0, TRUE) /\ u.slots[s].type = "human"
  BY DEF SetSlotIn
<1>3. v.num_clients \in v.num_clients .. max_clients
  BY Bounds DEF Sound, Server
<1> HIDE DEF u
<1>4. CASE w = u
  BY <1>1, <1>3, <1>4 DEF KeepsSeats, Keeps
<1>5. CASE w = AssignClient(u, 0, TRUE) /\ u.slots[s].type = "human"
  <2>1. /\ Manned(w) /\ w.active = u.active /\ w.num_clients = u.num_clients
        /\ OthersStay(u, w, 0)
    <3>1. 0 \in ClientNum
      BY Bounds
    <3>2. Sound(u) /\ Manned(u) /\ w = AssignClient(u, 0, TRUE)
      BY <1>1, <1>5
    <3>3. Seatable(u, 0)
      BY DEF Seatable
    <3> QED BY <3>1, <3>2, <3>3, AssignClientManned
  <2>2. \A d \in ClientNum : 0 < d => d # 0
    OBVIOUS
  <2>3. ASSUME NEW d \in ClientNum, 0 < d, d < v.num_clients
        PROVE  Keeps(v, w, d)
    BY <1>1, <1>5, <2>1, <2>2, <2>3 DEF Keeps, OthersStay
  <2> QED BY <1>1, <1>3, <2>1, <2>3 DEF KeepsSeats
<1> QED BY <1>2, <1>4, <1>5

(* No slot names the record of a client that is only connecting. *)
LEMMA JoinedManned ==
  ASSUME NEW v, Sound(v), Manned(v), v.num_clients < max_clients,
         NEW a \in Remote, NEW w, w = WithClient(v, a)
  PROVE  /\ Manned(w) /\ w.active = v.active /\ Seatable(w, v.num_clients)
         /\ v.num_clients \in ClientNum
         /\ w.num_clients \in v.num_clients .. max_clients
         /\ \A d \in ClientNum : d < v.num_clients => w.clients[d] = v.clients[d]
<1> DEFINE n == v.num_clients
<1>0. v \in Server
  BY DEF Sound
<1>1. /\ n \in ClientNum /\ w.num_clients = n + 1
      /\ w.slots = v.slots /\ w.active = v.active
      /\ \A d \in ClientNum \ {n} : w.clients[d] = v.clients[d]
  BY JoinedParts
<1>2. n < max_clients
  OBVIOUS
<1> HIDE DEF n
<1>a. max_clients \in Nat /\ \A d \in ClientNum : d \in Nat
  BY Bounds
<1>b. n \in Nat
  BY <1>1, <1>a
<1>3. n + 1 \in n .. max_clients
  BY <1>2, <1>a, <1>b
<1>4. \A d \in ClientNum : d < n => d # n /\ d < n + 1
  BY <1>a, <1>b
<1>5. ASSUME NEW s \in SlotNum, v.slots[s].occupied
      PROVE  /\ v.slots[s].client # n
             /\ v.slots[s].client < n + 1
             /\ v.slots[s].client > 0 => w.clients[v.slots[s].client].lobby_slot = s
  <2>1. /\ v.slots[s].client \in ClientNum /\ v.slots[s].client < n
        /\ v.slots[s].client > 0 => v.clients[v.slots[s].client].lobby_slot = s
    BY <1>0, <1>5, OccupantIsClient DEF n
  <2> QED BY <1>1, <1>4, <2>1
<1>6. Manned(w) /\ Seatable(w, n)
  BY <1>1, <1>5 DEF Manned, Occupant, Seatable, Unnamed
<1> QED BY <1>1, <1>3, <1>4, <1>6 DEF n

(* The steps: what they keep of the slots' occupants, and of the seats. *)
SlotsManned ==
  /\ state # "dead" => Manned(svs)
  /\ state = "lobby" => svs.active
SeatsStay ==
  (state = "lobby" /\ ((state' = "lobby" /\ world' = world) \/ state' = "game"))
    => KeepsSeats(svs, svs')

LEMMA StandsStep ==
  ASSUME IInv, SlotsManned, Stands(svs, svs'), UNCHANGED <<state, world>>
  PROVE  SlotsManned' /\ SeatsStay
<1>1. svs \in Server
  BY IInvParts DEF Sound
<1>2. Manned(svs) => Manned(svs')
  BY <1>1, StandsManned
<1>3. svs'.active = svs.active
  BY DEF Stands
<1>4. (Manned(svs))' <=> Manned(svs')
  BY DEF Manned, Occupant
<1>5. KeepsSeats(svs, svs')
  BY <1>1, StandsKeeps
<1> QED BY <1>2, <1>3, <1>4, <1>5 DEF SlotsManned, SeatsStay

LEMMA VacantServer ==
  /\ Vacant(EmptyServer) /\ Vacant([EmptyServer EXCEPT !.active = TRUE])
  /\ [EmptyServer EXCEPT !.active = TRUE].active
BY DEF Vacant, EmptyServer, NoSlots, EmptySlot

LEMMA StartLobbyStep ==
  ASSUME IInv, SlotsManned, NEW m \in Map, StartLobby(m)
  PROVE  SlotsManned' /\ SeatsStay
<1> DEFINE v == [EmptyServer EXCEPT !.active = TRUE]
<1>1. svs' = ConnectHost(v) /\ state' = "lobby" /\ world' = m
  BY DEF StartLobby
<1>2. v \in Server /\ Vacant(v) /\ v.active
  BY Empty, VacantServer
<1> HIDE DEF v
<1>3. Manned(svs') /\ svs'.active
  BY <1>1, <1>2, ConnectHostManned
<1>4. SlotsManned'
  BY <1>1, <1>3 DEF SlotsManned, Manned, Occupant
<1>5. ~(state = "lobby" /\ world = world')
  BY <1>1 DEF StartLobby
<1> QED BY <1>1, <1>4, <1>5 DEF SeatsStay

LEMMA StartMapStep ==
  ASSUME IInv, SlotsManned, NEW m \in Map, StartMap(m)
  PROVE  SlotsManned' /\ SeatsStay
<1>0. Sound(svs) /\ svs \in Server /\ state' = "game"
  BY IInvParts DEF Sound, StartMap
<1>1. CASE state = "lobby" /\ svs.num_clients > 0
  <2>1. Manned(svs) /\ svs' = Restored(svs)
    BY <1>1 DEF SlotsManned, StartMap
  <2>2. Stands(svs, svs')
    BY <1>0, <2>1, RestoredSound
  <2>3. Manned(svs') /\ KeepsSeats(svs, svs')
    BY <1>0, <2>1, <2>2, StandsManned, StandsKeeps
  <2> QED BY <1>0, <2>3 DEF SlotsManned, SeatsStay, Manned, Occupant
<1>2. CASE state = "lobby" /\ ~(svs.num_clients > 0)
  <2> DEFINE v == [svs EXCEPT !.clients = NoClients]
  <2>1. svs' = ConnectHost(v) /\ Manned(svs)
    BY <1>2 DEF SlotsManned, StartMap
  <2>2. svs.num_clients = 0
    <3>1. svs.num_clients \in 0 .. max_clients
      BY <1>0 DEF Server
    <3> QED BY <1>2, <3>1, Bounds
  <2>3. Vacant(svs)
    <3>1. ASSUME NEW s \in SlotNum, svs.slots[s].occupied PROVE FALSE
      <4>1. svs.slots[s].client \in ClientNum /\ svs.slots[s].client < 0
        BY <1>0, <2>1, <2>2, <3>1, OccupantIsClient
      <4>2. svs.slots[s].client \in Nat
        BY <4>1, Bounds
      <4> QED BY <4>1, <4>2
    <3> QED BY <3>1 DEF Vacant
  <2>4. v \in Server /\ v.slots = svs.slots
    BY <1>0, Empty DEF Server
  <2> HIDE DEF v
  <2>5. Manned(svs')
    BY <2>1, <2>3, <2>4, ConnectHostManned DEF Vacant
  <2>6. Sound(svs')
    BY <2>1, <2>4, ConnectHostSound
  <2>7. KeepsSeats(svs, svs')
    <3>1. svs'.num_clients \in 0 .. max_clients
      BY <2>6 DEF Sound, Server
    <3>2. ASSUME NEW d \in ClientNum, d < 0 PROVE FALSE
      BY <3>2, Bounds
    <3> QED BY <2>2, <3>1, <3>2 DEF KeepsSeats
  <2> QED BY <1>0, <2>5, <2>7 DEF SlotsManned, SeatsStay, Manned, Occupant
<1>3. CASE state # "lobby"
  <2>1. svs' = ConnectHost(EmptyServer)
    BY <1>3 DEF StartMap
  <2>2. Manned(svs')
    BY <2>1, Empty, VacantServer, ConnectHostManned
  <2> QED BY <1>0, <1>3, <2>2 DEF SlotsManned, SeatsStay, Manned, Occupant
<1> QED BY <1>1, <1>2, <1>3

(* The lobby is gone, and so is who sat in it. *)
LEMMA FailMapStep ==
  ASSUME NEW m \in Map, FailMap(m)
  PROVE  SlotsManned' /\ SeatsStay
BY DEF FailMap, SlotsManned, SeatsStay

LEMMA SetConfigStep ==
  ASSUME IInv, SlotsManned, NEW n \in 0 .. MAX_PLAYERS + 1, SetConfig(n)
  PROVE  SlotsManned' /\ SeatsStay
<1>1. svs \in Server
  BY IInvParts DEF Sound
<1>2. PICK count : svs' = [svs EXCEPT !.slot_count = count]
  BY DEF SetConfig
<1>3. Stands(svs, svs')
  BY <1>1, <1>2 DEF Server, Stands
<1>4. UNCHANGED <<state, world>>
  BY DEF SetConfig
<1> QED BY <1>3, <1>4, StandsStep

LEMMA SetSlotStep ==
  ASSUME IInv, SlotsManned, NEW s \in SlotNum, NEW config \in SlotConfig,
         SetSlot(s, config)
  PROVE  SlotsManned' /\ SeatsStay
<1>1. /\ Sound(svs) /\ svs' = SetSlotIn(svs, s, config)
      /\ UNCHANGED <<state, world>>
  BY IInvParts DEF SetSlot
<1>2. CASE state = "dead"
  BY <1>1, <1>2 DEF SlotsManned, SeatsStay
<1>3. CASE state # "dead"
  <2>1. Manned(svs)
    BY <1>3 DEF SlotsManned
  <2>2. Manned(svs') /\ svs'.active = svs.active /\ KeepsSeats(svs, svs')
    BY <1>1, <2>1, SetSlotInManned
  <2>3. (Manned(svs))'
    BY <2>2 DEF Manned, Occupant
  <2> QED BY <1>1, <2>2, <2>3 DEF SlotsManned, SeatsStay
<1> QED BY <1>2, <1>3

LEMMA DirectConnectStep ==
  ASSUME IInv, SlotsManned, NEW a \in Remote, DirectConnect(a)
  PROVE  SlotsManned' /\ SeatsStay
<1> DEFINE c == svs.num_clients
           v == WithClient(svs, a)
<1>1. /\ Sound(svs) /\ Manned(svs) /\ c < max_clients
      /\ UNCHANGED <<state, world>>
  BY IInvParts DEF DirectConnect, SlotsManned
<1>2. /\ Manned(v) /\ v.active = svs.active /\ Seatable(v, c)
      /\ c \in ClientNum /\ v.num_clients \in c .. max_clients
      /\ \A d \in ClientNum : d < c => v.clients[d] = svs.clients[d]
  BY <1>1, JoinedManned
<1>3. Sound(v)
  BY <1>1, WithClientSound
<1>4. svs' = AssignClient(v, c, FALSE) \/ svs' = v
  BY DEF DirectConnect
<1>5. \A d \in ClientNum : d < c => d # c
  BY <1>2, Bounds
<1> HIDE DEF v
<1>6. /\ Manned(svs') /\ svs'.active = svs.active
      /\ svs'.num_clients \in c .. max_clients
      /\ \A d \in ClientNum : d < c => svs'.clients[d] = svs.clients[d]
  <2>1. CASE svs' = v
    BY <1>2, <2>1
  <2>2. CASE svs' = AssignClient(v, c, FALSE)
    <3>1. /\ Manned(svs') /\ svs'.active = v.active
          /\ svs'.num_clients = v.num_clients
          /\ OthersStay(v, svs', c)
      BY <1>2, <1>3, <2>2, AssignClientManned
    <3> QED BY <1>2, <1>5, <3>1 DEF OthersStay
  <2> QED BY <1>4, <2>1, <2>2
<1>7. KeepsSeats(svs, svs')
  BY <1>6 DEF KeepsSeats, Keeps
<1>8. (Manned(svs))'
  BY <1>6 DEF Manned, Occupant
<1> QED BY <1>1, <1>6, <1>7, <1>8 DEF SlotsManned, SeatsStay

LEMMA RefuseConnectStep ==
  ASSUME IInv, SlotsManned, NEW a \in Remote, RefuseConnect(a)
  PROVE  SlotsManned' /\ SeatsStay
<1> DEFINE c == svs.num_clients
           r == FreeClient
<1>1. svs \in Server /\ c < max_clients /\ svs' = [svs EXCEPT !.clients[c] = r]
  BY IInvParts DEF RefuseConnect, Sound
<1>2. \A d \in ClientNum : d < c => d # c
  <2>1. c \in 0 .. max_clients
    BY <1>1 DEF Server
  <2> QED BY <2>1, Bounds
<1> HIDE DEF r
<1>3. Stands(svs, svs')
  <2>1. /\ svs'.num_clients = svs.num_clients /\ svs'.slots = svs.slots
        /\ svs'.active = svs.active
    BY <1>1 DEF Server
  <2>2. \A d \in ClientNum \ {c} : svs'.clients[d] = svs.clients[d]
    BY <1>1 DEF Server
  <2> QED BY <1>2, <2>1, <2>2 DEF Stands
<1>4. UNCHANGED <<state, world>>
  BY DEF RefuseConnect
<1> QED BY <1>3, <1>4, StandsStep

LEMMA PlayerInfoStep ==
  ASSUME IInv, SlotsManned, NEW c \in ClientNum, PlayerInfo(c)
  PROVE  SlotsManned' /\ SeatsStay
<1>1. svs \in Server
  BY IInvParts DEF Sound
<1>2. PICK e : svs' = [svs EXCEPT !.clients[c].edict = e]
  BY DEF PlayerInfo
<1>3. Stands(svs, svs')
  BY <1>1, <1>2 DEF Server, Client, Stands
<1>4. UNCHANGED <<state, world>>
  BY DEF PlayerInfo
<1> QED BY <1>3, <1>4, StandsStep

LEMMA BeginStep ==
  ASSUME IInv, SlotsManned, NEW c \in ClientNum, Begin(c)
  PROVE  SlotsManned' /\ SeatsStay
<1>1. svs \in Server
  BY IInvParts DEF Sound
<1>2. PICK e : svs' = [svs EXCEPT !.clients[c].cs = "spawned",
                                  !.clients[c].edict = e]
  BY DEF Begin
<1>3. Stands(svs, svs')
  BY <1>1, <1>2 DEF Server, Client, Stands
<1>4. UNCHANGED <<state, world>>
  BY DEF Begin
<1> QED BY <1>3, <1>4, StandsStep

LEMMA IdleStep ==
  ASSUME IInv, SlotsManned, UNCHANGED vars
  PROVE  SlotsManned' /\ SeatsStay
<1>1. Stands(svs, svs') /\ UNCHANGED <<state, world>>
  BY DEF vars, Stands
<1> QED BY <1>1, StandsStep

LEMMA NextStep ==
  ASSUME IInv, SlotsManned, [Next]_vars
  PROVE  SlotsManned' /\ SeatsStay
<1>1. ASSUME NEW m \in Map, StartLobby(m) PROVE SlotsManned' /\ SeatsStay
  BY <1>1, StartLobbyStep
<1>2. ASSUME NEW m \in Map, StartMap(m) PROVE SlotsManned' /\ SeatsStay
  BY <1>2, StartMapStep
<1>3. ASSUME NEW m \in Map, FailMap(m) PROVE SlotsManned' /\ SeatsStay
  BY <1>3, FailMapStep
<1>4. ASSUME NEW n \in 0 .. MAX_PLAYERS + 1, SetConfig(n)
      PROVE  SlotsManned' /\ SeatsStay
  BY <1>4, SetConfigStep
<1>5. ASSUME NEW s \in SlotNum, NEW config \in Config, SetSlot(s, config)
      PROVE  SlotsManned' /\ SeatsStay
  BY <1>5, ConfigAssumption, SetSlotStep
<1>6. ASSUME NEW a \in Remote, DirectConnect(a) PROVE SlotsManned' /\ SeatsStay
  BY <1>6, DirectConnectStep
<1>7. ASSUME NEW a \in Remote, RefuseConnect(a) PROVE SlotsManned' /\ SeatsStay
  BY <1>7, RefuseConnectStep
<1>8. ASSUME NEW c \in ClientNum, PlayerInfo(c) PROVE SlotsManned' /\ SeatsStay
  BY <1>8, PlayerInfoStep
<1>9. ASSUME NEW c \in ClientNum, Begin(c) PROVE SlotsManned' /\ SeatsStay
  BY <1>9, BeginStep
<1>10. CASE UNCHANGED vars
  BY <1>10, IdleStep
<1> QED BY <1>1, <1>2, <1>3, <1>4, <1>5, <1>6, <1>7, <1>8, <1>9, <1>10 DEF Next

(* Every occupied slot of a running server names a client that is seated   *)
(* there, whatever the host does to the other slots.                       *)
THEOREM SlotsAreManned == Spec => [](IInv /\ SlotsManned)
<1>1. Init => IInv /\ SlotsManned
  BY InitIInv DEF Init, SlotsManned
<1>2. IInv /\ SlotsManned /\ [Next]_vars => (IInv /\ SlotsManned)'
  BY NextIInv, NextStep
<1> QED BY <1>1, <1>2, PTL DEF Spec

(* A slot never keeps a player the host cannot see: while the server runs, *)
(* the occupant of a slot is connected, and a remote one sits there.       *)
THEOREM OccupantsAreSeated == Spec => []OccupantSeated
<1>1. SlotsManned => OccupantSeated
  BY DEF SlotsManned, Manned, OccupantSeated
<1> QED BY <1>1, SlotsAreManned, PTL

(* A remote client keeps its record, its address and its seat in every     *)
(* step inside one lobby and through the start of the game, unless the     *)
(* host takes that very slot from human players.                           *)
THEOREM SeatsAreKept == Spec => SeatKept
<1>1. ASSUME IInv, SeatsStay, NEW c \in ClientNum, 0 < c, c < svs.num_clients,
             svs.clients[c].lobby_slot < MAX_PLAYERS, state = "lobby",
             (state' = "lobby" /\ world' = world) \/ state' = "game"
      PROVE  c < svs'.num_clients /\ SameSeat(c)
  <2>1. KeepsSeats(svs, svs')
    BY <1>1 DEF SeatsStay
  <2>2. SameSeat(c)
    BY <1>1, <2>1 DEF KeepsSeats, Keeps, SameSeat, Closed
  <2>3. svs.num_clients \in 0 .. max_clients
    BY <1>1 DEF IInv, TypeOK
  <2>4. svs'.num_clients \in svs.num_clients .. max_clients
    BY <2>1 DEF KeepsSeats
  <2>5. c < svs'.num_clients
    BY <1>1, <2>3, <2>4, Bounds
  <2> QED BY <2>2, <2>5
<1>2. (IInv /\ SlotsManned) /\ [Next]_vars => [AllKeepSeats]_vars
  BY <1>1, NextStep DEF AllKeepSeats
<1> QED BY <1>2, SlotsAreManned, PTL DEF Spec, SeatKept

-----------------------------------------------------------------------------
(* The lobby under the host's own screen (LobbyScreen).  Its table: who    *)
(* occupies a slot can be seen there, and the host is where its slots say. *)

Counted(v) == \A s \in SlotNum : v.slots[s].occupied =>
                v.slots[s].visible /\ s < v.slot_count
HostOnce(v) == \A s \in SlotNum :
  v.slots[s].occupied /\ v.slots[s].client = 0 => v.clients[0].lobby_slot = s
Single(v) == Counted(v) /\ HostOnce(v)

SameTable(v, w) ==
  /\ w.slot_count = v.slot_count
  /\ \A s \in SlotNum : w.slots[s].visible = v.slots[s].visible

LEMMA VacantSingle ==
  ASSUME NEW v, Vacant(v)
  PROVE  Single(v)
BY DEF Vacant, Single, Counted, HostOnce

(* Who is not found among the slots that can be seen is in none, so that a *)
(* client is never seated twice, the host neither.                         *)
LEMMA UnassignedUnnamed ==
  ASSUME NEW v, Single(v), NEW c, ~ClientAssigned(v, c)
  PROVE  Unnamed(v, c)
BY DEF Single, Counted, ClientAssigned, Unnamed

LEMMA SeatedSingle ==
  ASSUME NEW v \in Server, Single(v), NEW c \in ClientNum, Unnamed(v, c),
         NEW s \in SlotNum, v.slots[s].visible, s < v.slot_count,
         NEW w, w = SeatedAt(v, c, s)
  PROVE  Single(w) /\ SameTable(v, w)
<1>1. /\ w.slot_count = v.slot_count
      /\ w.slots[s].visible = v.slots[s].visible
      /\ w.slots[s].client = c
      /\ \A t \in SlotNum \ {s} : w.slots[t] = v.slots[t]
      /\ w.clients[c].lobby_slot = s
      /\ \A d \in ClientNum \ {c} : w.clients[d] = v.clients[d]
  BY ONLY SeatedParts, v \in Server, w = SeatedAt(v, c, s), c \in ClientNum,
          s \in SlotNum
<1>2. 0 \in ClientNum
  BY Bounds
<1>3. SameTable(v, w)
  BY <1>1 DEF SameTable
<1>4. Counted(w)
  <2>1. ASSUME NEW t \in SlotNum, w.slots[t].occupied
        PROVE  w.slots[t].visible /\ t < w.slot_count
    <3>1. CASE t = s
      BY <1>1, <3>1
    <3>2. CASE t # s
      BY <1>1, <2>1, <3>2 DEF Single, Counted
    <3> QED BY <3>1, <3>2
  <2> QED BY <2>1 DEF Counted
<1>5. HostOnce(w)
  <2>1. ASSUME NEW t \in SlotNum, w.slots[t].occupied, w.slots[t].client = 0
        PROVE  w.clients[0].lobby_slot = t
    <3>1. CASE t = s
      BY <1>1, <2>1, <3>1
    <3>2. CASE t # s
      <4>1. v.slots[t].occupied /\ v.slots[t].client = 0
        BY <1>1, <2>1, <3>2
      <4>2. v.clients[0].lobby_slot = t /\ c # 0
        BY <4>1 DEF Single, HostOnce, Unnamed
      <4> QED BY <1>1, <1>2, <4>2
    <3> QED BY <3>1, <3>2
  <2> QED BY <2>1 DEF HostOnce
<1> QED BY <1>3, <1>4, <1>5 DEF Single

LEMMA AssignClientSingle ==
  ASSUME NEW v \in Server, Single(v), NEW c \in ClientNum, NEW host \in BOOLEAN,
         NEW w, w = AssignClient(v, c, host)
  PROVE  Single(w) /\ SameTable(v, w)
<1>0. SameTable(v, v)
  BY DEF SameTable
<1> DEFINE s == ChosenSlot(v, host)
<1>1. CASE NothingToAssign(v, c) \/ ~CanAssignToSlot(v, c, s)
  BY <1>0, <1>1 DEF AssignClient, AssignClientToSlot
<1>2. CASE ~NothingToAssign(v, c) /\ CanAssignToSlot(v, c, s)
  <2>1. w = SeatedAt(v, c, s)
    BY <1>2 DEF AssignClient, AssignClientToSlot, SeatedAt
  <2>2. Unnamed(v, c)
    BY <1>2, UnassignedUnnamed DEF NothingToAssign
  <2>3. s \in 0 .. MAX_PLAYERS /\ s < MAX_PLAYERS /\ s < v.slot_count
    BY <1>2, ChosenFree DEF CanAssignToSlot
  <2>4. v.slots[s].visible
    BY <1>2 DEF CanAssignToSlot
  <2> HIDE DEF s
  <2>5. s \in SlotNum
    BY <2>3, Bounds DEF SlotNum
  <2> QED BY <2>1, <2>2, <2>3, <2>4, <2>5, SeatedSingle
<1> QED BY <1>1, <1>2

LEMMA ConnectHostSingle ==
  ASSUME NEW v \in Server, Vacant(v), NEW w, w = ConnectHost(v)
  PROVE  Single(w) /\ SameTable(v, w)
<1> DEFINE u == WithRecord(v, 0, Joined(Loopback), 1)
<1>1. w = AssignClient(u, 0, TRUE)
  BY ConnectHostIs
<1>2. u \in Server /\ u.slots = v.slots /\ u.slot_count = v.slot_count
  BY HostJoined DEF Sound
<1> HIDE DEF u
<1>3. Single(u)
  BY <1>2, VacantSingle DEF Vacant
<1>4. Single(w) /\ SameTable(u, w)
  BY <1>1, <1>2, <1>3, AssignClientSingle, Bounds
<1> QED BY <1>2, <1>4 DEF SameTable

(* Nobody is where nobody was, and a slot that is given out to humans and  *)
(* free is for the host only if no other seat is the host's.               *)
LEMMA ConfiguredSingle ==
  ASSUME NEW v, Sound(v), Manned(v), Single(v), NEW s \in SlotNum,
         NEW config \in SlotConfig, config.visible,
         NEW w, w = Configured(v, s, config)
  PROVE  /\ Single(w)
         /\ w.slot_count = IF s >= v.slot_count THEN s + 1 ELSE v.slot_count
         /\ w.slots[s].visible
         /\ \A t \in SlotNum \ {s} : w.slots[t] = v.slots[t]
<1> DEFINE g == Grown(v, s, config)
           client == v.slots[s].client
           stays == config.type = "human" /\ v.slots[s].occupied
<1>0. v \in Server
  BY DEF Sound
<1>1. /\ g \in Server
      /\ g.num_clients = v.num_clients /\ g.clients = v.clients
      /\ g.slot_count = IF s >= v.slot_count THEN s + 1 ELSE v.slot_count
      /\ g.slots[s] = NewSlot(v, s, config)
      /\ \A t \in SlotNum \ {s} : g.slots[t] = v.slots[t]
  BY <1>0, GrownParts
<1>2. w = IF ~v.slots[s].occupied THEN g
          ELSE IF ~stays THEN ClearClientAssignment(g, client)
          ELSE IF client < v.num_clients
            THEN Reseated(g, client, s, config.map_player)
          ELSE g
  BY DEF Configured, Grown, NewSlot, Reseated
<1>3. /\ NewSlot(v, s, config).occupied = stays
      /\ stays => NewSlot(v, s, config).client = client
      /\ NewSlot(v, s, config).visible
  BY DEF NewSlot
<1>4. /\ config.map_player \in 0 .. MAX_PLAYERS
      /\ s \in 0 .. MAX_PLAYERS /\ MAX_PLAYERS \in 0 .. MAX_PLAYERS
  BY Bounds DEF SlotConfig, SlotNum
<1>5. v.slots[s].occupied => client \in ClientNum /\ client < v.num_clients
  BY <1>0, OccupantIsClient
<1>6. /\ 0 \in ClientNum
      /\ s < g.slot_count
      /\ \A t \in SlotNum : t < v.slot_count => t < g.slot_count
  <2> DEFINE n == g.slot_count
             m == v.slot_count
  <2>1. s \in Nat /\ m \in Nat
    BY <1>0, Bounds DEF Server
  <2>2. \A t \in SlotNum : t \in Nat
    BY Bounds
  <2>3. n = IF s >= m THEN s + 1 ELSE m
    BY <1>1
  <2> HIDE DEF g, n, m
  <2>4. s < n /\ \A t \in SlotNum : t < m => t < n
    BY <2>1, <2>2, <2>3
  <2> QED BY <2>4, Bounds DEF n, m
<1> HIDE DEF g
<1>7. /\ w.slots = g.slots /\ w.slot_count = g.slot_count
      /\ ~v.slots[s].occupied => w.clients = v.clients
      /\ v.slots[s].occupied =>
           /\ stays => w.clients[client].lobby_slot = s
           /\ \A d \in ClientNum \ {client} : w.clients[d] = v.clients[d]
  <2>1. CASE ~v.slots[s].occupied
    BY <1>1, <1>2, <2>1
  <2>2. CASE v.slots[s].occupied
    <3>1. PICK t \in 0 .. MAX_PLAYERS, p \in 0 .. MAX_PLAYERS :
            w = Reseated(g, client, t, p) /\ (stays => t = s)
      <4>1. CASE stays
        <5>1. w = Reseated(g, client, s, config.map_player)
          BY <1>2, <1>5, <2>2, <4>1
        <5> QED BY <1>4, <5>1
      <4>2. CASE ~stays
        <5>1. ~(client >= g.num_clients)
          <6>1. v.num_clients \in Nat /\ client \in Nat /\ client < v.num_clients
            BY <1>0, <1>5, <2>2, Bounds DEF Server
          <6> QED BY <1>1, <6>1
        <5>2. w = Reseated(g, client, MAX_PLAYERS, MAX_PLAYERS)
          BY <1>2, <2>2, <4>2, <5>1 DEF ClearClientAssignment, Reseated
        <5> QED BY <1>4, <4>2, <5>2
      <4> QED BY <4>1, <4>2
    <3>2. g \in Server /\ client \in ClientNum
      BY <1>1, <1>5, <2>2
    <3> HIDE DEF client, stays
    <3>3. /\ w.slots = g.slots /\ w.slot_count = g.slot_count
          /\ w.clients[client].lobby_slot = t
          /\ \A d \in ClientNum \ {client} : w.clients[d] = g.clients[d]
      BY <3>1, <3>2, ReseatedParts
    <3> QED BY <1>1, <2>2, <3>1, <3>3
  <2> QED BY <2>1, <2>2
<1>8. Counted(w)
  <2>1. ASSUME NEW t \in SlotNum, w.slots[t].occupied
        PROVE  w.slots[t].visible /\ t < w.slot_count
    <3>1. CASE t = s
      BY <1>1, <1>3, <1>6, <1>7, <3>1
    <3>2. CASE t # s
      <4>1. w.slots[t] = v.slots[t]
        BY <1>1, <1>7, <3>2
      <4>2. v.slots[t].visible /\ t < v.slot_count
        BY <2>1, <4>1 DEF Single, Counted
      <4> QED BY <1>6, <1>7, <4>1, <4>2
    <3> QED BY <3>1, <3>2
  <2> QED BY <2>1 DEF Counted
<1>9. HostOnce(w)
  <2>1. ASSUME NEW t \in SlotNum, w.slots[t].occupied, w.slots[t].client = 0
        PROVE  w.clients[0].lobby_slot = t
    <3>1. CASE t = s
      <4>1. stays /\ client = 0
        BY <1>1, <1>3, <1>7, <2>1, <3>1
      <4> QED BY <1>7, <3>1, <4>1
    <3>2. CASE t # s
      <4>1. v.slots[t].occupied /\ v.slots[t].client = 0
        BY <1>1, <1>7, <2>1, <3>2
      <4>2. v.clients[0].lobby_slot = t
        BY <4>1 DEF Single, HostOnce
      <4>3. v.slots[s].occupied => client # 0
        BY <3>2, <4>2 DEF Single, HostOnce
      <4> HIDE DEF client
      <4> QED BY <1>6, <1>7, <4>2, <4>3
    <3> QED BY <3>1, <3>2
  <2> QED BY <2>1 DEF HostOnce
<1>10. w.slots[s].visible /\ \A t \in SlotNum \ {s} : w.slots[t] = v.slots[t]
  BY <1>1, <1>3, <1>7
<1> QED BY <1>1, <1>7, <1>8, <1>9, <1>10 DEF Single

LEMMA SetSlotInSingle ==
  ASSUME NEW v, Sound(v), Manned(v), Single(v), NEW s \in SlotNum,
         NEW config \in SlotConfig, config.visible,
         NEW w, w = SetSlotIn(v, s, config)
  PROVE  /\ Single(w)
         /\ w.slot_count = IF s >= v.slot_count THEN s + 1 ELSE v.slot_count
         /\ w.slots[s].visible
         /\ \A t \in SlotNum \ {s} : w.slots[t].visible = v.slots[t].visible
<1> DEFINE u == Configured(v, s, config)
<1>1. /\ u \in Server /\ Single(u) /\ u.slots[s].visible
      /\ u.slot_count = IF s >= v.slot_count THEN s + 1 ELSE v.slot_count
      /\ \A t \in SlotNum \ {s} : u.slots[t] = v.slots[t]
  BY ConfiguredSound, ConfiguredSingle DEF Sound
<1>2. w = u \/ w = AssignClient(u, 0, TRUE)
  BY DEF SetSlotIn
<1> HIDE DEF u
<1>3. Single(w) /\ SameTable(u, w)
  <2>1. CASE w = u
    BY <1>1, <2>1 DEF SameTable
  <2>2. CASE w = AssignClient(u, 0, TRUE)
    BY <1>1, <2>2, AssignClientSingle, Bounds
  <2> QED BY <1>2, <2>1, <2>2
<1> QED BY <1>1, <1>3 DEF SameTable

LEMMA StandsSingle ==
  ASSUME NEW v \in Server, Manned(v), HostOnce(v), NEW w, Stands(v, w)
  PROVE  HostOnce(w)
<1>1. ASSUME NEW s \in SlotNum, v.slots[s].occupied, v.slots[s].client = 0
      PROVE  w.clients[0].lobby_slot = s
  <2>1. 0 \in ClientNum /\ 0 < v.num_clients
    BY <1>1, OccupantIsClient
  <2>2. v.clients[0].lobby_slot = s
    BY <1>1 DEF HostOnce
  <2> QED BY <2>1, <2>2 DEF Stands
<1> QED BY <1>1 DEF Stands, HostOnce

LEMMA JoinedSingle ==
  ASSUME NEW v, Sound(v), Manned(v), HostOnce(v), v.num_clients < max_clients,
         NEW a \in Remote, NEW w, w = WithClient(v, a)
  PROVE  /\ HostOnce(w) /\ SameTable(v, w)
         /\ Counted(v) => Single(w)
<1> DEFINE n == v.num_clients
<1>1. /\ w.slots = v.slots /\ w.slot_count = v.slot_count
      /\ \A d \in ClientNum \ {n} : w.clients[d] = v.clients[d]
  BY JoinedParts
<1>2. ASSUME NEW s \in SlotNum, v.slots[s].occupied, v.slots[s].client = 0
      PROVE  w.clients[0].lobby_slot = s
  <2>1. 0 \in ClientNum /\ 0 < n
    BY <1>2, OccupantIsClient DEF Sound
  <2>2. 0 # n
    BY <2>1
  <2>3. v.clients[0].lobby_slot = s
    BY <1>2 DEF HostOnce
  <2> QED BY <1>1, <2>1, <2>2, <2>3
<1>3. HostOnce(w)
  BY <1>1, <1>2 DEF HostOnce
<1> QED BY <1>1, <1>3 DEF SameTable, Single, Counted

-----------------------------------------------------------------------------
(* What travels between the screen and the server: packets to the host's   *)
(* client, and commands, which are for the slots that the map has.         *)
Offered == {s \in SlotNum : MapSlots[s].visible}
Places == SlotCount(MapSlots)

Packet == [kind : {"client_connect"}]
            \cup [kind : {"lobby_setup"}, slots : [SlotNum -> SlotConfig]]
Command == [cmd : {"lobby_start", "map"}]
             \cup [cmd : {"lobby_config"}, slots : {Places}]
             \cup [cmd : {"lobby_slot"}, slot : Offered,
                   config : {config \in SlotConfig : config.visible}]

LEMMA LeastOf ==
  ASSUME NEW S, S \subseteq Nat, S # {}
  PROVE  \E s \in S : \A t \in S : s <= t
<1>1. PICK s \in S : \A t \in S : <<t, s>> \notin OpToRel(<, Nat)
  BY NatLessThanWellFounded, WFMin
<1>2. \A t \in S : ~(t < s)
  BY <1>1, Zenon DEF OpToRel
<1> QED BY <1>2

(* The slots of a map are the first ones of the table. *)
LEMMA PlacesAre ==
  Places \in 0 .. MAX_PLAYERS /\ Offered = 0 .. Places - 1
<1>1. PICK n \in 0 .. MAX_PLAYERS : Offered = 0 .. n - 1
  <2>1. CASE Offered = SlotNum
    <3>1. MAX_PLAYERS \in 0 .. MAX_PLAYERS
      BY Bounds
    <3> QED BY <2>1, <3>1 DEF SlotNum
  <2>2. CASE Offered # SlotNum
    <3>1. Offered \subseteq SlotNum
      BY DEF Offered
    <3>2. SlotNum \ Offered # {} /\ SlotNum \ Offered \subseteq Nat
      BY <2>2, <3>1, Bounds
    <3>3. PICK n \in SlotNum \ Offered : \A t \in SlotNum \ Offered : n <= t
      BY <3>2, LeastOf
    <3>4. ASSUME NEW s \in SlotNum
          PROVE  s \in Offered <=> s < n
      <4>1. s \in Nat /\ n \in Nat
        BY Bounds
      <4>2. s < n => s \in Offered
        BY <3>3, <4>1
      <4>3. ~(s < n) => s \notin Offered
        <5>1. SUFFICES ASSUME n <= s, s \in Offered PROVE FALSE
          BY <4>1
        <5>2. n \in 0 .. s
          BY <4>1, <5>1
        <5>3. MapSlots[n].visible
          BY <5>1, <5>2, MapSlotsAssumption DEF Offered
        <5> QED BY <5>3 DEF Offered
      <4> QED BY <4>2, <4>3
    <3>5. n \in 0 .. MAX_PLAYERS /\ n <= MAX_PLAYERS /\ MAX_PLAYERS \in Nat
      BY Bounds DEF SlotNum
    <3>6. \A s : s \in 0 .. n - 1 <=> s \in SlotNum /\ s < n
      BY <3>5 DEF SlotNum
    <3>7. Offered = 0 .. n - 1
      BY <3>1, <3>4, <3>6
    <3> QED BY <3>5, <3>7
  <2> QED BY <2>1, <2>2
<1>2. Places = Cardinality(Offered)
  BY DEF Places, SlotCount, Offered
<1>3. n \in Nat /\ 0 \in Int /\ n - 1 \in Int
  OBVIOUS
<1>4. Cardinality(0 .. n - 1) = n
  BY <1>3, FS_Interval
<1> QED BY <1>1, <1>2, <1>4

(* A table with these slots publishes as many. *)
Full(conf) == \A s \in SlotNum : conf[s].visible <=> s \in Offered

LEMMA FullCount ==
  ASSUME NEW conf, Full(conf)
  PROVE  SlotCount(conf) = Places
<1>1. {s \in SlotNum : conf[s].visible} = {s \in SlotNum : MapSlots[s].visible}
  BY DEF Full, Offered
<1> QED BY <1>1 DEF SlotCount, Places

-----------------------------------------------------------------------------
(* What lies ahead in a sequence of commands. *)
Ahead(q, i, C) == \E j \in i .. Len(q) : q[j] \in C

LEMMA AheadConcat ==
  ASSUME NEW S, NEW q \in Seq(S), NEW r \in Seq(S), NEW C
  PROVE  /\ \A i \in 1 .. Len(q) + 1 : Ahead(q, i, C) => Ahead(q \o r, i, C)
         /\ \A i \in 1 .. Len(r) + 1 :
              Ahead(r, i, C) => Ahead(q \o r, Len(q) + i, C)
<1>1. Len(q) \in Nat /\ Len(r) \in Nat
  BY LenProperties
<1>2. /\ Len(q \o r) = Len(q) + Len(r)
      /\ \A i \in 1 .. Len(q) + Len(r) :
           (q \o r)[i] = IF i <= Len(q) THEN q[i] ELSE r[i - Len(q)]
  BY ConcatProperties
<1>3. ASSUME NEW i \in 1 .. Len(q) + 1, NEW j \in i .. Len(q), q[j] \in C
      PROVE  Ahead(q \o r, i, C)
  <2>1. j \in i .. Len(q \o r) /\ (q \o r)[j] = q[j]
    BY <1>1, <1>2
  <2> QED BY <1>3, <2>1 DEF Ahead
<1>4. ASSUME NEW i \in 1 .. Len(r) + 1, NEW j \in i .. Len(r), r[j] \in C
      PROVE  Ahead(q \o r, Len(q) + i, C)
  <2>1. /\ Len(q) + j \in Len(q) + i .. Len(q \o r)
        /\ Len(q) + j \in 1 .. Len(q) + Len(r)
        /\ ~(Len(q) + j <= Len(q)) /\ Len(q) + j - Len(q) = j
    BY <1>1, <1>2
  <2>2. (q \o r)[Len(q) + j] = r[j]
    BY <1>2, <2>1
  <2> QED BY <1>4, <2>1, <2>2 DEF Ahead
<1> QED BY <1>3, <1>4 DEF Ahead

LEMMA AheadTail ==
  ASSUME NEW S, NEW q \in Seq(S), q # <<>>, NEW C
  PROVE  /\ \A i \in 1 .. Len(q) : Ahead(q, i + 1, C) => Ahead(Tail(q), i, C)
         /\ Ahead(q, 1, C) /\ Head(q) \notin C => Ahead(Tail(q), 1, C)
<1>1. /\ Len(q) \in Nat /\ Len(Tail(q)) = Len(q) - 1
      /\ \A i \in 1 .. Len(Tail(q)) : Tail(q)[i] = q[i + 1]
  BY LenProperties, HeadTailProperties
<1>2. ASSUME NEW i \in 1 .. Len(q), NEW j \in i + 1 .. Len(q), q[j] \in C
      PROVE  Ahead(Tail(q), i, C)
  <2>1. j - 1 \in i .. Len(Tail(q)) /\ j - 1 \in 1 .. Len(Tail(q)) /\ j - 1 + 1 = j
    BY <1>1
  <2>2. Tail(q)[j - 1] = q[j]
    BY <1>1, <2>1
  <2> QED BY <1>2, <2>1, <2>2 DEF Ahead
<1>3. ASSUME Head(q) \notin C, NEW j \in 1 .. Len(q), q[j] \in C
      PROVE  Ahead(Tail(q), 1, C)
  <2>1. Head(q) = q[1]
    OBVIOUS
  <2>2. j # 1
    BY <1>3, <2>1
  <2>3. j \in 1 + 1 .. Len(q) /\ 1 \in 1 .. Len(q)
    BY <1>1, <2>2
  <2> QED BY <1>2, <1>3, <2>3
<1> QED BY <1>2, <1>3 DEF Ahead

(* A lobby that is opened is configured right after, and nothing comes     *)
(* after the start of the game.                                            *)
ConfigCommands == {c \in Command : c.cmd = "lobby_config"}
SlotCommands(s) == {c \in Command : c.cmd = "lobby_slot" /\ c.slot = s}
Needed == {ConfigCommands} \cup {SlotCommands(s) : s \in Offered}

StartsFollowed(q) ==
  \A i \in 1 .. Len(q) : q[i].cmd = "lobby_start" =>
    \A C \in Needed : Ahead(q, i + 1, C)
NoMapIn(q) == \A i \in 1 .. Len(q) : q[i].cmd # "map"
MapLast(q) == \A i \in 1 .. Len(q) : q[i].cmd = "map" => i = Len(q)

LEMMA TextAdded ==
  ASSUME NEW q \in Seq(Command), NEW r \in Seq(Command),
         StartsFollowed(q), StartsFollowed(r), NoMapIn(q)
  PROVE  /\ q \o r \in Seq(Command) /\ StartsFollowed(q \o r)
         /\ NoMapIn(r) => NoMapIn(q \o r)
         /\ MapLast(r) => MapLast(q \o r)
         /\ r # <<>> => q \o r # <<>>
<1>1. Len(q) \in Nat /\ Len(r) \in Nat
  BY LenProperties
<1>2. /\ q \o r \in Seq(Command)
      /\ Len(q \o r) = Len(q) + Len(r)
      /\ \A i \in 1 .. Len(q) + Len(r) :
           (q \o r)[i] = IF i <= Len(q) THEN q[i] ELSE r[i - Len(q)]
  BY ConcatProperties
<1>3. ASSUME NEW i \in 1 .. Len(q \o r)
      PROVE  \/ i \in 1 .. Len(q) /\ (q \o r)[i] = q[i]
             \/ \E k \in 1 .. Len(r) : i = Len(q) + k /\ (q \o r)[i] = r[k]
  <2>1. CASE i <= Len(q)
    BY <1>1, <1>2, <2>1
  <2>2. CASE ~(i <= Len(q))
    <3>1. i - Len(q) \in 1 .. Len(r) /\ i = Len(q) + (i - Len(q))
      BY <1>1, <1>2, <2>2
    <3>2. (q \o r)[i] = r[i - Len(q)]
      BY <1>2, <2>2
    <3> QED BY <3>1, <3>2
  <2> QED BY <2>1, <2>2
<1>4. StartsFollowed(q \o r)
  <2>1. SUFFICES ASSUME NEW i \in 1 .. Len(q \o r),
                        (q \o r)[i].cmd = "lobby_start", NEW C \in Needed
                 PROVE  Ahead(q \o r, i + 1, C)
    BY DEF StartsFollowed
  <2>2. CASE i \in 1 .. Len(q) /\ (q \o r)[i] = q[i]
    <3>1. Ahead(q, i + 1, C) /\ i + 1 \in 1 .. Len(q) + 1
      BY <1>1, <2>1, <2>2 DEF StartsFollowed
    <3> QED BY <3>1, AheadConcat
  <2>3. ASSUME NEW k \in 1 .. Len(r), i = Len(q) + k, (q \o r)[i] = r[k]
        PROVE  Ahead(q \o r, i + 1, C)
    <3>1. Ahead(r, k + 1, C) /\ k + 1 \in 1 .. Len(r) + 1
      BY <1>1, <2>1, <2>3 DEF StartsFollowed
    <3>2. Ahead(q \o r, Len(q) + (k + 1), C)
      BY <3>1, AheadConcat
    <3>3. Len(q) + (k + 1) = i + 1
      BY <1>1, <2>3
    <3> QED BY <3>2, <3>3
  <2> QED BY <1>3, <2>2, <2>3
<1>5. NoMapIn(r) => NoMapIn(q \o r)
  BY <1>3 DEF NoMapIn
<1>6. MapLast(r) => MapLast(q \o r)
  <2>1. SUFFICES ASSUME MapLast(r), NEW i \in 1 .. Len(q \o r),
                        (q \o r)[i].cmd = "map"
                 PROVE  i = Len(q \o r)
    BY DEF MapLast
  <2>2. PICK k \in 1 .. Len(r) : i = Len(q) + k /\ (q \o r)[i] = r[k]
    BY <1>3, <2>1 DEF NoMapIn
  <2>3. k = Len(r)
    BY <2>1, <2>2 DEF MapLast
  <2> QED BY <1>2, <2>2, <2>3
<1>7. r # <<>> => q \o r # <<>>
  BY ConcatEqualIffEmpty
<1> QED BY <1>2, <1>4, <1>5, <1>6, <1>7

LEMMA TextRun ==
  ASSUME NEW q \in Seq(Command), q # <<>>, StartsFollowed(q)
  PROVE  /\ Head(q) \in Command /\ Tail(q) \in Seq(Command)
         /\ StartsFollowed(Tail(q))
         /\ NoMapIn(q) => NoMapIn(Tail(q))
         /\ MapLast(q) => MapLast(Tail(q)) /\ (Head(q).cmd = "map" => Tail(q) = <<>>)
         /\ Head(q).cmd = "lobby_start" =>
              \A C \in Needed : Ahead(Tail(q), 1, C)
<1>1. /\ Len(q) \in Nat /\ Len(Tail(q)) = Len(q) - 1 /\ Len(q) > 0
      /\ Head(q) \in Command /\ Tail(q) \in Seq(Command)
      /\ \A i \in 1 .. Len(Tail(q)) : Tail(q)[i] = q[i + 1]
  BY LenProperties, HeadTailProperties, EmptySeq
<1>2. Head(q) = q[1] /\ 1 \in 1 .. Len(q)
  BY <1>1
<1>3. \A i \in 1 .. Len(Tail(q)) : i + 1 \in 1 .. Len(q)
  BY <1>1
<1>4. StartsFollowed(Tail(q))
  <2>1. SUFFICES ASSUME NEW i \in 1 .. Len(Tail(q)),
                        Tail(q)[i].cmd = "lobby_start", NEW C \in Needed
                 PROVE  Ahead(Tail(q), i + 1, C)
    BY DEF StartsFollowed
  <2>2. Ahead(q, i + 1 + 1, C)
    BY <1>1, <1>3, <2>1 DEF StartsFollowed
  <2>3. i + 1 \in 1 .. Len(q)
    BY <1>3
  <2> QED BY <2>2, <2>3, AheadTail
<1>5. NoMapIn(q) => NoMapIn(Tail(q))
  BY <1>1, <1>3 DEF NoMapIn
<1>6. ASSUME MapLast(q)
      PROVE  MapLast(Tail(q)) /\ (Head(q).cmd = "map" => Tail(q) = <<>>)
  <2>1. ASSUME NEW i \in 1 .. Len(Tail(q)), Tail(q)[i].cmd = "map"
        PROVE  i = Len(Tail(q))
    <3>1. i + 1 = Len(q)
      BY <1>1, <1>3, <1>6, <2>1 DEF MapLast
    <3> DEFINE m == Len(q)
               n == Len(Tail(q))
    <3>2. m \in Nat /\ n = m - 1
      BY <1>1
    <3>3. i + 1 = m /\ i \in 1 .. n
      BY <2>1, <3>1
    <3> HIDE DEF m, n
    <3>4. i = n
      BY <3>2, <3>3
    <3> QED BY <3>4 DEF n
  <2>2. ASSUME Head(q).cmd = "map" PROVE Tail(q) = <<>>
    <3>1. 1 = Len(q)
      BY <1>2, <1>6, <2>2 DEF MapLast
    <3>2. Len(Tail(q)) = Len(q) - 1
      BY <1>1
    <3>3. Len(Tail(q)) = 0
      BY <3>1, <3>2
    <3> QED BY <1>1, <3>3, EmptySeq
  <2> QED BY <2>1, <2>2 DEF MapLast
<1>7. ASSUME Head(q).cmd = "lobby_start", NEW C \in Needed
      PROVE  Ahead(Tail(q), 1, C)
  <2>1. Ahead(q, 1 + 1, C)
    BY <1>2, <1>7 DEF StartsFollowed
  <2> QED BY <1>2, <2>1, AheadTail
<1> QED BY <1>1, <1>4, <1>5, <1>6, <1>7

(* The texts that the clicks append. *)
LEMMA SlotText ==
  ASSUME NEW conf \in [SlotNum -> SlotConfig], NEW s \in Offered,
         conf[s].visible, NEW r, r = LobbySlot(conf, s)
  PROVE  r \in Seq(Command) /\ StartsFollowed(r) /\ NoMapIn(r) /\ r # <<>>
<1> DEFINE e == [cmd |-> "lobby_slot", slot |-> s, config |-> conf[s]]
<1>1. s \in SlotNum
  BY DEF Offered
<1>2. e \in Command
  BY <1>1 DEF Command
<1>3. r = <<e>> /\ e.cmd = "lobby_slot"
  BY DEF LobbySlot
<1> HIDE DEF e
<1>4. r \in Seq(Command) /\ Len(r) = 1 /\ r[1] = e /\ r # <<>>
  BY <1>2, <1>3
<1> QED BY <1>3, <1>4 DEF StartsFollowed, NoMapIn

LEMMA SlotsText ==
  ASSUME NEW conf \in [SlotNum -> SlotConfig], Full(conf),
         NEW r, r = LobbySlots(conf)
  PROVE  /\ r \in Seq(Command) /\ Len(r) = Places
         /\ \A i \in 1 .. Places : r[i].cmd = "lobby_slot" /\ r[i].slot = i - 1
<1>1. Places \in Nat /\ Places <= MAX_PLAYERS /\ Offered = 0 .. Places - 1
  BY PlacesAre, Bounds
<1>2. r = [i \in 1 .. Places |->
             [cmd |-> "lobby_slot", slot |-> i - 1, config |-> conf[i - 1]]]
  BY FullCount DEF LobbySlots, LobbySlot
<1>3. ASSUME NEW i \in 1 .. Places
      PROVE  r[i] \in Command /\ r[i].cmd = "lobby_slot" /\ r[i].slot = i - 1
  <2>1. i - 1 \in Offered
    BY <1>1
  <2>2. i - 1 \in SlotNum
    BY <2>1 DEF Offered
  <2>3. conf[i - 1] \in SlotConfig /\ conf[i - 1].visible
    BY <2>1, <2>2 DEF Full
  <2>4. r[i] = [cmd |-> "lobby_slot", slot |-> i - 1, config |-> conf[i - 1]]
    BY <1>2
  <2> QED BY <2>1, <2>3, <2>4 DEF Command
<1>4. r \in [1 .. Places -> Command]
  BY <1>2, <1>3
<1>5. r \in Seq(Command) /\ Len(r) = Places
  BY <1>1, <1>4
<1> QED BY <1>3, <1>5

LEMMA ConfigText ==
  ASSUME NEW conf, Full(conf), NEW r, r = LobbyConfig(conf)
  PROVE  r \in Seq(Command) /\ Len(r) = 1 /\ r[1].cmd = "lobby_config"
<1> DEFINE e == [cmd |-> "lobby_config", slots |-> Places]
<1>1. e \in Command /\ e.cmd = "lobby_config"
  BY DEF Command
<1>2. r = <<e>>
  BY FullCount DEF LobbyConfig
<1> HIDE DEF e
<1> QED BY <1>1, <1>2

LEMMA SetupText ==
  ASSUME NEW conf \in [SlotNum -> SlotConfig], Full(conf),
         NEW r, r = LobbyConfig(conf) \o LobbySlots(conf)
  PROVE  /\ r \in Seq(Command) /\ r # <<>>
         /\ \A i \in 1 .. Len(r) : r[i].cmd \in {"lobby_config", "lobby_slot"}
         /\ \A C \in Needed : Ahead(r, 1, C)
<1> DEFINE a == LobbyConfig(conf)
           b == LobbySlots(conf)
<1>1. /\ a \in Seq(Command) /\ Len(a) = 1 /\ a[1].cmd = "lobby_config"
      /\ b \in Seq(Command) /\ Len(b) = Places
      /\ \A i \in 1 .. Places : b[i].cmd = "lobby_slot" /\ b[i].slot = i - 1
  BY ConfigText, SlotsText
<1>2. r = a \o b
  OBVIOUS
<1> HIDE DEF a, b
<1>3. Places \in Nat /\ Offered = 0 .. Places - 1
  BY PlacesAre, Bounds
<1>4. /\ r \in Seq(Command) /\ Len(r) = 1 + Places
      /\ \A i \in 1 .. 1 + Places : r[i] = IF i <= 1 THEN a[i] ELSE b[i - 1]
  <2>1. a \in Seq(Command) /\ b \in Seq(Command)
    BY <1>1
  <2>2. /\ a \o b \in Seq(Command) /\ Len(a \o b) = Len(a) + Len(b)
        /\ \A i \in 1 .. Len(a) + Len(b) :
             (a \o b)[i] = IF i <= Len(a) THEN a[i] ELSE b[i - Len(a)]
    BY <2>1, ConcatProperties
  <2>3. Len(a) = 1 /\ Len(b) = Places
    BY <1>1
  <2> QED BY <1>2, <2>2, <2>3
<1>5. r[1] = a[1]
  BY <1>3, <1>4
<1>6. ASSUME NEW i \in 1 .. Places PROVE r[i + 1] = b[i]
  BY <1>3, <1>4
<1>7. ASSUME NEW i \in 1 .. Len(r)
      PROVE  r[i].cmd \in {"lobby_config", "lobby_slot"}
  <2>1. CASE i = 1
    BY <1>1, <1>5, <2>1
  <2>2. CASE i # 1
    <3>1. i - 1 \in 1 .. Places
      BY <1>3, <1>4, <2>2
    <3>2. r[i] = b[i - 1]
      BY <1>3, <1>4, <2>2
    <3> QED BY <1>1, <3>1, <3>2
  <2> QED BY <2>1, <2>2
<1>8. Ahead(r, 1, ConfigCommands)
  <2>1. 1 \in 1 .. Len(r)
    BY <1>3, <1>4
  <2>2. r[1] \in Command
    BY <1>4, <2>1, ElementOfSeq
  <2> QED BY <1>1, <1>5, <2>1, <2>2 DEF Ahead, ConfigCommands
<1>9. ASSUME NEW i \in 1 .. Places PROVE Ahead(r, 1, SlotCommands(i - 1))
  <2>1. i + 1 \in 1 .. Len(r) /\ r[i + 1] = b[i]
    BY <1>3, <1>4, <1>6
  <2>2. r[i + 1] \in Command
    BY <1>4, <2>1, ElementOfSeq
  <2>3. b[i].cmd = "lobby_slot" /\ b[i].slot = i - 1
    BY <1>1
  <2> QED BY <2>1, <2>2, <2>3 DEF Ahead, SlotCommands
<1>11. ASSUME NEW s \in Offered PROVE Ahead(r, 1, SlotCommands(s))
  <2> DEFINE i == s + 1
  <2>1. i \in 1 .. Places /\ i - 1 = s
    BY <1>3
  <2> HIDE DEF i
  <2>2. Ahead(r, 1, SlotCommands(i - 1))
    BY <1>9, <2>1
  <2> QED BY <2>1, <2>2
<1>10. r # <<>>
  BY <1>3, <1>4, EmptySeq
<1> QED BY <1>4, <1>7, <1>8, <1>10, <1>11 DEF Needed

LEMMA PublishText ==
  ASSUME NEW conf \in [SlotNum -> SlotConfig], Full(conf),
         NEW r, r = PublishLobby(conf)
  PROVE  r \in Seq(Command) /\ StartsFollowed(r) /\ NoMapIn(r) /\ r # <<>>
<1> DEFINE a == <<[cmd |-> "lobby_start"]>>
           b == LobbyConfig(conf) \o LobbySlots(conf)
<1>1. /\ b \in Seq(Command)
      /\ \A i \in 1 .. Len(b) : b[i].cmd \in {"lobby_config", "lobby_slot"}
      /\ \A C \in Needed : Ahead(b, 1, C)
  BY SetupText
<1>2. a \in Seq(Command) /\ Len(a) = 1 /\ a[1].cmd = "lobby_start" /\ a # <<>>
  BY DEF Command
<1>3. r = a \o b
  <2>1. LobbyConfig(conf) \in Seq(Command) /\ LobbySlots(conf) \in Seq(Command)
    BY ConfigText, SlotsText
  <2> HIDE DEF a
  <2> QED BY <1>2, <2>1, ConcatAssociative DEF PublishLobby, a
<1> HIDE DEF a, b
<1>4. Len(b) \in Nat
  BY <1>1, LenProperties
<1>5. /\ r \in Seq(Command) /\ Len(r) = 1 + Len(b)
      /\ \A i \in 1 .. 1 + Len(b) : r[i] = IF i <= 1 THEN a[i] ELSE b[i - 1]
  <2>1. a \in Seq(Command) /\ b \in Seq(Command)
    BY <1>1, <1>2
  <2>2. /\ a \o b \in Seq(Command) /\ Len(a \o b) = Len(a) + Len(b)
        /\ \A i \in 1 .. Len(a) + Len(b) :
             (a \o b)[i] = IF i <= Len(a) THEN a[i] ELSE b[i - Len(a)]
    BY <2>1, ConcatProperties
  <2>3. Len(a) = 1
    BY <1>2
  <2> QED BY <1>3, <2>2, <2>3
<1>6. r[1] = a[1]
  BY <1>4, <1>5
<1>7. ASSUME NEW i \in 1 .. Len(r), i # 1
      PROVE  r[i].cmd \in {"lobby_config", "lobby_slot"}
  <2>1. i - 1 \in 1 .. Len(b) /\ r[i] = b[i - 1]
    BY <1>4, <1>5, <1>7
  <2> QED BY <1>1, <2>1
<1>8. ASSUME NEW C \in Needed PROVE Ahead(r, 1 + 1, C)
  <2>1. Ahead(b, 1, C) /\ 1 \in 1 .. Len(b) + 1
    BY <1>1, <1>4
  <2> QED BY <1>1, <1>2, <1>3, <2>1, AheadConcat
<1>9. NoMapIn(r)
  BY <1>2, <1>6, <1>7 DEF NoMapIn
<1>10. StartsFollowed(r)
  BY <1>7, <1>8 DEF StartsFollowed
<1>11. r # <<>>
  BY <1>4, <1>5, EmptySeq
<1> QED BY <1>5, <1>9, <1>10, <1>11

LEMMA StartText ==
  ASSUME NEW conf \in [SlotNum -> SlotConfig], Full(conf),
         NEW r, r = StartGame(conf)
  PROVE  r \in Seq(Command) /\ StartsFollowed(r) /\ MapLast(r)
<1> DEFINE a == LobbyConfig(conf) \o LobbySlots(conf)
           b == <<[cmd |-> "map"]>>
<1>1. /\ a \in Seq(Command)
      /\ \A i \in 1 .. Len(a) : a[i].cmd \in {"lobby_config", "lobby_slot"}
  BY SetupText
<1>2. b \in Seq(Command) /\ Len(b) = 1 /\ b[1].cmd = "map"
  BY DEF Command
<1>3. r = a \o b
  BY DEF StartGame
<1> HIDE DEF a, b
<1>4. Len(a) \in Nat
  BY <1>1, LenProperties
<1>5. /\ r \in Seq(Command) /\ Len(r) = Len(a) + 1
      /\ \A i \in 1 .. Len(a) + 1 : r[i] = IF i <= Len(a) THEN a[i] ELSE b[i - Len(a)]
  <2>1. a \in Seq(Command) /\ b \in Seq(Command)
    BY <1>1, <1>2
  <2>2. /\ a \o b \in Seq(Command) /\ Len(a \o b) = Len(a) + Len(b)
        /\ \A i \in 1 .. Len(a) + Len(b) :
             (a \o b)[i] = IF i <= Len(a) THEN a[i] ELSE b[i - Len(a)]
    BY <2>1, ConcatProperties
  <2>3. Len(b) = 1
    BY <1>2
  <2> QED BY <1>3, <2>2, <2>3
<1>6. ASSUME NEW i \in 1 .. Len(r)
      PROVE  /\ r[i].cmd # "lobby_start"
             /\ r[i].cmd = "map" => i = Len(r)
  <2>1. CASE i <= Len(a)
    <3>1. i \in 1 .. Len(a) /\ r[i] = a[i]
      BY <1>4, <1>5, <2>1
    <3> QED BY <1>1, <3>1
  <2>2. CASE ~(i <= Len(a))
    <3>1. i = Len(a) + 1 /\ i - Len(a) = 1
      BY <1>4, <1>5, <2>2
    <3>2. r[i] = b[1]
      BY <1>5, <2>2, <3>1
    <3> QED BY <1>2, <1>5, <3>1, <3>2
  <2> QED BY <2>1, <2>2
<1> QED BY <1>5, <1>6 DEF StartsFollowed, MapLast

-----------------------------------------------------------------------------
(* The packets on their way: the last setup is what the screen will show.  *)
LEMMA SetupType ==
  ASSUME NEW v \in Server
  PROVE  /\ SetupOf(v) \in [SlotNum -> SlotConfig] /\ Setup(v) \in Packet
         /\ Setup(v).kind = "lobby_setup" /\ Setup(v).slots = SetupOf(v)
<1>1. NoConfig \in SlotConfig
  BY Bounds DEF NoConfig, SlotConfig, SlotType
<1>2. ASSUME NEW s \in SlotNum PROVE SetupOf(v)[s] \in SlotConfig
  <2>1. v.slots[s] \in Slot
    BY DEF Server
  <2>2. /\ v.slots[s].visible \in BOOLEAN /\ v.slots[s].type \in SlotType
        /\ v.slots[s].map_player \in 0 .. MAX_PLAYERS
        /\ MAX_PLAYERS \in 0 .. MAX_PLAYERS
    BY <2>1, Bounds DEF Slot
  <2>3. CASE s >= v.slot_count
    BY <1>1, <2>3 DEF SetupOf
  <2>4. CASE ~(s >= v.slot_count)
    BY <2>2, <2>4 DEF SetupOf, SlotConfig
  <2> QED BY <2>3, <2>4
<1>3. SetupOf(v) \in [SlotNum -> SlotConfig]
  BY <1>2 DEF SetupOf
<1> QED BY <1>3 DEF Setup, Packet

LEMMA LatestIs ==
  ASSUME NEW q, NEW i \in SetupsIn(q), \A j \in SetupsIn(q) : j <= i
  PROVE  Latest(SetupsIn(q)) = i
<1>1. SetupsIn(q) \subseteq Int
  BY DEF SetupsIn
<1> DEFINE S == SetupsIn(q)
           l == Latest(S)
<1>2. i \in S /\ \A j \in S : j <= i
  OBVIOUS
<1>3. l \in S /\ \A j \in S : j <= l
  <2> HIDE DEF S
  <2> QED BY <1>2 DEF Latest
<1>4. l <= i /\ i <= l /\ l \in Int /\ i \in Int
  BY <1>1, <1>2, <1>3
<1> HIDE DEF S, l
<1>5. l = i
  BY <1>4
<1> QED BY <1>5 DEF S, l

LEMMA LatestIn ==
  ASSUME NEW q \in Seq(Packet), SetupsIn(q) # {}
  PROVE  /\ Latest(SetupsIn(q)) \in SetupsIn(q)
         /\ \A j \in SetupsIn(q) : j <= Latest(SetupsIn(q))
<1> DEFINE n == Len(q)
           S == SetupsIn(q)
           D == {n - i : i \in S}
<1>1. n \in Nat /\ S \subseteq 1 .. n /\ S # {}
  BY LenProperties DEF SetupsIn
<1> HIDE DEF n, S
<1>2. D \subseteq Nat /\ D # {}
  <2>1. ASSUME NEW i \in S PROVE n - i \in Nat
    <3>1. i \in 1 .. n
      BY <1>1, <2>1
    <3> QED BY <1>1, <3>1
  <2> QED BY <1>1, <2>1
<1>3. PICK d \in D : \A e \in D : d <= e
  <2> HIDE DEF D
  <2> QED BY <1>2, LeastOf
<1>4. PICK i \in S : d = n - i
  BY <1>3
<1>5. ASSUME NEW j \in S PROVE j <= i
  <2>1. n - j \in D
    OBVIOUS
  <2>2. n - i <= n - j
    BY <1>3, <1>4, <2>1
  <2> HIDE DEF D
  <2>3. i \in Int /\ j \in Int
    BY <1>1
  <2> QED BY <1>1, <2>2, <2>3
<1>6. Latest(S) = i
  BY <1>4, <1>5, LatestIs DEF S
<1> QED BY <1>4, <1>5, <1>6 DEF S

LEMMA SetupAppended ==
  ASSUME NEW q \in Seq(Packet), NEW v \in Server, NEW conf,
         NEW r, r = Append(q, Setup(v))
  PROVE  /\ r \in Seq(Packet) /\ SetupsIn(r) # {}
         /\ ShownAfter(r, conf) = SetupOf(v)
<1> DEFINE p == Setup(v)
           n == Len(q) + 1
<1>1. p \in Packet /\ p.kind = "lobby_setup" /\ p.slots = SetupOf(v)
  BY SetupType
<1>2. r = Append(q, p) /\ Len(q) \in Nat
  BY LenProperties
<1> HIDE DEF p
<1>3. r \in Seq(Packet) /\ Len(r) = n /\ r[n] = p
  BY <1>1, <1>2
<1>4. n \in SetupsIn(r) /\ \A j \in SetupsIn(r) : j <= n
  BY <1>1, <1>2, <1>3 DEF SetupsIn
<1> HIDE DEF n
<1>5. Latest(SetupsIn(r)) = n
  BY <1>4, LatestIs
<1> QED BY <1>1, <1>3, <1>4, <1>5 DEF ShownAfter

LEMMA PacketRead ==
  ASSUME NEW q \in Seq(Packet), q # <<>>, NEW conf
  PROVE  /\ Head(q) \in Packet /\ Tail(q) \in Seq(Packet)
         /\ SetupsIn(Tail(q)) # {} =>
              /\ SetupsIn(q) # {}
              /\ ShownAfter(Tail(q), conf) = ShownAfter(q, conf)
         /\ Head(q).kind = "client_connect" =>
              ShownAfter(Tail(q), conf) = ShownAfter(q, conf)
         /\ Head(q).kind = "lobby_setup" =>
              /\ SetupsIn(q) # {}
              /\ ShownAfter(Tail(q), Head(q).slots) = ShownAfter(q, conf)
<1> DEFINE t == Tail(q)
<1>1. /\ Len(q) \in Nat /\ Len(t) = Len(q) - 1 /\ Len(q) > 0
      /\ Head(q) \in Packet /\ t \in Seq(Packet)
      /\ \A i \in 1 .. Len(t) : t[i] = q[i + 1]
  BY LenProperties, HeadTailProperties, EmptySeq
<1>2. Head(q) = q[1]
  OBVIOUS
<1> HIDE DEF t
<1>3. ASSUME NEW i \in SetupsIn(t) PROVE i + 1 \in SetupsIn(q) /\ t[i] = q[i + 1]
  BY <1>1 DEF SetupsIn
<1>4. ASSUME NEW i \in SetupsIn(q), i # 1 PROVE i - 1 \in SetupsIn(t) /\ i \in Int
  <2>1. i \in 1 .. Len(q) /\ q[i].kind = "lobby_setup"
    BY DEF SetupsIn
  <2>2. i - 1 \in 1 .. Len(t) /\ i - 1 + 1 = i
    BY <1>1, <1>4, <2>1
  <2>3. t[i - 1] = q[i]
    BY <1>1, <2>2
  <2> QED BY <2>1, <2>2, <2>3 DEF SetupsIn
<1>5. ASSUME SetupsIn(t) # {}, NEW other
      PROVE  SetupsIn(q) # {} /\ ShownAfter(t, other) = ShownAfter(q, conf)
  <2> DEFINE l == Latest(SetupsIn(t))
  <2>1. l \in SetupsIn(t) /\ \A j \in SetupsIn(t) : j <= l
    BY <1>1, <1>5, LatestIn
  <2>2. l \in Int /\ l >= 1
    BY <2>1 DEF SetupsIn
  <2> HIDE DEF l
  <2>3. l + 1 \in SetupsIn(q) /\ t[l] = q[l + 1]
    BY <1>3, <2>1
  <2>4. ASSUME NEW j \in SetupsIn(q) PROVE j <= l + 1
    <3>1. CASE j = 1
      BY <2>2, <3>1
    <3>2. CASE j # 1
      <4>1. j - 1 <= l /\ j \in Int
        BY <1>4, <2>1, <3>2
      <4> QED BY <2>2, <4>1
    <3> QED BY <3>1, <3>2
  <2>5. Latest(SetupsIn(q)) = l + 1
    BY <2>3, <2>4, LatestIs
  <2> QED BY <1>5, <2>3, <2>5 DEF ShownAfter, l
<1>6. ASSUME Head(q).kind = "client_connect", SetupsIn(t) = {}
      PROVE  SetupsIn(q) = {}
  <2>1. 1 \notin SetupsIn(q)
    BY <1>2, <1>6 DEF SetupsIn
  <2> QED BY <1>4, <1>6, <2>1
<1>7. ASSUME Head(q).kind = "lobby_setup"
      PROVE  1 \in SetupsIn(q)
  BY <1>1, <1>2, <1>7 DEF SetupsIn
<1>8. ASSUME Head(q).kind = "lobby_setup", SetupsIn(t) = {}
      PROVE  ShownAfter(t, Head(q).slots) = ShownAfter(q, conf)
  <2>1. \A j \in SetupsIn(q) : j <= 1
    BY <1>4, <1>8
  <2>2. Latest(SetupsIn(q)) = 1
    BY <1>7, <1>8, <2>1, LatestIs
  <2> QED BY <1>2, <1>7, <1>8, <2>2 DEF ShownAfter
<1>9. Head(q).kind = "client_connect" => ShownAfter(t, conf) = ShownAfter(q, conf)
  BY <1>5, <1>6 DEF ShownAfter
<1>10. Head(q).kind = "lobby_setup" =>
         /\ SetupsIn(q) # {}
         /\ ShownAfter(t, Head(q).slots) = ShownAfter(q, conf)
  BY <1>5, <1>7, <1>8
<1> QED BY <1>1, <1>5, <1>9, <1>10 DEF t
-----------------------------------------------------------------------------
(* The inductive invariant of the screen, part by part: the commands that  *)
(* wait; the table of an open lobby, which shows the slots of the map or   *)
(* is about to; the setup packet under way, which is the table as it is;   *)
(* and the screen, which shows all of them when the host can click.        *)
Texts(text, scr) ==
  /\ text \in Seq(Command) /\ StartsFollowed(text) /\ MapLast(text)
  /\ scr # "game" => NoMapIn(text)

Coming(text, ph, C) == ph = "execute" /\ Ahead(text, 1, C)
Complete(v, text, ph) ==
  /\ \A s \in SlotNum : v.slots[s].visible => s \in Offered
  /\ v.slot_count \in 0 .. Places
  /\ v.slot_count = Places \/ Coming(text, ph, ConfigCommands)
  /\ \A s \in Offered : v.slots[s].visible \/ Coming(text, ph, SlotCommands(s))

Shows(v, q, conf, text, scr) ==
  SetupsIn(q) # {} \/ (text = <<>> /\ scr = "setup")
    => ShownAfter(q, conf) = SetupOf(v)

ShowsFull(q, conf, scr, ph) ==
  scr = "setup" => Full(IF ph = "read" THEN ShownAfter(q, conf) ELSE conf)

ScreenTypes(q, g, conf, scr, ph) ==
  /\ ph \in {"server", "input", "read", "execute"}
  /\ scr \in {"setup", "other", "game"}
  /\ g \in BOOLEAN
  /\ conf \in [SlotNum -> SlotConfig]
  /\ q \in Seq(Packet)

ScreenAt(st, v, q, g, conf, scr, text, ph) ==
  /\ ScreenTypes(q, g, conf, scr, ph)
  /\ Texts(text, scr)
  /\ st = "dead" => v = EmptyServer /\ q = <<>>
  /\ st = "game" => scr = "game" /\ text = <<>>
  /\ HostOnce(v)
  /\ st = "lobby" => /\ Counted(v) /\ Complete(v, text, ph)
                     /\ Shows(v, q, conf, text, scr)
  /\ ShowsFull(q, conf, scr, ph)

SInv == /\ IInv /\ SlotsManned
        /\ ScreenAt(state, svs, inbox, greeted, configs, screen, cmd_text, phase)

Kept ==
  /\ IInv' /\ SlotsManned'
  /\ ScreenAt(state', svs', inbox', greeted', configs', screen', cmd_text', phase')

LEMMA KeptIsSInv ==
  ASSUME Kept
  PROVE  SInv'
<1>1. ScreenTypes(inbox', greeted', configs', screen', phase')
        => ScreenTypes(inbox, greeted, configs, screen, phase)'
  BY DEF ScreenTypes, Packet
<1>2. Texts(cmd_text', screen') => Texts(cmd_text, screen)'
  BY DEF Texts, StartsFollowed, MapLast, NoMapIn, Ahead
<1>3. HostOnce(svs') => HostOnce(svs)'
  BY DEF HostOnce
<1>4. Counted(svs') => Counted(svs)'
  BY DEF Counted
<1>5. Complete(svs', cmd_text', phase') => Complete(svs, cmd_text, phase)'
  BY DEF Complete, Coming, Ahead
<1>6. Shows(svs', inbox', configs', cmd_text', screen')
        => Shows(svs, inbox, configs, cmd_text, screen)'
  BY DEF Shows, ShownAfter, SetupsIn, Latest, SetupOf
<1>7. ShowsFull(inbox', configs', screen', phase')
        => ShowsFull(inbox, configs, screen, phase)'
  BY DEF ShowsFull, Full, ShownAfter, SetupsIn, Latest
<1> QED BY <1>1, <1>2, <1>3, <1>4, <1>5, <1>6, <1>7 DEF Kept, SInv, ScreenAt

(* What the invariant says of the server, and of steps that leave it.      *)
LEMMA SInvServer ==
  ASSUME SInv
  PROVE  /\ Sound(svs) /\ svs \in Server /\ HostOnce(svs)
         /\ state \in {"dead", "lobby", "game"}
         /\ state # "dead" => Manned(svs)
         /\ state = "lobby" => svs.active /\ Single(svs)
         /\ Texts(cmd_text, screen)
         /\ ScreenTypes(inbox, greeted, configs, screen, phase)
BY IInvParts DEF SInv, SlotsManned, ScreenAt, Sound, Single

LEMMA ServerIdle ==
  ASSUME SInv, UNCHANGED server
  PROVE  IInv' /\ SlotsManned'
<1>1. IInv /\ SlotsManned /\ UNCHANGED vars
  BY DEF SInv, server, vars
<1>2. IInv'
  BY <1>1, NextIInv
<1> QED BY <1>1, <1>2, IdleStep

LEMMA InitSInv ==
  ASSUME ScreenInit
  PROVE  SInv
<1>1. IInv /\ SlotsManned
  BY InitIInv DEF ScreenInit, Init, SlotsManned
<1>2. HostOnce(svs)
  BY VacantServer, VacantSingle DEF ScreenInit, Init, Single
<1>3. <<>> \in Seq(Command) /\ Len(<<>>) = 0 /\ <<>> \in Seq(Packet)
  OBVIOUS
<1>4. Texts(cmd_text, screen)
  BY <1>3 DEF ScreenInit, Texts, StartsFollowed, MapLast, NoMapIn
<1>5. NoConfig \in SlotConfig
  BY Bounds DEF NoConfig, SlotConfig, SlotType
<1>6. ScreenTypes(inbox, greeted, configs, screen, phase)
  BY <1>3, <1>5 DEF ScreenInit, ScreenTypes
<1> QED BY <1>1, <1>2, <1>4, <1>6 DEF SInv, ScreenAt, ScreenInit, Init, ShowsFull

(* The network and the clients. *)
LEMMA NewKept ==
  ASSUME SInv, New
  PROVE  Kept
<1>1. IInv' /\ SlotsManned'
  BY ServerIdle DEF New
<1>2. /\ svs' = svs /\ state' = state /\ configs' = configs /\ screen' = screen
      /\ cmd_text' = cmd_text /\ phase' = phase /\ greeted' = FALSE
      /\ phase = "server"
  BY DEF New, server
<1>3. svs \in Server /\ ScreenTypes(inbox, greeted, configs, screen, phase)
  BY SInvServer
<1>4. CASE state = "lobby"
  <2>1. inbox' = Append(inbox, Setup(svs)) /\ inbox \in Seq(Packet)
    BY <1>3, <1>4 DEF New, ScreenTypes
  <2>2. inbox' \in Seq(Packet) /\ ShownAfter(inbox', configs) = SetupOf(svs)
    BY <1>3, <2>1, SetupAppended
  <2>3. Shows(svs', inbox', configs', cmd_text', screen')
    BY <1>2, <2>2 DEF Shows
  <2>4. ScreenTypes(inbox', greeted', configs', screen', phase')
    BY <1>2, <1>3, <2>2 DEF ScreenTypes
  <2> QED BY <1>1, <1>2, <1>4, <2>3, <2>4 DEF Kept, SInv, ScreenAt, ShowsFull
<1>5. CASE state # "lobby"
  <2>1. inbox' = inbox
    BY <1>5 DEF New
  <2>2. ScreenTypes(inbox', greeted', configs', screen', phase')
    BY <1>2, <1>3, <2>1 DEF ScreenTypes
  <2> QED BY <1>1, <1>2, <1>5, <2>1, <2>2 DEF Kept, SInv, ScreenAt
<1> QED BY <1>4, <1>5

(* The table changes, and the setup that is broadcast says how. *)
LEMMA BroadcastShows ==
  ASSUME NEW q \in Seq(Packet), state' = "lobby", svs' \in Server, Broadcast(q),
         NEW conf, NEW text, NEW scr
  PROVE  inbox' \in Seq(Packet) /\ Shows(svs', inbox', conf, text, scr)
<1>1. inbox' = Append(q, Setup(svs'))
  BY DEF Broadcast
<1>2. inbox' \in Seq(Packet) /\ ShownAfter(inbox', conf) = SetupOf(svs')
  BY <1>1, SetupAppended
<1> QED BY <1>2 DEF Shows

(* A lobby whose slots are seen as before. *)
LEMMA CompleteSame ==
  ASSUME NEW v, NEW w, SameTable(v, w), NEW text, NEW ph, Complete(v, text, ph)
  PROVE  Complete(w, text, ph)
<1>1. Offered \subseteq SlotNum
  BY DEF Offered
<1> QED BY <1>1 DEF SameTable, Complete

LEMMA DirectConnectKept ==
  ASSUME SInv, phase = "server", NEW a \in Remote, DirectConnect(a),
         Broadcast(inbox), UNCHANGED <<client_side, phase>>
  PROVE  Kept
<1> DEFINE n == svs.num_clients
           v == WithClient(svs, a)
<1>1. IInv' /\ SlotsManned'
  BY DirectConnectIInv, DirectConnectStep DEF SInv
<1>2. /\ state' = state /\ configs' = configs /\ screen' = screen
      /\ cmd_text' = cmd_text /\ phase' = phase /\ greeted' = greeted
      /\ state \in {"lobby", "game"} /\ n < max_clients
      /\ svs' = IF state = "lobby" THEN AssignClient(v, n, FALSE) ELSE v
  BY DEF DirectConnect, client_side
<1>3. /\ Sound(svs) /\ Manned(svs) /\ HostOnce(svs)
      /\ state = "lobby" => Single(svs)
      /\ ScreenTypes(inbox, greeted, configs, screen, phase)
  BY <1>2, SInvServer
<1>4. /\ v \in Server /\ n \in ClientNum
      /\ HostOnce(v) /\ SameTable(svs, v) /\ (Counted(svs) => Single(v))
  BY <1>2, <1>3, JoinedParts, JoinedSingle
<1> HIDE DEF n, v
<1>5. CASE state = "lobby"
  <2>1. Single(v)
    BY <1>3, <1>4, <1>5 DEF Single
  <2>2. Single(svs') /\ SameTable(v, svs')
    BY <1>2, <1>4, <1>5, <2>1, AssignClientSingle
  <2>3. SameTable(svs, svs')
    BY <1>4, <2>2 DEF SameTable
  <2>4. Complete(svs', cmd_text', phase')
    BY <1>2, <1>5, <2>3, CompleteSame DEF SInv, ScreenAt
  <2>5. svs' \in Server
    BY <1>1, IInvParts DEF IInv, TypeOK, Server
  <2>6. inbox \in Seq(Packet) /\ state' = "lobby"
    BY <1>2, <1>3, <1>5 DEF ScreenTypes
  <2>7. inbox' \in Seq(Packet) /\ Shows(svs', inbox', configs', cmd_text', screen')
    BY <2>5, <2>6, BroadcastShows
  <2>8. ScreenTypes(inbox', greeted', configs', screen', phase')
    BY <1>2, <1>3, <2>7 DEF ScreenTypes
  <2> QED BY <1>1, <1>2, <1>5, <2>2, <2>4, <2>7, <2>8
          DEF Kept, SInv, ScreenAt, Single, ShowsFull
<1>6. CASE state # "lobby"
  <2>1. inbox' = inbox /\ svs' = v
    BY <1>2, <1>6 DEF Broadcast
  <2> QED BY <1>1, <1>2, <1>4, <1>6, <2>1 DEF Kept, SInv, ScreenAt
<1> QED BY <1>5, <1>6

LEMMA RefuseConnectKept ==
  ASSUME SInv, NEW a \in Remote, RefuseConnect(a), UNCHANGED inbox,
         UNCHANGED <<client_side, phase>>
  PROVE  Kept
<1> DEFINE n == svs.num_clients
           r == FreeClient
<1>1. IInv' /\ SlotsManned'
  BY RefuseConnectIInv, RefuseConnectStep DEF SInv
<1>2. /\ state' = state /\ configs' = configs /\ screen' = screen
      /\ cmd_text' = cmd_text /\ phase' = phase /\ greeted' = greeted
      /\ inbox' = inbox /\ state = "lobby"
      /\ svs' = [svs EXCEPT !.clients[n] = r]
  BY DEF RefuseConnect, client_side
<1>3. svs \in Server /\ Manned(svs) /\ HostOnce(svs)
  BY <1>2, SInvServer
<1> HIDE DEF r
<1>4. /\ svs'.slots = svs.slots /\ svs'.slot_count = svs.slot_count
      /\ \A d \in ClientNum \ {n} : svs'.clients[d] = svs.clients[d]
  BY <1>2, <1>3 DEF Server
<1>5. ASSUME NEW s \in SlotNum, svs.slots[s].occupied, svs.slots[s].client = 0
      PROVE  svs'.clients[0].lobby_slot = s
  <2>1. 0 \in ClientNum /\ 0 < n
    BY <1>3, <1>5, OccupantIsClient
  <2>2. 0 # n
    BY <2>1
  <2>3. svs.clients[0].lobby_slot = s
    BY <1>3, <1>5 DEF HostOnce
  <2> QED BY <1>4, <2>1, <2>2, <2>3
<1>6. HostOnce(svs') /\ (Counted(svs) => Counted(svs'))
  BY <1>4, <1>5 DEF HostOnce, Counted
<1>7. SetupOf(svs') = SetupOf(svs)
  BY <1>4 DEF SetupOf
<1>8. SameTable(svs, svs')
  BY <1>4 DEF SameTable
<1>9. Complete(svs', cmd_text', phase')
  BY <1>2, <1>8, CompleteSame DEF SInv, ScreenAt
<1> QED BY <1>1, <1>2, <1>6, <1>7, <1>9 DEF Kept, SInv, ScreenAt, Shows

LEMMA EnterKept ==
  ASSUME SInv, NEW c \in ClientNum, Enter(c)
  PROVE  Kept
<1>1. IInv' /\ SlotsManned'
  BY PlayerInfoIInv, PlayerInfoStep, BeginIInv, BeginStep DEF SInv, Enter
<1>2. /\ state' = state /\ configs' = configs /\ screen' = screen
      /\ cmd_text' = cmd_text /\ phase' = phase /\ greeted' = greeted
      /\ inbox' = inbox /\ state = "game"
  BY DEF Enter, PlayerInfo, Begin, client_side
<1>3. svs \in Server /\ Manned(svs) /\ HostOnce(svs)
  BY <1>2, SInvServer
<1>4. \/ \E e : svs' = [svs EXCEPT !.clients[c].edict = e]
      \/ \E e : svs' = [svs EXCEPT !.clients[c].cs = "spawned",
                                   !.clients[c].edict = e]
  BY DEF Enter, PlayerInfo, Begin
<1>5. Stands(svs, svs')
  <2>1. ASSUME NEW e, svs' = [svs EXCEPT !.clients[c].edict = e]
        PROVE  Stands(svs, svs')
    BY <1>3, <2>1 DEF Server, Client, Stands
  <2>2. ASSUME NEW e, svs' = [svs EXCEPT !.clients[c].cs = "spawned",
                                         !.clients[c].edict = e]
        PROVE  Stands(svs, svs')
    BY <1>3, <2>2 DEF Server, Client, Stands
  <2> QED BY <1>4, <2>1, <2>2
<1>6. HostOnce(svs')
  BY <1>3, <1>5, StandsSingle
<1> QED BY <1>1, <1>2, <1>6 DEF Kept, SInv, ScreenAt

(* Once the commands of an iteration have run, an open lobby shows all the *)
(* slots of its map, and so does the setup packet that is under way.       *)
LEMMA CompleteFull ==
  ASSUME NEW v, NEW text, NEW ph, Complete(v, text, ph), ph # "execute"
  PROVE  Full(SetupOf(v))
<1>1. /\ v.slot_count = Places /\ Places \in Nat /\ Offered = 0 .. Places - 1
      /\ \A s \in SlotNum : v.slots[s].visible => s \in Offered
      /\ \A s \in Offered : v.slots[s].visible
  BY PlacesAre, Bounds DEF Complete, Coming
<1>2. ASSUME NEW s \in SlotNum
      PROVE  SetupOf(v)[s].visible <=> s \in Offered
  <2>1. s \in Nat
    BY Bounds
  <2>2. CASE s >= v.slot_count
    <3>1. SetupOf(v)[s] = NoConfig
      BY <2>2 DEF SetupOf
    <3>2. s \notin Offered
      BY <1>1, <2>1, <2>2
    <3> QED BY <3>1, <3>2 DEF NoConfig
  <2>3. CASE ~(s >= v.slot_count)
    <3>1. SetupOf(v)[s].visible = v.slots[s].visible
      BY <2>3 DEF SetupOf
    <3>2. s \in Offered
      BY <1>1, <2>1, <2>3
    <3> QED BY <1>1, <3>1, <3>2
  <2> QED BY <2>2, <2>3
<1> QED BY <1>2 DEF Full

LEMMA ShownFull ==
  ASSUME SInv, phase # "execute", screen = "setup" \/ state = "lobby",
         SetupsIn(inbox) # {}
  PROVE  Full(ShownAfter(inbox, configs))
<1>1. SetupsIn(<<>>) = {}
  BY DEF SetupsIn
<1>2. state = "lobby"
  BY <1>1, SInvServer DEF SInv, ScreenAt
<1>3. /\ Complete(svs, cmd_text, phase)
      /\ Shows(svs, inbox, configs, cmd_text, screen)
  BY <1>2 DEF SInv, ScreenAt
<1>4. ShownAfter(inbox, configs) = SetupOf(svs)
  BY <1>3 DEF Shows
<1> QED BY <1>3, <1>4, CompleteFull

(* The steps of the main loop that neither read nor execute. *)
LEMMA LoopKept ==
  ASSUME SInv, \/ EndServerFrame \/ EndInput \/ EndRead \/ EndExecute
               \/ UNCHANGED screenVars
  PROVE  Kept
<1>1. UNCHANGED server /\ UNCHANGED client_side /\ UNCHANGED inbox
  BY DEF EndServerFrame, EndInput, EndRead, EndExecute, screenVars, server,
         client_side
<1>2. IInv' /\ SlotsManned'
  BY <1>1, ServerIdle
<1>3. /\ svs' = svs /\ state' = state /\ configs' = configs /\ screen' = screen
      /\ cmd_text' = cmd_text /\ greeted' = greeted /\ inbox' = inbox
  BY <1>1 DEF server, client_side
<1>4. /\ phase' \in {"server", "input", "read", "execute"}
      /\ \/ phase' = phase
         \/ phase = "server" /\ phase' = "input"
         \/ phase = "input" /\ phase' = "read"
         \/ phase = "read" /\ phase' = "execute" /\ inbox = <<>>
         \/ phase = "execute" /\ phase' = "server" /\ cmd_text = <<>>
  BY SInvServer DEF EndServerFrame, EndInput, EndRead, EndExecute, screenVars,
                    ScreenTypes
<1>5. ScreenTypes(inbox', greeted', configs', screen', phase')
  BY <1>3, <1>4, SInvServer DEF ScreenTypes
<1>6. ASSUME phase = "execute", cmd_text = <<>>, NEW C
      PROVE  ~Coming(cmd_text, phase, C)
  BY <1>6 DEF Coming, Ahead
<1>7. state = "lobby" => Complete(svs', cmd_text', phase')
  BY <1>3, <1>4, <1>6 DEF SInv, ScreenAt, Complete, Coming
<1>8. ShownAfter(<<>>, configs) = configs
  BY DEF ShownAfter, SetupsIn
<1>9. ShowsFull(inbox', configs', screen', phase')
  <2>1. SUFFICES ASSUME screen = "setup"
                 PROVE  Full(IF phase' = "read" THEN ShownAfter(inbox, configs)
                                                ELSE configs)
    BY <1>3 DEF ShowsFull
  <2>2. Full(IF phase = "read" THEN ShownAfter(inbox, configs) ELSE configs)
    BY <2>1 DEF SInv, ScreenAt, ShowsFull
  <2>3. CASE phase = "input" /\ phase' = "read"
    <3>1. CASE SetupsIn(inbox) = {}
      BY <2>2, <2>3, <3>1 DEF ShownAfter
    <3>2. CASE SetupsIn(inbox) # {}
      BY <2>1, <2>3, <3>2, ShownFull
    <3> QED BY <3>1, <3>2
  <2>4. CASE phase = "read" /\ phase' = "execute" /\ inbox = <<>>
    BY <1>8, <2>2, <2>4
  <2> QED BY <1>4, <2>2, <2>3, <2>4
<1> QED BY <1>2, <1>3, <1>5, <1>7, <1>9 DEF Kept, SInv, ScreenAt

(* The clicks. *)
LEMMA MapSlotsFull ==
  MapSlots \in [SlotNum -> SlotConfig] /\ Full(MapSlots)
<1>1. ASSUME NEW s \in SlotNum PROVE MapSlots[s] \in SlotConfig
  BY MapSlotsAssumption, Bounds DEF SlotConfig, SlotType
<1>2. \A s \in SlotNum : MapSlots[s].visible <=> s \in Offered
  BY DEF Offered
<1> QED BY <1>1, <1>2, MapSlotsAssumption DEF Full

(* A click that appends commands to the buffer while the screen is open. *)
LEMMA ClickKept ==
  ASSUME SInv, phase = "input", screen # "game",
         UNCHANGED <<server, inbox, greeted, phase>>, screen' = "setup",
         configs' \in [SlotNum -> SlotConfig], Full(configs'),
         NEW text \in Seq(Command), StartsFollowed(text), NoMapIn(text),
         text # <<>>, cmd_text' = cmd_text \o text
  PROVE  Kept
<1>1. IInv' /\ SlotsManned'
  BY ServerIdle
<1>2. /\ svs' = svs /\ state' = state /\ greeted' = greeted
      /\ phase' = phase /\ inbox' = inbox
  BY DEF server
<1>3. /\ cmd_text \in Seq(Command) /\ StartsFollowed(cmd_text)
      /\ NoMapIn(cmd_text)
  BY SInvServer DEF Texts
<1>4. /\ cmd_text' \in Seq(Command) /\ StartsFollowed(cmd_text')
      /\ NoMapIn(cmd_text') /\ cmd_text' # <<>>
  BY <1>3, TextAdded
<1>5. Texts(cmd_text', screen')
  BY <1>4 DEF Texts, NoMapIn, MapLast
<1>6. ScreenTypes(inbox', greeted', configs', screen', phase')
  BY <1>2, SInvServer DEF ScreenTypes
<1>7. state # "game"
  BY DEF SInv, ScreenAt
<1>8. state = "lobby" => Shows(svs', inbox', configs', cmd_text', screen')
  BY <1>2, <1>4 DEF SInv, ScreenAt, Shows, ShownAfter
<1>9. state = "lobby" => Complete(svs', cmd_text', phase')
  BY <1>2 DEF SInv, ScreenAt, Complete, Coming
<1>10. ShowsFull(inbox', configs', screen', phase')
  BY <1>2 DEF ShowsFull
<1> QED BY <1>1, <1>2, <1>5, <1>6, <1>7, <1>8, <1>9, <1>10
        DEF Kept, SInv, ScreenAt

LEMMA ScreenShown ==
  ASSUME SInv, screen = "setup", phase # "read"
  PROVE  configs \in [SlotNum -> SlotConfig] /\ Full(configs)
BY SInvServer DEF SInv, ScreenAt, ShowsFull, ScreenTypes

LEMMA OpenScreenKept ==
  ASSUME SInv, OpenScreen
  PROVE  Kept
<1> DEFINE text == PublishLobby(MapSlots)
<1>1. /\ phase = "input" /\ screen # "game" /\ screen' = "setup"
      /\ UNCHANGED <<server, inbox, greeted, phase>>
      /\ configs' = MapSlots /\ cmd_text' = cmd_text \o text
  BY DEF OpenScreen, Add
<1>2. configs' \in [SlotNum -> SlotConfig] /\ Full(configs')
  BY <1>1, MapSlotsFull
<1>3. /\ text \in Seq(Command) /\ StartsFollowed(text) /\ NoMapIn(text)
      /\ text # <<>>
  BY MapSlotsFull, PublishText
<1> HIDE DEF text
<1> QED BY <1>1, <1>2, <1>3, ClickKept

LEMMA SlotClickKept ==
  ASSUME SInv, NEW s \in SlotNum,
         SetSlotLook(s) \/ \E type \in SlotType : SetSlotType(s, type)
  PROVE  Kept
<1> DEFINE text == LobbySlot(configs', s)
<1>1. /\ phase = "input" /\ screen = "setup" /\ screen' = "setup"
      /\ UNCHANGED <<server, inbox, greeted, phase>>
      /\ configs[s].visible
  BY DEF SetSlotLook, SetSlotType
<1>2. configs \in [SlotNum -> SlotConfig] /\ Full(configs)
  BY <1>1, ScreenShown
<1>3. \/ configs' = configs
      \/ \E type \in SlotType : configs' = [configs EXCEPT ![s].type = type]
  BY DEF SetSlotLook, SetSlotType
<1>4. /\ configs' \in [SlotNum -> SlotConfig]
      /\ \A t \in SlotNum : configs'[t].visible = configs[t].visible
  <2>1. ASSUME NEW type \in SlotType,
               configs' = [configs EXCEPT ![s].type = type]
        PROVE  /\ configs' \in [SlotNum -> SlotConfig]
               /\ \A t \in SlotNum : configs'[t].visible = configs[t].visible
    <3>1. configs[s] \in SlotConfig
      BY <1>2
    <3>2. /\ [configs[s] EXCEPT !.type = type] \in SlotConfig
          /\ [configs[s] EXCEPT !.type = type].visible = configs[s].visible
      BY <3>1 DEF SlotConfig
    <3>3. configs' = [configs EXCEPT ![s] = [configs[s] EXCEPT !.type = type]]
      BY <1>2, <2>1
    <3> QED BY <1>2, <3>2, <3>3
  <2> QED BY <1>2, <1>3, <2>1
<1>5. Full(configs') /\ configs'[s].visible /\ s \in Offered
  BY <1>1, <1>2, <1>4 DEF Full
<1>6. cmd_text' = cmd_text \o text
  BY DEF SetSlotLook, SetSlotType, Add
<1>7. /\ text \in Seq(Command) /\ StartsFollowed(text) /\ NoMapIn(text)
      /\ text # <<>>
  BY <1>4, <1>5, SlotText
<1> HIDE DEF text
<1>8. screen # "game"
  BY <1>1
<1> QED BY <1>1, <1>4, <1>5, <1>6, <1>7, <1>8, ClickKept

LEMMA StartKept ==
  ASSUME SInv, Start
  PROVE  Kept
<1> DEFINE text == StartGame(configs)
<1>1. /\ phase = "input" /\ screen = "setup" /\ screen' = "game"
      /\ UNCHANGED <<server, inbox, greeted, configs, phase>>
      /\ cmd_text' = cmd_text \o text
  BY DEF Start, Add
<1>2. IInv' /\ SlotsManned'
  BY <1>1, ServerIdle
<1>3. /\ svs' = svs /\ state' = state /\ greeted' = greeted
      /\ phase' = phase /\ inbox' = inbox /\ configs' = configs
  BY <1>1 DEF server
<1>4. /\ cmd_text \in Seq(Command) /\ StartsFollowed(cmd_text)
      /\ NoMapIn(cmd_text)
  BY <1>1, SInvServer DEF Texts
<1>5. text \in Seq(Command) /\ StartsFollowed(text) /\ MapLast(text)
  BY <1>1, ScreenShown, StartText
<1> HIDE DEF text
<1>6. Texts(cmd_text', screen')
  BY <1>1, <1>4, <1>5, TextAdded DEF Texts
<1>7. ScreenTypes(inbox', greeted', configs', screen', phase')
  BY <1>1, <1>3, SInvServer DEF ScreenTypes
<1>8. state # "game"
  BY <1>1 DEF SInv, ScreenAt
<1>9. state = "lobby" => Shows(svs', inbox', configs', cmd_text', screen')
  BY <1>1, <1>3 DEF SInv, ScreenAt, Shows
<1>10. state = "lobby" => Complete(svs', cmd_text', phase')
  BY <1>1, <1>3 DEF SInv, ScreenAt, Complete, Coming
<1>11. ShowsFull(inbox', configs', screen', phase')
  BY <1>1 DEF ShowsFull
<1> QED BY <1>2, <1>3, <1>6, <1>7, <1>8, <1>9, <1>10, <1>11
        DEF Kept, SInv, ScreenAt

LEMMA CancelKept ==
  ASSUME SInv, Cancel
  PROVE  Kept
<1>1. /\ screen = "setup" /\ screen' = "other"
      /\ UNCHANGED <<server, inbox, greeted, configs, cmd_text, phase>>
  BY DEF Cancel
<1>2. IInv' /\ SlotsManned'
  BY <1>1, ServerIdle
<1>3. /\ svs' = svs /\ state' = state /\ greeted' = greeted
      /\ phase' = phase /\ inbox' = inbox /\ configs' = configs
      /\ cmd_text' = cmd_text
  BY <1>1 DEF server
<1>4. Texts(cmd_text', screen')
  BY <1>1, <1>3, SInvServer DEF Texts
<1>5. ScreenTypes(inbox', greeted', configs', screen', phase')
  BY <1>1, <1>3, SInvServer DEF ScreenTypes
<1>6. state # "game"
  BY <1>1 DEF SInv, ScreenAt
<1>7. state = "lobby" => Shows(svs', inbox', configs', cmd_text', screen')
  BY <1>1, <1>3 DEF SInv, ScreenAt, Shows
<1>8. ShowsFull(inbox', configs', screen', phase')
  BY <1>1 DEF ShowsFull
<1> QED BY <1>2, <1>3, <1>4, <1>5, <1>6, <1>7, <1>8 DEF Kept, SInv, ScreenAt

(* The packets. *)
LEMMA ReadConnectKept ==
  ASSUME SInv, ReadConnect
  PROVE  Kept
<1>1. /\ UNCHANGED <<server, configs, screen, cmd_text, phase>>
      /\ greeted' = TRUE /\ inbox' = Tail(inbox) /\ inbox # <<>>
      /\ Head(inbox).kind = "client_connect"
  BY DEF ReadConnect
<1>2. IInv' /\ SlotsManned'
  BY <1>1, ServerIdle
<1>3. /\ svs' = svs /\ state' = state /\ configs' = configs /\ screen' = screen
      /\ cmd_text' = cmd_text /\ phase' = phase
  BY <1>1 DEF server
<1>4. inbox \in Seq(Packet)
  BY SInvServer DEF ScreenTypes
<1>5. /\ inbox' \in Seq(Packet)
      /\ ShownAfter(inbox', configs) = ShownAfter(inbox, configs)
      /\ SetupsIn(inbox') # {} => SetupsIn(inbox) # {}
  BY <1>1, <1>4, PacketRead
<1>6. ScreenTypes(inbox', greeted', configs', screen', phase')
  BY <1>1, <1>3, <1>5, SInvServer DEF ScreenTypes
<1>7. state # "dead"
  BY <1>1 DEF SInv, ScreenAt
<1>8. state = "lobby" => Shows(svs', inbox', configs', cmd_text', screen')
  BY <1>3, <1>5 DEF SInv, ScreenAt, Shows
<1>9. ShowsFull(inbox', configs', screen', phase')
  BY <1>3, <1>5 DEF SInv, ScreenAt, ShowsFull
<1> QED BY <1>2, <1>3, <1>6, <1>7, <1>8, <1>9 DEF Kept, SInv, ScreenAt

LEMMA ReadSetupKept ==
  ASSUME SInv, ReadSetup
  PROVE  Kept
<1> DEFINE told == Head(inbox).slots
<1>1. /\ UNCHANGED server /\ greeted' = greeted /\ phase' = phase
      /\ phase = "read" /\ inbox' = Tail(inbox) /\ inbox # <<>>
      /\ Head(inbox).kind = "lobby_setup"
  BY DEF ReadSetup
<1>2. IInv' /\ SlotsManned'
  BY <1>1, ServerIdle
<1>3. svs' = svs /\ state' = state
  BY <1>1 DEF server
<1>4. inbox \in Seq(Packet)
  BY SInvServer DEF ScreenTypes
<1>5. /\ inbox' \in Seq(Packet) /\ SetupsIn(inbox) # {}
      /\ ShownAfter(inbox', told) = ShownAfter(inbox, configs)
      /\ SetupsIn(inbox') # {} =>
           ShownAfter(inbox', configs) = ShownAfter(inbox, configs)
      /\ Head(inbox) \in Packet
  BY <1>1, <1>4, PacketRead
<1>6. told \in [SlotNum -> SlotConfig]
  BY <1>1, <1>5 DEF Packet
<1> HIDE DEF told
<1>7. state # "dead"
  BY <1>1 DEF SInv, ScreenAt
<1>8. state = "lobby" => ShownAfter(inbox, configs) = SetupOf(svs)
  BY <1>5 DEF SInv, ScreenAt, Shows
<1>9. CASE screen = "game"
  <2>1. configs' = configs /\ screen' = "game" /\ cmd_text' = cmd_text
    BY <1>9 DEF ReadSetup
  <2>2. ScreenTypes(inbox', greeted', configs', screen', phase')
    BY <1>1, <1>5, <1>9, <2>1, SInvServer DEF ScreenTypes
  <2>3. state = "lobby" => Shows(svs', inbox', configs', cmd_text', screen')
    BY <1>3, <1>5, <1>8, <2>1 DEF Shows
  <2>4. ShowsFull(inbox', configs', screen', phase')
    BY <2>1 DEF ShowsFull
  <2> QED BY <1>1, <1>2, <1>3, <1>7, <1>9, <2>1, <2>2, <2>3, <2>4
          DEF Kept, SInv, ScreenAt
<1>10. CASE screen # "game"
  <2>1. /\ configs' = told /\ screen' = "setup"
        /\ cmd_text' = cmd_text \o (IF screen = "other"
                                    THEN PublishLobby(MapSlots) ELSE <<>>)
    BY <1>10 DEF ReadSetup, Add, told
  <2>2. ScreenTypes(inbox', greeted', configs', screen', phase')
    BY <1>1, <1>5, <1>6, <2>1, SInvServer DEF ScreenTypes
  <2>3. state = "lobby"
    BY <1>7, <1>10, SInvServer DEF SInv, ScreenAt
  <2>4. Shows(svs', inbox', configs', cmd_text', screen')
    BY <1>3, <1>5, <1>8, <2>1, <2>3 DEF Shows
  <2>5. Full(ShownAfter(inbox, configs))
    BY <1>1, <1>5, <2>3, ShownFull
  <2>6. ShowsFull(inbox', configs', screen', phase')
    BY <1>1, <1>5, <2>1, <2>5 DEF ShowsFull
  <2>7. /\ cmd_text \in Seq(Command) /\ StartsFollowed(cmd_text)
        /\ NoMapIn(cmd_text)
    BY <1>10, SInvServer DEF Texts
  <2>8. /\ cmd_text' \in Seq(Command) /\ StartsFollowed(cmd_text')
        /\ NoMapIn(cmd_text')
    <3>1. CASE screen = "other"
      <4> DEFINE text == PublishLobby(MapSlots)
      <4>1. text \in Seq(Command) /\ StartsFollowed(text) /\ NoMapIn(text)
        BY MapSlotsFull, PublishText
      <4>2. cmd_text' = cmd_text \o text
        BY <2>1, <3>1
      <4> HIDE DEF text
      <4> QED BY <2>7, <4>1, <4>2, TextAdded
    <3>2. CASE screen # "other"
      <4>1. cmd_text' = cmd_text
        BY <2>1, <2>7, <3>2, ConcatEmptySeq
      <4> QED BY <2>7, <4>1
    <3> QED BY <3>1, <3>2
  <2>9. Texts(cmd_text', screen')
    BY <2>8 DEF Texts, NoMapIn, MapLast
  <2>10. Complete(svs', cmd_text', phase')
    BY <1>1, <1>3, <2>3 DEF SInv, ScreenAt, Complete, Coming
  <2> QED BY <1>2, <1>3, <2>2, <2>3, <2>4, <2>6, <2>9, <2>10
          DEF Kept, SInv, ScreenAt
<1> QED BY <1>9, <1>10

(* The commands. *)
Runs == /\ phase = "execute" /\ cmd_text # <<>> /\ cmd_text' = Tail(cmd_text)
        /\ UNCHANGED <<greeted, configs, screen, phase>>

LEMMA CommandRun ==
  ASSUME SInv, Runs
  PROVE  /\ Head(cmd_text) \in Command /\ Texts(cmd_text', screen')
         /\ Head(cmd_text).cmd = "map" => screen = "game" /\ cmd_text' = <<>>
         /\ Head(cmd_text).cmd = "lobby_start" =>
              \A C \in Needed : Ahead(cmd_text', 1, C)
         /\ \A C : Ahead(cmd_text, 1, C) /\ Head(cmd_text) \notin C =>
                     Ahead(cmd_text', 1, C)
         /\ ShowsFull(inbox', configs', screen', phase')
         /\ state \in {"dead", "lobby"}
<1>1. /\ cmd_text \in Seq(Command) /\ cmd_text # <<>> /\ cmd_text' = Tail(cmd_text)
      /\ StartsFollowed(cmd_text) /\ MapLast(cmd_text)
      /\ screen # "game" => NoMapIn(cmd_text)
      /\ screen' = screen /\ configs' = configs /\ phase' = phase
      /\ phase = "execute"
  BY SInvServer DEF Texts, Runs
<1>2. /\ Head(cmd_text) \in Command /\ cmd_text' \in Seq(Command)
      /\ StartsFollowed(cmd_text') /\ MapLast(cmd_text')
      /\ NoMapIn(cmd_text) => NoMapIn(cmd_text')
      /\ Head(cmd_text).cmd = "map" => cmd_text' = <<>>
      /\ Head(cmd_text).cmd = "lobby_start" =>
           \A C \in Needed : Ahead(cmd_text', 1, C)
  BY <1>1, TextRun
<1>3. ASSUME NEW C, Ahead(cmd_text, 1, C), Head(cmd_text) \notin C
      PROVE  Ahead(cmd_text', 1, C)
  BY <1>1, <1>3, AheadTail
<1>4. Texts(cmd_text', screen')
  BY <1>1, <1>2 DEF Texts
<1>5. Head(cmd_text).cmd = "map" => screen = "game"
  <2>1. Head(cmd_text) = cmd_text[1]
    BY <1>1
  <2>2. 1 \in 1 .. Len(cmd_text)
    <3>1. Len(cmd_text) \in Nat \ {0}
      BY <1>1, EmptySeq
    <3> QED BY <3>1
  <2> QED BY <1>1, <2>1, <2>2 DEF NoMapIn
<1>6. ShowsFull(inbox', configs', screen', phase')
  BY <1>1 DEF SInv, ScreenAt, ShowsFull
<1>7. state \in {"dead", "lobby"}
  BY <1>1, SInvServer DEF SInv, ScreenAt
<1> QED BY <1>2, <1>3, <1>4, <1>5, <1>6, <1>7

LEMMA LobbyRunKept ==
  ASSUME SInv, Runs, IInv', SlotsManned', state' = "lobby", Single(svs'),
         Complete(svs', cmd_text', phase'), inbox' \in Seq(Packet),
         Shows(svs', inbox', configs', cmd_text', screen')
  PROVE  Kept
<1>1. Texts(cmd_text', screen') /\ ShowsFull(inbox', configs', screen', phase')
  BY CommandRun
<1>2. ScreenTypes(inbox', greeted', configs', screen', phase')
  BY SInvServer DEF Runs, ScreenTypes
<1> QED BY <1>1, <1>2 DEF Kept, ScreenAt, Single

LEMMA CommandsNeeded ==
  /\ ConfigCommands \in Needed
  /\ \A s \in Offered : SlotCommands(s) \in Needed
BY DEF Needed

LEMMA RunStartKept ==
  ASSUME SInv, Runs, Head(cmd_text).cmd = "lobby_start", StartLobby(ThisMap),
         Broadcast(Append(inbox, ClientConnect))
  PROVE  Kept
<1> DEFINE v == [EmptyServer EXCEPT !.active = TRUE]
<1>1. IInv' /\ SlotsManned'
  BY ThisMapAssumption, StartLobbyIInv, StartLobbyStep DEF SInv
<1>2. svs' = ConnectHost(v) /\ state' = "lobby"
  BY DEF StartLobby
<1>3. /\ v \in Server /\ Vacant(v) /\ v.slot_count = 0
      /\ \A s \in SlotNum : ~v.slots[s].visible
  BY Empty, VacantServer DEF EmptyServer, NoSlots, EmptySlot
<1> HIDE DEF v
<1>4. Single(svs') /\ SameTable(v, svs')
  BY <1>2, <1>3, ConnectHostSingle
<1>5. \A C \in Needed : Coming(cmd_text', phase', C)
  BY CommandRun DEF Runs, Coming
<1>6. Complete(svs', cmd_text', phase')
  <2>1. svs'.slot_count = 0 /\ \A s \in SlotNum : ~svs'.slots[s].visible
    BY <1>3, <1>4 DEF SameTable
  <2>2. 0 \in 0 .. Places
    BY PlacesAre, Bounds
  <2> QED BY <1>5, <2>1, <2>2, CommandsNeeded DEF Complete
<1>7. svs' \in Server
  BY <1>1 DEF IInv, TypeOK, Server
<1>8. Append(inbox, ClientConnect) \in Seq(Packet)
  BY SInvServer DEF ScreenTypes, ClientConnect, Packet
<1>9. inbox' \in Seq(Packet) /\ Shows(svs', inbox', configs', cmd_text', screen')
  BY <1>2, <1>7, <1>8, BroadcastShows
<1> QED BY <1>1, <1>2, <1>4, <1>6, <1>9, LobbyRunKept

LEMMA RunStartAgainKept ==
  ASSUME SInv, Runs, Head(cmd_text).cmd = "lobby_start", state = "lobby",
         UNCHANGED <<server, inbox>>
  PROVE  Kept
<1>1. IInv' /\ SlotsManned'
  BY ServerIdle DEF server
<1>2. svs' = svs /\ state' = "lobby" /\ inbox' = inbox
  BY DEF server
<1>3. \A C \in Needed : Coming(cmd_text', phase', C)
  BY CommandRun DEF Runs, Coming
<1>4. Complete(svs', cmd_text', phase')
  BY <1>2, <1>3, CommandsNeeded DEF SInv, ScreenAt, Complete
<1>5. cmd_text' # <<>>
  BY <1>3, CommandsNeeded DEF Coming, Ahead
<1>6. Shows(svs', inbox', configs', cmd_text', screen')
  BY <1>2, <1>5 DEF SInv, ScreenAt, Shows, Runs
<1>7. Single(svs') /\ inbox' \in Seq(Packet)
  BY <1>2, SInvServer DEF ScreenTypes
<1> QED BY <1>1, <1>2, <1>4, <1>6, <1>7, LobbyRunKept

LEMMA LobbyActive ==
  ASSUME SInv, Runs, svs.active
  PROVE  state = "lobby"
<1>1. state \in {"dead", "lobby"} /\ (state = "dead" => svs = EmptyServer)
  BY CommandRun DEF SInv, ScreenAt
<1> QED BY <1>1 DEF EmptyServer

LEMMA RunConfigKept ==
  ASSUME SInv, Runs, Head(cmd_text).cmd = "lobby_config",
         SetConfig(Head(cmd_text).slots), Broadcast(inbox)
  PROVE  Kept
<1>1. Head(cmd_text).slots = Places /\ Head(cmd_text).cmd = "lobby_config"
  BY CommandRun DEF Command
<1>2. Places \in 0 .. MAX_PLAYERS + 1 /\ ~(Places > MAX_PLAYERS)
      /\ Offered = 0 .. Places - 1 /\ Places \in Nat
  BY PlacesAre, Bounds
<1>3. SetConfig(Places)
  BY <1>1
<1>4. IInv' /\ SlotsManned'
  BY <1>2, <1>3, SetConfigIInv, SetConfigStep DEF SInv
<1>5. state = "lobby" /\ state' = "lobby"
  BY <1>3, LobbyActive DEF SetConfig
<1>6. svs' = [svs EXCEPT !.slot_count = Places]
  BY <1>2, <1>3 DEF SetConfig
<1>7. svs \in Server /\ Single(svs)
  BY <1>5, SInvServer
<1>8. /\ svs'.slots = svs.slots /\ svs'.clients = svs.clients
      /\ svs'.slot_count = Places
  BY <1>6, <1>7 DEF Server
<1>9. /\ \A s \in SlotNum : svs.slots[s].visible => s \in Offered
      /\ \A s \in Offered : svs.slots[s].visible
                            \/ Coming(cmd_text, phase, SlotCommands(s))
  BY <1>5 DEF SInv, ScreenAt, Complete
<1>10. Single(svs')
  <2>1. ASSUME NEW s \in SlotNum, svs.slots[s].occupied
        PROVE  svs.slots[s].visible /\ s < Places
    <3>1. svs.slots[s].visible
      BY <1>7, <2>1 DEF Single, Counted
    <3>2. s \in Offered
      BY <1>9, <3>1
    <3> QED BY <1>2, <3>1, <3>2
  <2> QED BY <1>7, <1>8, <2>1 DEF Single, Counted, HostOnce
<1>11. ASSUME NEW s \in Offered, Coming(cmd_text, phase, SlotCommands(s))
       PROVE  Coming(cmd_text', phase', SlotCommands(s))
  <2>1. Head(cmd_text) \notin SlotCommands(s)
    BY <1>1 DEF SlotCommands
  <2> QED BY <1>11, <2>1, CommandRun DEF Coming, Runs
<1>12. Complete(svs', cmd_text', phase')
  <2>1. Places \in 0 .. Places
    BY <1>2
  <2> QED BY <1>8, <1>9, <1>11, <2>1 DEF Complete
<1>13. svs' \in Server /\ inbox \in Seq(Packet)
  BY <1>4, SInvServer DEF IInv, TypeOK, Server, ScreenTypes
<1>14. inbox' \in Seq(Packet) /\ Shows(svs', inbox', configs', cmd_text', screen')
  BY <1>5, <1>13, BroadcastShows
<1> QED BY <1>4, <1>5, <1>10, <1>12, <1>14, LobbyRunKept

LEMMA RunSlotKept ==
  ASSUME SInv, Runs, Head(cmd_text).cmd = "lobby_slot",
         SetSlot(Head(cmd_text).slot, Head(cmd_text).config), Broadcast(inbox)
  PROVE  Kept
<1> DEFINE s == Head(cmd_text).slot
           config == Head(cmd_text).config
<1>1. s \in Offered /\ config \in SlotConfig /\ config.visible
  BY CommandRun DEF Command
<1>2. SetSlot(s, config) /\ Head(cmd_text).cmd = "lobby_slot"
      /\ Head(cmd_text).slot = s
  OBVIOUS
<1> HIDE DEF s, config
<1>3. /\ Places \in Nat /\ Offered = 0 .. Places - 1 /\ s \in SlotNum
      /\ Offered \subseteq SlotNum
  BY <1>1, PlacesAre, Bounds DEF Offered
<1>4. IInv' /\ SlotsManned'
  BY <1>1, <1>2, <1>3, SetSlotIInv, SetSlotStep DEF SInv
<1>5. /\ state = "lobby" /\ state' = "lobby"
      /\ svs' = SetSlotIn(svs, s, config)
  BY <1>2, LobbyActive DEF SetSlot
<1>6. Sound(svs) /\ Manned(svs) /\ Single(svs)
  BY <1>5, SInvServer
<1>7. /\ Single(svs')
      /\ svs'.slot_count = IF s >= svs.slot_count THEN s + 1 ELSE svs.slot_count
      /\ svs'.slots[s].visible
      /\ \A t \in SlotNum \ {s} : svs'.slots[t].visible = svs.slots[t].visible
  BY <1>1, <1>3, <1>5, <1>6, SetSlotInSingle
<1>8. Complete(svs, cmd_text, phase)
  BY <1>5 DEF SInv, ScreenAt
<1>9. \A t \in SlotNum : svs'.slots[t].visible => t \in Offered
  BY <1>1, <1>7, <1>8 DEF Complete
<1>10. /\ svs'.slot_count \in 0 .. Places
       /\ svs.slot_count = Places => svs'.slot_count = Places
  <2>1. svs.slot_count \in 0 .. Places /\ s \in 0 .. Places - 1
    BY <1>1, <1>3, <1>8 DEF Complete
  <2> QED BY <1>3, <1>7, <2>1
<1>11. ASSUME Coming(cmd_text, phase, ConfigCommands)
       PROVE  Coming(cmd_text', phase', ConfigCommands)
  <2>1. Head(cmd_text) \notin ConfigCommands
    BY <1>2 DEF ConfigCommands
  <2> QED BY <1>11, <2>1, CommandRun DEF Coming, Runs
<1>12. ASSUME NEW t \in Offered
       PROVE  svs'.slots[t].visible \/ Coming(cmd_text', phase', SlotCommands(t))
  <2>1. CASE t = s
    BY <1>7, <2>1
  <2>2. CASE t # s /\ svs.slots[t].visible
    BY <1>3, <1>7, <2>2
  <2>3. CASE t # s /\ Coming(cmd_text, phase, SlotCommands(t))
    <3>1. Head(cmd_text) \notin SlotCommands(t)
      BY <1>2, <2>3 DEF SlotCommands
    <3> QED BY <2>3, <3>1, CommandRun DEF Coming, Runs
  <2> QED BY <1>8, <2>1, <2>2, <2>3 DEF Complete
<1>13. Complete(svs', cmd_text', phase')
  BY <1>8, <1>9, <1>10, <1>11, <1>12 DEF Complete
<1>14. svs' \in Server /\ inbox \in Seq(Packet)
  BY <1>4, SInvServer DEF IInv, TypeOK, Server, ScreenTypes
<1>15. inbox' \in Seq(Packet) /\ Shows(svs', inbox', configs', cmd_text', screen')
  BY <1>5, <1>14, BroadcastShows
<1> QED BY <1>4, <1>5, <1>7, <1>13, <1>15, LobbyRunKept

(* The game starts with the clients of the lobby, or with the host alone. *)
LEMMA MapHostOnce ==
  ASSUME SInv, StartMap(ThisMap)
  PROVE  HostOnce(svs')
<1>0. Sound(svs) /\ svs \in Server /\ HostOnce(svs)
  BY SInvServer
<1>1. CASE state = "lobby" /\ svs.num_clients > 0
  <2>1. Manned(svs) /\ svs' = Restored(svs)
    BY <1>1, SInvServer DEF StartMap
  <2>2. Stands(svs, svs')
    BY <1>0, <2>1, RestoredSound
  <2> QED BY <1>0, <2>1, <2>2, StandsSingle
<1>2. CASE state = "lobby" /\ ~(svs.num_clients > 0)
  <2> DEFINE v == [svs EXCEPT !.clients = NoClients]
  <2>1. svs' = ConnectHost(v) /\ Manned(svs)
    BY <1>2, SInvServer DEF StartMap
  <2>2. svs.num_clients = 0
    <3>1. svs.num_clients \in 0 .. max_clients
      BY <1>0 DEF Server
    <3> QED BY <1>2, <3>1, Bounds
  <2>3. ASSUME NEW s \in SlotNum PROVE ~svs.slots[s].occupied
    <3>1. SUFFICES ASSUME svs.slots[s].occupied PROVE FALSE
      OBVIOUS
    <3>2. svs.slots[s].client \in ClientNum /\ svs.slots[s].client < 0
      BY <1>0, <2>1, <2>2, <3>1, OccupantIsClient
    <3>3. svs.slots[s].client \in Nat
      BY <3>2, Bounds
    <3> QED BY <3>2, <3>3
  <2>4. v \in Server /\ v.slots = svs.slots
    BY <1>0, Empty DEF Server
  <2> HIDE DEF v
  <2>5. Vacant(v)
    BY <2>3, <2>4 DEF Vacant
  <2> QED BY <2>1, <2>4, <2>5, ConnectHostSingle DEF Single
<1>3. CASE state # "lobby"
  <2>1. svs' = ConnectHost(EmptyServer)
    BY <1>3 DEF StartMap
  <2> QED BY <2>1, Empty, VacantServer, ConnectHostSingle DEF Single
<1> QED BY <1>1, <1>2, <1>3

LEMMA RunMapKept ==
  ASSUME SInv, Runs, Head(cmd_text).cmd = "map", StartMap(ThisMap),
         inbox' = Append(inbox, ClientConnect)
  PROVE  Kept
<1>1. IInv' /\ SlotsManned'
  BY ThisMapAssumption, StartMapIInv, StartMapStep DEF SInv
<1>2. state' = "game" /\ screen' = screen
  BY DEF StartMap, Runs
<1>3. HostOnce(svs')
  BY MapHostOnce
<1>4. /\ screen = "game" /\ cmd_text' = <<>> /\ Texts(cmd_text', screen')
      /\ ShowsFull(inbox', configs', screen', phase')
  BY CommandRun
<1>5. inbox' \in Seq(Packet)
  BY SInvServer DEF ScreenTypes, ClientConnect, Packet
<1>6. ScreenTypes(inbox', greeted', configs', screen', phase')
  BY <1>5, SInvServer DEF Runs, ScreenTypes
<1> QED BY <1>1, <1>2, <1>3, <1>4, <1>6 DEF Kept, ScreenAt

LEMMA ExecuteKept ==
  ASSUME SInv, Execute
  PROVE  Kept
<1> DEFINE command == Head(cmd_text)
<1>1. Runs
  BY DEF Execute, Runs
<1>2. \/ /\ command.cmd = "lobby_start" /\ StartLobby(ThisMap)
         /\ Broadcast(Append(inbox, ClientConnect))
      \/ /\ command.cmd = "lobby_start" /\ state = "lobby"
         /\ UNCHANGED <<server, inbox>>
      \/ /\ command.cmd = "lobby_config" /\ SetConfig(command.slots)
         /\ Broadcast(inbox)
      \/ /\ command.cmd = "lobby_slot"
         /\ SetSlot(command.slot, command.config)
         /\ Broadcast(inbox)
      \/ /\ command.cmd = "map" /\ StartMap(ThisMap)
         /\ inbox' = Append(inbox, ClientConnect)
  BY DEF Execute
<1> QED BY <1>1, <1>2, RunStartKept, RunStartAgainKept, RunConfigKept,
           RunSlotKept, RunMapKept

LEMMA ScreenNextKept ==
  ASSUME SInv, [ScreenNext]_screenVars
  PROVE  Kept
<1>1. CASE MainLoop
  BY <1>1, NewKept, LoopKept, ReadConnectKept, ReadSetupKept, ExecuteKept
     DEF MainLoop
<1>2. ASSUME NEW a \in Remote, Connect(a) PROVE Kept
  BY <1>2, DirectConnectKept, RefuseConnectKept DEF Connect
<1>3. ASSUME NEW c \in ClientNum, Enter(c) PROVE Kept
  BY <1>3, EnterKept
<1>4. CASE OpenScreen \/ Start \/ Cancel
  BY <1>4, OpenScreenKept, StartKept, CancelKept
<1>5. CASE SlotClick
  BY <1>5, SlotClickKept DEF SlotClick
<1>6. CASE UNCHANGED screenVars
  BY <1>6, LoopKept
<1> QED BY <1>1, <1>2, <1>3, <1>4, <1>5, <1>6 DEF ScreenNext

-----------------------------------------------------------------------------
(* The screen and the server agree for every map, every number of remote   *)
(* clients and every order of clicks, connects and packets.                *)
THEOREM SInvHolds == ScreenSpec => []SInv
<1>1. ScreenInit => SInv
  BY InitSInv
<1>2. SInv /\ [ScreenNext]_screenVars => SInv'
  BY ScreenNextKept, KeptIsSInv
<1> QED BY <1>1, <1>2, PTL DEF ScreenSpec

(* Driven by its own screen, the lobby keeps every client in one slot at   *)
(* most, the host too, although a bare sequence of commands would not.     *)
THEOREM OneSeat == ScreenSpec => []OneSeatEach
<1>1. SInv => OneSeatEach
  <2> SUFFICES ASSUME SInv PROVE OneSeatEach
    OBVIOUS
  <2>1. ScreenTypeOK
    BY SInvServer DEF SInv, IInv, ScreenTypeOK, ScreenTypes
  <2>2. SeatOwned
    BY DEF SInv, IInv
  <2>3. ASSUME state # "dead", NEW s \in SlotNum, svs.slots[s].occupied
        PROVE  svs.clients[svs.slots[s].client].lobby_slot = s
    <3>1. svs \in Server /\ Manned(svs) /\ HostOnce(svs)
      BY <2>3, SInvServer
    <3>2. /\ svs.slots[s].client \in ClientNum
          /\ svs.slots[s].client > 0 =>
               svs.clients[svs.slots[s].client].lobby_slot = s
      BY <2>3, <3>1, OccupantIsClient
    <3>3. svs.slots[s].client = 0 => svs.clients[0].lobby_slot = s
      BY <2>3, <3>1 DEF HostOnce
    <3>4. svs.slots[s].client \in Nat
      BY <3>2, Bounds
    <3> QED BY <3>2, <3>3, <3>4
  <2> QED BY <2>1, <2>2, <2>3 DEF OneSeatEach
<1> QED BY <1>1, SInvHolds, PTL

(* Once the host's commands have run, what its screen shows, or will show  *)
(* when the packets under way are read, is the server's slot table: no     *)
(* setup message is lost, repeated late or overtaken by an older one.      *)
THEOREM ScreenIsCurrent == ScreenSpec => []ScreenCurrent
<1>1. SInv => ScreenCurrent
  BY DEF SInv, ScreenAt, Shows, ScreenCurrent, Shown
<1> QED BY <1>1, SInvHolds, PTL
==============================================================================
