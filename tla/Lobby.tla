-------------------------------- MODULE Lobby --------------------------------
(***************************************************************************)
(* The LAN lobby of the server: the table of player slots the host         *)
(* configures (server/sv_lobby.c), the table of clients that connect to it *)
(* (server/sv_init.c), and the step from the lobby to the game, where a    *)
(* client's slot decides which player's edict it controls                  *)
(* (server/sv_user.c).                                                     *)
(*                                                                         *)
(* Abstractions: names, races, teams, colours, the game speed and the      *)
(* revision number are left out; opening the UDP port always succeeds; a   *)
(* slot's map_player and a client's edict are player numbers.              *)
(***************************************************************************)
EXTENDS Integers

CONSTANTS
  Remote,        \* addresses of remote clients
  Loopback,      \* NA_LOOPBACK, the address of the host's own client
  NoAddr,        \* the address of a client record that was never used
  Map,           \* maps that can be hosted
  NoMap,         \* the empty CS_WORLD configstring
  MAX_PLAYERS,   \* slots in the table, and the first invalid player number
  MAX_CLIENTS,   \* client records of the server; as slot.client: nobody
  max_clients,   \* ge->max_clients, the limit of the game library
  Config         \* what the host passes in lobby_slot commands

ASSUME AddressAssumption == Loopback \notin Remote /\ NoAddr \notin Remote
ASSUME LimitsAssumption ==
  /\ MAX_PLAYERS \in Nat \ {0}
  /\ MAX_CLIENTS \in Nat \ {0}
  /\ max_clients \in 1 .. MAX_CLIENTS

SlotType == {"open", "human", "computer", "closed"}

(* What a lobby_slot command may say of a slot. *)
SlotConfig == [visible : BOOLEAN, map_player : 0 .. MAX_PLAYERS, type : SlotType]

ASSUME ConfigAssumption == Config \subseteq SlotConfig

VARIABLES
  state,   \* sv.state: "dead", "lobby" or "game"
  world,   \* sv.configstrings[CS_WORLD]
  svs      \* the clients and the lobby of struct server_static

vars == <<state, world, svs>>

SlotNum == 0 .. MAX_PLAYERS - 1
ClientNum == 0 .. MAX_CLIENTS - 1

(* lobbySlot_t and struct client, reduced to what decides who plays whom.  *)
Slot == [visible : BOOLEAN, occupied : BOOLEAN, client : 0 .. MAX_CLIENTS,
         map_player : 0 .. MAX_PLAYERS, type : SlotType]
Client == [addr : Remote \cup {Loopback, NoAddr},
           cs : {"free", "connected", "spawned"},
           playernum : 0 .. MAX_PLAYERS, lobby_slot : 0 .. MAX_PLAYERS,
           edict : 0 .. MAX_PLAYERS]
NoEdict == MAX_PLAYERS

FreeClient == [addr |-> NoAddr, cs |-> "free", playernum |-> 0,
               lobby_slot |-> 0, edict |-> NoEdict]
EmptySlot == [visible |-> FALSE, occupied |-> FALSE, client |-> 0,
              map_player |-> 0, type |-> "open"]

-----------------------------------------------------------------------------
(* The helpers of sv_lobby.c, as functions of the server record v. *)

(* Mutant: the client loses its player but not its slot. *)
ClearPlayer(v, c) ==
  IF c >= v.num_clients THEN v
  ELSE [v EXCEPT !.clients[c].playernum = MAX_PLAYERS]

ClearClientAssignment(v, c) ==
  IF c >= v.num_clients THEN v
  ELSE [v EXCEPT !.clients[c].lobby_slot = MAX_PLAYERS,
                 !.clients[c].playernum = MAX_PLAYERS]

CanAssignToSlot(v, c, s) ==
  /\ c < v.num_clients
  /\ s < MAX_PLAYERS
  /\ v.slots[s].visible
  /\ v.slots[s].map_player < MAX_PLAYERS

AssignClientToSlot(v, c, s) ==
  IF ~CanAssignToSlot(v, c, s) THEN v
  ELSE [v EXCEPT !.slots[s].occupied = TRUE,
                 !.slots[s].client = c,
                 !.slots[s].type = "human",
                 !.clients[c].lobby_slot = s,
                 !.clients[c].playernum = v.slots[s].map_player]

ClientAssigned(v, c) ==
  \E s \in SlotNum : /\ s < v.slot_count
                     /\ v.slots[s].visible
                     /\ v.slots[s].occupied
                     /\ v.slots[s].client = c

(* The slots the scan of SV_LobbyAssignClient can choose, and its choice:  *)
(* for the host the first HUMAN one, otherwise the first OPEN one.         *)
FreeSlots(v, type) ==
  {s \in SlotNum : /\ s < v.slot_count
                   /\ v.slots[s].visible
                   /\ ~v.slots[s].occupied
                   /\ v.slots[s].type = type}
First(S) == CHOOSE s \in S : \A t \in S : s <= t
ChosenSlot(v, host) ==
  IF host /\ FreeSlots(v, "human") # {} THEN First(FreeSlots(v, "human"))
  ELSE IF FreeSlots(v, "open") # {} THEN First(FreeSlots(v, "open"))
  ELSE MAX_PLAYERS

NothingToAssign(v, c) ==
  ~v.active \/ c >= v.num_clients \/ ClientAssigned(v, c)

(* SV_LobbyAssignClient: its effect, and what it returns. *)
AssignClient(v, c, host) ==
  IF NothingToAssign(v, c) THEN v
  ELSE AssignClientToSlot(v, c, ChosenSlot(v, host))
AssignClientSucceeds(v, c, host) ==
  NothingToAssign(v, c) \/ CanAssignToSlot(v, c, ChosenSlot(v, host))

(* SV_ClientConnect when no client is connected. *)
ConnectHost(v) ==
  AssignClient([v EXCEPT !.num_clients = 1,
                         !.clients[0] = [addr |-> Loopback, cs |-> "connected",
                                         playernum |-> MAX_PLAYERS,
                                         lobby_slot |-> MAX_PLAYERS,
                                         edict |-> NoEdict]],
               0, TRUE)

NoClients == [c \in ClientNum |-> FreeClient]
NoSlots == [s \in SlotNum |-> EmptySlot]
EmptyServer == [clients |-> NoClients, num_clients |-> 0,
                active |-> FALSE, slot_count |-> 0, slots |-> NoSlots]

-----------------------------------------------------------------------------
Init ==
  /\ state = "dead"
  /\ world = NoMap
  /\ svs = EmptyServer

(* SV_StartLobby, which does nothing when this map's lobby is open. *)
StartLobby(m) ==
  /\ ~(state = "lobby" /\ world = m)
  /\ state' = "lobby"
  /\ world' = m
  /\ svs' = ConnectHost([EmptyServer EXCEPT !.active = TRUE])

(* Mutant: the host's slot count is not capped. *)
SetConfigUncapped(slots) ==
  /\ svs.active
  /\ svs' = [svs EXCEPT !.slot_count = slots]
  /\ UNCHANGED <<state, world>>

(* SV_LobbySetConfig. *)
SetConfig(slots) ==
  /\ svs.active
  /\ svs' = [svs EXCEPT !.slot_count = IF slots > MAX_PLAYERS THEN MAX_PLAYERS
                                                              ELSE slots]
  /\ UNCHANGED <<state, world>>

(* SV_LobbySetSlot, in the order of its steps: the table grows, the slot   *)
(* takes the configuration and its occupant stays or goes, and a slot that *)
(* is left HUMAN and free may seat the host.                               *)
Configured(v, s, config) ==
  LET old == v.slots[s]
      stays == config.type = "human" /\ old.occupied
      slot == [visible |-> config.visible, map_player |-> config.map_player,
               type |-> config.type, occupied |-> stays,
               client |-> IF stays THEN old.client ELSE MAX_CLIENTS]
      grown == [v EXCEPT !.slots[s] = slot,
                         !.slot_count = IF s >= @ THEN s + 1 ELSE @]
  IN IF ~old.occupied THEN grown
     ELSE IF ~stays THEN ClearClientAssignment(grown, old.client)
     ELSE IF old.client < v.num_clients
       THEN [grown EXCEPT !.clients[old.client].lobby_slot = s,
                          !.clients[old.client].playernum = config.map_player]
     ELSE grown

SetSlotIn(v, s, config) ==
  LET w == Configured(v, s, config) IN
  IF w.slots[s].type = "human" /\ ~w.slots[s].occupied
  THEN AssignClient(w, 0, TRUE)
  ELSE w

SetSlot(s, config) ==
  /\ svs.active
  /\ svs' = SetSlotIn(svs, s, config)
  /\ UNCHANGED <<state, world>>

(* SV_DirectConnect: a connect packet is ignored when its address is known *)
(* or the server is full, and rolled back when the lobby has no open slot. *)
Known(v, a) == \E c \in ClientNum : c < v.num_clients /\ v.clients[c].addr = a

WithClient(v, a) ==
  [v EXCEPT !.num_clients = @ + 1,
            !.clients[v.num_clients] =
               [addr |-> a, cs |-> "connected", playernum |-> MAX_PLAYERS,
                lobby_slot |-> MAX_PLAYERS, edict |-> NoEdict]]

DirectConnect(a) ==
  LET c == svs.num_clients
      v == WithClient(svs, a)
  IN
  /\ state \in {"lobby", "game"}
  /\ ~Known(svs, a)
  /\ c < max_clients
  /\ state = "lobby" => AssignClientSucceeds(v, c, FALSE)
  /\ svs' = IF state = "lobby" THEN AssignClient(v, c, FALSE) ELSE v
  /\ UNCHANGED <<state, world>>

(* The rollback frees the client record again. *)
RefuseConnect(a) ==
  LET c == svs.num_clients IN
  /\ state = "lobby"
  /\ ~Known(svs, a)
  /\ c < max_clients
  /\ ~AssignClientSucceeds(WithClient(svs, a), c, FALSE)
  /\ svs' = [svs EXCEPT !.clients[c] = FreeClient]
  /\ UNCHANGED <<state, world>>

(* Mutant: a restored client record starts without a slot. *)
RestoredSeatless(v) ==
  [v EXCEPT !.clients =
     [c \in ClientNum |->
        IF c < v.num_clients
        THEN [v.clients[c] EXCEPT !.cs = "connected", !.edict = NoEdict,
                                  !.lobby_slot = MAX_PLAYERS]
        ELSE FreeClient]]

(* SV_SaveLobbyClients and SV_RestoreLobbyClients around the map load: the *)
(* clients of a lobby keep their address and their seat, and no edict.     *)
Restored(v) ==
  [v EXCEPT !.clients =
     [c \in ClientNum |->
        IF c < v.num_clients
        THEN [v.clients[c] EXCEPT !.cs = "connected", !.edict = NoEdict]
        ELSE FreeClient]]

(* Mutant: the map load keeps the lobby's slots but not its clients. *)
StartMapAlone(m) ==
  /\ state' = "game"
  /\ world' = m
  /\ svs' = IF state = "lobby" /\ svs.active
            THEN ConnectHost([svs EXCEPT !.clients = NoClients])
            ELSE ConnectHost(EmptyServer)

(* SV_Map, when the map loads ... *)
StartMap(m) ==
  /\ state' = "game"
  /\ world' = m
  /\ svs' = IF state = "lobby" /\ svs.active
            THEN IF svs.num_clients > 0
                 THEN Restored(svs)
                 ELSE ConnectHost([svs EXCEPT !.clients = NoClients])
            ELSE ConnectHost(EmptyServer)

(* ... and when it does not: the clients are gone, the slots are not.      *)
FailMap(m) ==
  /\ state' = "dead"
  /\ world' = m
  /\ svs' = [svs EXCEPT !.clients = NoClients, !.num_clients = 0]

(* SV_ClientPlayerNumber: a client without a player is given player 0.     *)
ClientPlayerNumber(client) ==
  IF client.playernum < MAX_PLAYERS THEN client.playernum ELSE 0

(* The user commands that bind a client to an edict: SV_PlayerInfo_f and   *)
(* SV_Begin_f, which comes after it or repairs its absence.                *)
PlayerInfo(c) ==
  /\ state = "game"
  /\ c < svs.num_clients
  /\ svs' = [svs EXCEPT !.clients[c].edict =
               ClientPlayerNumber(svs.clients[c])]
  /\ UNCHANGED <<state, world>>

Begin(c) ==
  /\ state = "game"
  /\ c < svs.num_clients
  /\ svs' = [svs EXCEPT
               !.clients[c].cs = "spawned",
               !.clients[c].edict = IF @ = NoEdict
                                    THEN ClientPlayerNumber(svs.clients[c])
                                    ELSE @]
  /\ UNCHANGED <<state, world>>

(* The next-state relation: the host's console, the network, the clients.  *)
Next ==
  \/ \E m \in Map : StartLobby(m) \/ StartMap(m) \/ FailMap(m)
  \/ \E n \in 0 .. MAX_PLAYERS + 1 : SetConfig(n)
  \/ \E s \in SlotNum, config \in Config : SetSlot(s, config)
  \/ \E a \in Remote : DirectConnect(a) \/ RefuseConnect(a)
  \/ \E c \in ClientNum : PlayerInfo(c) \/ Begin(c)

Spec == Init /\ [][Next]_vars

-----------------------------------------------------------------------------
(* The types of the server state, the client and slot tables included. *)
TypeOK ==
  /\ state \in {"dead", "lobby", "game"}
  /\ world \in Map \cup {NoMap}
  /\ svs \in [clients : [ClientNum -> Client], num_clients : 0 .. max_clients,
              active : BOOLEAN, slot_count : 0 .. MAX_PLAYERS,
              slots : [SlotNum -> Slot]]

(* A seated client owns its slot: the slot is HUMAN, occupied by this      *)
(* client, and names the player the client will control.  Hence no two     *)
(* clients sit in one slot (sv_lobby.c, over every order of lobby_config,  *)
(* lobby_slot and connect).                                                *)
OwnsSlot(v, c) ==
  LET client == v.clients[c]
      slot == v.slots[client.lobby_slot]
  IN client.lobby_slot < MAX_PLAYERS =>
       /\ slot.occupied
       /\ slot.client = c
       /\ slot.type = "human"
       /\ client.playernum = slot.map_player

SeatOwned == \A c \in ClientNum : c < svs.num_clients => OwnsSlot(svs, c)

(* While the server runs, an occupied slot names a connected client, and a *)
(* remote one sits there: a slot never keeps a player the host cannot see. *)
Occupant(v, s) ==
  LET slot == v.slots[s] IN
  slot.occupied => /\ slot.client < v.num_clients
                   /\ slot.client > 0 => v.clients[slot.client].lobby_slot = s

OccupantSeated ==
  state # "dead" => \A s \in SlotNum : Occupant(svs, s)

(* A remote client keeps its record, its address and its seat until the    *)
(* host closes that very slot or opens another lobby: neither the start of *)
(* the game nor what happens to other slots moves it.                      *)
Closed(s) == svs'.slots[s].type # "human"
SameSeat(c) == /\ svs'.clients[c].addr = svs.clients[c].addr
               /\ \/ svs'.clients[c].lobby_slot = svs.clients[c].lobby_slot
                  \/ Closed(svs.clients[c].lobby_slot)
AllKeepSeats ==
  \A c \in ClientNum :
    /\ 0 < c /\ c < svs.num_clients /\ svs.clients[c].lobby_slot < MAX_PLAYERS
    /\ state = "lobby"
    /\ \/ state' = "lobby" /\ world' = world
       \/ state' = "game"
    => c < svs'.num_clients /\ SameSeat(c)
SeatKept == [][AllKeepSeats]_vars
==============================================================================
