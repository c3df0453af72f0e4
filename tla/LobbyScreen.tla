----------------------------- MODULE LobbyScreen -----------------------------
(***************************************************************************)
(* A listen server with its lobby open, one main loop iteration after      *)
(* another: the server (module Lobby), the host's own client, the loopback *)
(* queue from the one to the other, and the game-setup screen              *)
(* (games/warcraft-3/ui/screens/game_setup.c) whose clicks reach the       *)
(* server as text in the console command buffer.                           *)
(*                                                                         *)
(* An iteration (common/main.c, client/cl_main.c) is SV_Frame, CL_Input,   *)
(* CL_ReadPackets and Cbuf_Execute, in this order: a click writes commands *)
(* from the slots the screen showed before the packets of the iteration    *)
(* were read, and they run after.                                          *)
(***************************************************************************)
EXTENDS Lobby, Sequences, FiniteSets

CONSTANTS
  ThisMap,       \* the map that is hosted
  MapSlots,      \* the slots GameSetup_PopulateSlots reads from the map
  Click,         \* the clicks the host may make
  MaxCommands    \* bound: commands waiting when the host clicks

VARIABLES
  inbox,     \* the loopback packets the host's client has not read
  greeted,   \* the client has queued "new" in answer to client_connect
  configs,   \* setup.configs: what the screen shows of each slot
  screen,    \* "setup", "other", or "game" once ui_state.game_mode is set
  cmd_text,  \* the console commands waiting in the buffer
  phase      \* where the main loop is

screenVars ==
  <<state, world, svs, inbox, greeted, configs, screen, cmd_text, phase>>
server == <<state, world, svs>>
client_side == <<greeted, configs, screen, cmd_text>>

ASSUME ThisMapAssumption == ThisMap \in Map

NoConfig == [visible |-> FALSE, map_player |-> 0, type |-> "open"]

(* A map's slots: from the first slot on, as many as it has players. *)
ASSUME MapSlotsAssumption ==
  /\ MapSlots \in [SlotNum -> [visible : BOOLEAN,
                               map_player : 0 .. MAX_PLAYERS - 1,
                               type : {"open", "human", "computer"}]]
  /\ \A s \in SlotNum : MapSlots[s].visible =>
       \A t \in 0 .. s : MapSlots[t].visible

-----------------------------------------------------------------------------
(* The lobby_setup message of a slot table, as the client decodes it: what *)
(* is hidden has no player, what is beyond slot_count is nothing.          *)
SetupOf(v) ==
  [s \in SlotNum |->
     IF s >= v.slot_count THEN NoConfig
     ELSE [visible |-> v.slots[s].visible,
           map_player |-> IF v.slots[s].visible THEN v.slots[s].map_player
                                                ELSE MAX_PLAYERS,
           type |-> v.slots[s].type]]

Setup(v) == [kind |-> "lobby_setup", slots |-> SetupOf(v)]
ClientConnect == [kind |-> "client_connect"]

(* Mutant: the setup is written before the command changes the lobby. *)
BroadcastEarly(q) ==
  inbox' = IF state' = "lobby" THEN Append(q, Setup(svs)) ELSE q

(* SV_LobbyBroadcastSetup after the packets q. *)
Broadcast(q) ==
  inbox' = IF state' = "lobby" THEN Append(q, Setup(svs')) ELSE q

(* Mutant: the last slot is not counted. *)
SlotCountShort(conf) == Cardinality({s \in SlotNum : conf[s].visible}) - 1

(* The commands GameSetup_AppendLobbyConfig and _AppendLobbySlot write.    *)
SlotCount(conf) == Cardinality({s \in SlotNum : conf[s].visible})
LobbyConfig(conf) == <<[cmd |-> "lobby_config", slots |-> SlotCount(conf)]>>
LobbySlot(conf, s) == <<[cmd |-> "lobby_slot", slot |-> s, config |-> conf[s]]>>
LobbySlots(conf) ==
  [i \in 1 .. SlotCount(conf) |-> LobbySlot(conf, i - 1)[1]]

(* Mutant: the click publishes the lobby but does not start the map. *)
StartGameLobby(conf) == LobbyConfig(conf) \o LobbySlots(conf)

(* GameSetup_PublishLobby, and the text of GameSetup_StartGame. *)
PublishLobby(conf) ==
  <<[cmd |-> "lobby_start"]>> \o LobbyConfig(conf) \o LobbySlots(conf)
StartGame(conf) ==
  LobbyConfig(conf) \o LobbySlots(conf) \o <<[cmd |-> "map"]>>

-----------------------------------------------------------------------------
ScreenInit ==
  /\ Init
  /\ inbox = <<>> /\ greeted = FALSE /\ cmd_text = <<>>
  /\ configs = [s \in SlotNum |-> NoConfig]
  /\ screen = "other"
  /\ phase = "server"

(* SV_ReadPackets: the host's "new", and what the remote clients send. *)
New ==
  /\ phase = "server" /\ greeted
  /\ greeted' = FALSE
  /\ inbox' = IF state = "lobby" THEN Append(inbox, Setup(svs)) ELSE inbox
  /\ UNCHANGED <<server, configs, screen, cmd_text, phase>>

Connect(a) ==
  /\ phase = "server"
  /\ \/ /\ DirectConnect(a)
        /\ Broadcast(inbox)
     \/ RefuseConnect(a) /\ UNCHANGED inbox
  /\ UNCHANGED <<client_side, phase>>

Enter(c) ==
  /\ phase = "server"
  /\ PlayerInfo(c) \/ Begin(c)
  /\ UNCHANGED <<client_side, inbox, phase>>

EndServerFrame ==
  /\ phase = "server" /\ phase' = "input"
  /\ UNCHANGED <<server, client_side, inbox>>

-----------------------------------------------------------------------------
(* CL_Input: GameSetup_Init when the host opens the screen (it shows the   *)
(* slots of the map, whatever the lobby holds), the slot menus, the start  *)
(* and the cancel button.                                                  *)
Add(commands) == cmd_text' = cmd_text \o commands

OpenScreen ==
  /\ "open" \in Click /\ phase = "input" /\ screen = "other"
  /\ Len(cmd_text) < MaxCommands
  /\ screen' = "setup"
  /\ configs' = MapSlots
  /\ Add(PublishLobby(MapSlots))
  /\ UNCHANGED <<server, inbox, greeted, phase>>

SetSlotType(s, type) ==
  /\ "type" \in Click /\ phase = "input" /\ screen = "setup"
  /\ Len(cmd_text) < MaxCommands
  /\ configs[s].visible
  /\ configs' = [configs EXCEPT ![s].type = type]
  /\ Add(LobbySlot(configs', s))
  /\ UNCHANGED <<server, inbox, greeted, screen, phase>>

(* A race, team or colour: the same slot is published as it is shown. *)
SetSlotLook(s) ==
  /\ "look" \in Click /\ phase = "input" /\ screen = "setup"
  /\ Len(cmd_text) < MaxCommands
  /\ configs[s].visible
  /\ Add(LobbySlot(configs, s))
  /\ UNCHANGED <<server, inbox, greeted, configs, screen, phase>>

Start ==
  /\ "start" \in Click /\ phase = "input" /\ screen = "setup"
  /\ screen' = "game"
  /\ Add(StartGame(configs))
  /\ UNCHANGED <<server, inbox, greeted, configs, phase>>

Cancel ==
  /\ "cancel" \in Click /\ phase = "input" /\ screen = "setup"
  /\ screen' = "other"
  /\ UNCHANGED <<server, inbox, greeted, configs, cmd_text, phase>>

EndInput ==
  /\ phase = "input" /\ phase' = "read"
  /\ UNCHANGED <<server, client_side, inbox>>

-----------------------------------------------------------------------------
(* CL_ReadPackets: a setup message opens the screen (which publishes the   *)
(* map's slots once more) and replaces what it shows, except in a game.    *)
ReadConnect ==
  /\ phase = "read" /\ inbox # <<>> /\ Head(inbox).kind = "client_connect"
  /\ greeted' = TRUE
  /\ inbox' = Tail(inbox)
  /\ UNCHANGED <<server, configs, screen, cmd_text, phase>>

ReadSetup ==
  /\ phase = "read" /\ inbox # <<>> /\ Head(inbox).kind = "lobby_setup"
  /\ inbox' = Tail(inbox)
  /\ IF screen = "game" THEN UNCHANGED <<configs, screen, cmd_text>>
     ELSE /\ configs' = Head(inbox).slots
          /\ screen' = "setup"
          /\ Add(IF screen = "other" THEN PublishLobby(MapSlots) ELSE <<>>)
  /\ UNCHANGED <<server, greeted, phase>>

EndRead ==
  /\ phase = "read" /\ inbox = <<>>
  /\ phase' = "execute"
  /\ UNCHANGED <<server, client_side, inbox>>

-----------------------------------------------------------------------------
(* Cbuf_Execute: each command in turn, with the packets it sends. *)
Execute ==
  LET command == Head(cmd_text) IN
  /\ phase = "execute" /\ cmd_text # <<>>
  /\ cmd_text' = Tail(cmd_text)
  /\ \/ /\ command.cmd = "lobby_start"
        /\ \/ /\ StartLobby(ThisMap)
              /\ Broadcast(Append(inbox, ClientConnect))
           \/ state = "lobby" /\ UNCHANGED <<server, inbox>>
     \/ /\ command.cmd = "lobby_config"
        /\ SetConfig(command.slots)
        /\ Broadcast(inbox)
     \/ /\ command.cmd = "lobby_slot"
        /\ SetSlot(command.slot, command.config)
        /\ Broadcast(inbox)
     \/ /\ command.cmd = "map"
        /\ StartMap(ThisMap)
        /\ inbox' = Append(inbox, ClientConnect)
  /\ UNCHANGED <<greeted, configs, screen, phase>>

EndExecute ==
  /\ phase = "execute" /\ cmd_text = <<>>
  /\ phase' = "server"
  /\ UNCHANGED <<server, client_side, inbox>>

-----------------------------------------------------------------------------
SlotClick == \E s \in SlotNum : \/ \E type \in SlotType : SetSlotType(s, type)
                                \/ SetSlotLook(s)

MainLoop ==
  \/ New \/ EndServerFrame \/ EndInput
  \/ ReadConnect \/ ReadSetup \/ EndRead
  \/ Execute \/ EndExecute

ScreenNext ==
  \/ MainLoop
  \/ \E a \in Remote : Connect(a)
  \/ \E c \in ClientNum : Enter(c)
  \/ OpenScreen \/ SlotClick \/ Start \/ Cancel

(* The main loop never waits: neither for the host nor for a packet. *)
ScreenSpec ==
  ScreenInit /\ [][ScreenNext]_screenVars /\ WF_screenVars(MainLoop)

-----------------------------------------------------------------------------
(* The types of the server and of the screen. *)
ScreenTypeOK ==
  /\ TypeOK
  /\ phase \in {"server", "input", "read", "execute"}
  /\ screen \in {"setup", "other", "game"}
  /\ greeted \in BOOLEAN
  /\ configs \in [SlotNum -> SlotConfig]

(* Driven by its own screen, the lobby keeps every client, the host too,   *)
(* in one slot at most: the two sides agree on who sits where.  (With the  *)
(* types.)                                                                 *)
OneSeatEach ==
  /\ ScreenTypeOK
  /\ SeatOwned
  /\ state # "dead" =>
       \A s \in SlotNum : svs.slots[s].occupied =>
         svs.clients[svs.slots[s].client].lobby_slot = s

(* Once the host's commands have run, what its screen shows, or will show  *)
(* when the packets on their way are read, is the server's slot table: no  *)
(* setup message is lost, repeated late or overwritten by an older one.    *)
SetupsIn(q) == {i \in 1 .. Len(q) : q[i].kind = "lobby_setup"}
Latest(S) == CHOOSE i \in S : \A j \in S : j <= i
ShownAfter(q, conf) ==
  IF SetupsIn(q) = {} THEN conf ELSE q[Latest(SetupsIn(q))].slots
Shown == ShownAfter(inbox, configs)

ScreenCurrent ==
  state = "lobby" /\ screen = "setup" /\ cmd_text = <<>> => Shown = SetupOf(svs)

(* A click on start always leads to the game (GameSetup_StartGame). *)
StartLeadsToGame == screen = "game" ~> state = "game"
==============================================================================
