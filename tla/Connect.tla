------------------------------- MODULE Connect -------------------------------
(***************************************************************************)
(* A remote client and the server it joins, over UDP (client/cl_main.c,    *)
(* client/cl_parse.c, server/sv_init.c, server/sv_user.c).  The client     *)
(* asks with one out-of-band "connect"; from the answer on, each message   *)
(* of the server names in a "mirror" the command that the client is to     *)
(* send next, until the client has loaded the map and sends "begin".       *)
(* Nothing is numbered, acknowledged or sent twice.  The client gives up   *)
(* after ten seconds without a packet, and the server never gives a        *)
(* client's record up while its map runs.                                  *)
(*                                                                         *)
(* The network keeps what is in flight as two sets, so that packets are    *)
(* read in any order; Fault loses a packet, repeats one, or cuts the wire. *)
(* The local client of the server is in LobbyScreen, the slots in Lobby,   *)
(* the other configstrings in ConfigStrings: a datagram carries here only  *)
(* what decides how the join goes on.                                      *)
(***************************************************************************)
EXTENDS Integers

CONSTANTS
  MaxMap,       \* bound: maps the server loads, numbered from 1
  MaxConnects,  \* bound: times the player asks to connect
  MaxFaults     \* bound: faults of the network

ASSUME BoundsAssumption ==
  MaxMap \in Nat \ {0} /\ MaxConnects \in Nat /\ MaxFaults \in Nat

VARIABLES
  sv,       \* state and map of the server, and its record of this client
  cls,      \* the client: cls.state, the statics of cl_view.c and cl_parse.c
  out,      \* cls.netchan.message: commands collected for the server
  overdue,  \* ten seconds have passed since the client's last packet
  up, down, \* packets in flight to the server, and to the client
  wire,     \* FALSE: whatever is sent is lost
  connects, faults

serverVars == <<sv>>
clientVars == <<cls, out, overdue>>
networkVars == <<up, down, wire, faults>>
vars == <<sv, cls, out, overdue, up, down, wire, connects, faults>>

NoMap == 0
Mirrored == {"configstrings", "baselines", "playerinfo"}
Command == Mirrored \cup {"new", "begin", "disconnect"}

(* To the server go the out-of-band "connect" and the commands, of which a *)
(* transmission carries one or two (each is answered by itself, in any     *)
(* order); to the client, messages.                                        *)
Message(svc, command, map) == [svc |-> svc, command |-> command, map |-> map]
Svc(svc) == Message(svc, "", NoMap)
Mirror(command) == Message("mirror", command, NoMap)
World(m) == Message("configstring", "", m)

Sent(packets) == IF wire THEN packets ELSE {}

-----------------------------------------------------------------------------
Init ==
  /\ sv \in [state : {"lobby", "game"}, map : {1}, record : {"free"}]
  /\ cls = [state |-> "disconnected", world |-> NoMap, last_world |-> NoMap,
            world_loaded |-> FALSE, begin_sent |-> FALSE,
            refresh_prepped |-> FALSE]
  /\ out = {} /\ overdue = FALSE
  /\ up = {} /\ down = {} /\ wire = TRUE
  /\ connects = 0 /\ faults = 0

Running == sv.state # "off"

-----------------------------------------------------------------------------
(* The server.  SV_DirectConnect, for a packet whose address is new: there *)
(* is a seat, or none, or the server is full of clients that are not       *)
(* modelled.  A known address gets no answer.                              *)
Admit ==
  /\ sv.record = "free"
  /\ \/ /\ sv' = [sv EXCEPT !.record = "connected"]
        /\ down' = down \cup
             Sent({Svc("client_connect")} \cup
                  IF sv.state = "lobby" THEN {Svc("setup")} ELSE {})
     \/ UNCHANGED <<sv, down>>

(* Mutant: a known address is answered, as in Quake 2. *)
DirectConnectAgain ==
  \/ Admit
  \/ /\ sv.record # "free"
     /\ down' = down \cup Sent({Svc("client_connect")})
     /\ UNCHANGED sv

DirectConnect ==
  \/ Admit
  \/ sv.record # "free" /\ UNCHANGED <<sv, down>>

(* What the commands of SV_ExecuteUserCommand answer, and what they make   *)
(* of the client's record.  The strings fill more than one datagram.       *)
Answer(command) ==
  CASE command = "new" ->
         {IF sv.state = "lobby" THEN Svc("setup") ELSE Mirror("configstrings")}
    [] command = "configstrings" ->
         {World(sv.map), Mirror("baselines")}
    [] command = "baselines" -> {Mirror("playerinfo")}
    [] OTHER -> {}

ExecuteUserCommand(command) ==
  /\ sv' = IF command = "begin" THEN [sv EXCEPT !.record = "spawned"] ELSE sv
  /\ down' = down \cup Sent(Answer(command))

(* SV_ReadPackets: from an unknown address only "connect" is heard. *)
Receive(c) ==
  IF c = "connect" THEN DirectConnect
  ELSE IF sv.record # "free" THEN ExecuteUserCommand(c)
  ELSE UNCHANGED <<sv, down>>

ServerReads ==
  \E c \in up :
    /\ Running
    /\ Receive(c)
    /\ up' = up \ {c}
    /\ UNCHANGED <<clientVars, wire, connects, faults>>

(* SV_SendClientMessages: a frame to a client that has begun. *)
ServerSends ==
  /\ sv.state = "game" /\ sv.record = "spawned"
  /\ down' = down \cup Sent({Svc("frame")})
  /\ UNCHANGED <<sv, clientVars, up, wire, connects, faults>>

(* SV_Map from the lobby restores its clients; from a game it forgets      *)
(* them, and they are not told.  A map's life and its loading take longer  *)
(* than a packet is under way: an old "connect" does not outlive a map.    *)
StartMap ==
  /\ sv.state = "lobby" /\ down = {}
  /\ sv' = [sv EXCEPT !.state = "game",
                      !.record = IF @ = "free" THEN @ ELSE "connected"]
  /\ down' = IF sv.record = "free" THEN {} ELSE Sent({Svc("client_connect")})
  /\ UNCHANGED <<clientVars, up, wire, connects, faults>>

NextMap ==
  /\ sv.state = "game" /\ sv.map < MaxMap
  /\ down = {} /\ "connect" \notin up
  /\ sv' = [sv EXCEPT !.map = @ + 1, !.record = "free"]
  /\ UNCHANGED <<clientVars, networkVars, connects>>

(* SV_Shutdown says goodbye; a crash does not. *)
Shutdown ==
  /\ Running
  /\ sv' = [sv EXCEPT !.state = "off", !.record = "free"]
  /\ down' = down \cup IF sv.record = "free" THEN {}
                       ELSE Sent({Svc("disconnect")})
  /\ UNCHANGED <<clientVars, up, wire, connects, faults>>

Crash ==
  /\ Running
  /\ sv' = [sv EXCEPT !.state = "off", !.record = "free"]
  /\ UNCHANGED <<clientVars, networkVars, connects>>

-----------------------------------------------------------------------------
(* The client.  CL_Connect, also while no answer has come.  It does not ask *)
(* for a state itself; it is called from the LAN screen (cl_main.c:406) and *)
(* when the program starts (main.c:201), where the client is in neither of  *)
(* the other two.                                                           *)
ConnectTo ==
  /\ connects < MaxConnects
  /\ cls.state \in {"disconnected", "connecting"}
  /\ cls' = [cls EXCEPT !.state = "connecting"]
  /\ out' = {}
  /\ up' = up \cup Sent({"connect"})
  /\ connects' = connects + 1
  /\ UNCHANGED <<sv, overdue, down, wire, faults>>

(* Mutant: only a client that plays counts as one that is answered. *)
OnlineActive == cls.state = "active"

Online == cls.state \in {"connected", "active"}

(* Mutant: CL_ClearState keeps what was prepared. *)
DisconnectPrepared ==
  /\ cls' = [cls EXCEPT !.state = "disconnected", !.world = NoMap]
  /\ out' = {} /\ overdue' = FALSE
  /\ up' = up \cup IF Online THEN Sent({"disconnect"}) ELSE {}

(* CL_Disconnect with CL_ClearState: a client that is not disconnected yet *)
(* says so, and forgets what it knew but for the statics.                  *)
Disconnect ==
  /\ cls' = [cls EXCEPT !.state = "disconnected", !.world = NoMap,
                        !.refresh_prepped = FALSE]
  /\ out' = {} /\ overdue' = FALSE
  /\ up' = up \cup IF Online THEN Sent({"disconnect"}) ELSE {}

(* CL_ParseServerMessage and CL_ConnectionlessPacket, which ask for no     *)
(* state: a packet may bring a client back that had given up.              *)
Parse(m) ==
  \/ /\ m.svc = "client_connect"
     /\ out' = out \cup {"new"}
     /\ cls' = IF Online THEN cls ELSE [cls EXCEPT !.state = "connected"]
     /\ overdue' = FALSE /\ UNCHANGED up
  \/ /\ m.svc = "mirror"
     /\ out' = out \cup {m.command}
     /\ overdue' = FALSE /\ UNCHANGED <<cls, up>>
  \/ /\ m.svc = "configstring"
     /\ cls' = [cls EXCEPT !.world = m.map, !.last_world = m.map,
                           !.state = IF m.map = cls.last_world THEN @
                                     ELSE "connected"]
     /\ overdue' = FALSE /\ UNCHANGED <<out, up>>
  \/ /\ m.svc = "frame"
     /\ cls' = [cls EXCEPT !.state = IF cls.refresh_prepped THEN "active"
                                                            ELSE @]
     /\ overdue' = FALSE /\ UNCHANGED <<out, up>>
  \/ /\ m.svc = "disconnect"
     /\ IF cls.state = "disconnected"
        THEN overdue' = FALSE /\ UNCHANGED <<cls, out, up>>
        ELSE Disconnect
  \/ m.svc = "setup" /\ overdue' = FALSE /\ UNCHANGED <<cls, out, up>>

ClientReads(svc) ==
  \E m \in {n \in down : n.svc = svc} :
    /\ Parse(m)
    /\ down' = down \ {m}
    /\ UNCHANGED <<sv, wire, connects, faults>>

(* CL_Frame calls CL_PrepRefresh while a map is prepared, and in the game. *)
Preparing == \/ cls.state = "active"
             \/ cls.state = "connected" /\ ~cls.refresh_prepped

(* Mutant: the flags do not start again. *)
PrepRefreshOnce ==
  cls' = IF ~Preparing \/ cls.world = NoMap THEN cls
         ELSE [cls EXCEPT !.world_loaded = TRUE, !.begin_sent = TRUE,
                          !.refresh_prepped = TRUE]

(* CL_PrepRefresh: without a world the flags start again; with one the map *)
(* is loaded, and "begin" is left for the next transmission, once.         *)
PrepRefresh ==
  cls' = IF ~Preparing THEN cls
         ELSE IF cls.world = NoMap
           THEN [cls EXCEPT !.world_loaded = FALSE, !.begin_sent = FALSE]
         ELSE [cls EXCEPT !.world_loaded = TRUE, !.begin_sent = TRUE,
                          !.refresh_prepped = TRUE]
Begins == Preparing /\ cls.world # NoMap /\ ~cls.begin_sent

(* Mutant: who plays is not watched by CL_CheckTimeout. *)
ClientFramePatient ==
  /\ \/ cls.state = "connected" /\ overdue /\ Disconnect
     \/ /\ ~(cls.state = "connected" /\ overdue)
        /\ up' = up \cup IF Online THEN Sent(out) ELSE {}
        /\ out' = (IF Online THEN {} ELSE out)
                    \cup (IF Begins THEN {"begin"} ELSE {})
        /\ PrepRefresh
        /\ UNCHANGED overdue
  /\ UNCHANGED <<sv, down, wire, connects, faults>>

(* The rest of CL_Frame: CL_CheckTimeout, CL_SendCmd, CL_PrepRefresh. *)
ClientFrame ==
  /\ \/ Online /\ overdue /\ Disconnect
     \/ /\ ~(Online /\ overdue)
        /\ up' = up \cup IF Online THEN Sent(out) ELSE {}
        /\ out' = (IF Online THEN {} ELSE out)
                    \cup (IF Begins THEN {"begin"} ELSE {})
        /\ PrepRefresh
        /\ UNCHANGED overdue
  /\ UNCHANGED <<sv, down, wire, connects, faults>>

-----------------------------------------------------------------------------
(* Ten seconds without a packet: longer than any packet is under way, than *)
(* the server takes to answer one, and than a client takes to load a map   *)
(* (which reads what came meanwhile before it looks at the clock).         *)
FramesCome == wire /\ sv.state = "game" /\ sv.record = "spawned"
Quiet ==
  /\ down = {}
  /\ up = {} \/ ~Running
  /\ out = {} /\ ~Begins
  /\ ~FramesCome

TimePasses ==
  /\ Online /\ Quiet
  /\ overdue' = TRUE
  /\ UNCHANGED <<sv, cls, out, networkVars, connects>>

Lose ==
  /\ \/ \E c \in up : up' = up \ {c} /\ UNCHANGED down
     \/ \E m \in down : down' = down \ {m} /\ UNCHANGED up
  /\ UNCHANGED wire

(* A packet is read and still there. *)
Repeat ==
  \/ \E c \in up : Running /\ Receive(c) /\ UNCHANGED <<clientVars, up>>
  \/ \E m \in down : Parse(m) /\ UNCHANGED <<sv, down>>

Fault ==
  /\ faults < MaxFaults
  /\ faults' = faults + 1
  /\ UNCHANGED connects
  /\ \/ Lose /\ UNCHANGED <<serverVars, clientVars>>
     \/ Repeat /\ UNCHANGED wire
     \/ wire /\ wire' = FALSE /\ UNCHANGED <<serverVars, clientVars, up, down>>

Mend ==
  /\ ~wire /\ wire' = TRUE
  /\ UNCHANGED <<serverVars, clientVars, up, down, connects, faults>>

-----------------------------------------------------------------------------
Kind == {"client_connect", "setup", "mirror", "configstring", "frame",
         "disconnect"}

Next ==
  \/ ServerReads \/ ServerSends
  \/ StartMap \/ NextMap \/ Shutdown \/ Crash
  \/ ConnectTo \/ ClientFrame
  \/ \E k \in Kind : ClientReads(k)
  \/ TimePasses \/ Fault \/ Mend

(* Both main loops run on, what is in flight and not lost arrives, and the *)
(* clock advances.  Nothing obliges the player, the host or the network.   *)
Fairness ==
  /\ WF_vars(ServerReads) /\ WF_vars(ServerSends)
  /\ WF_vars(ClientFrame) /\ WF_vars(TimePasses)
  /\ \A k \in Kind : WF_vars(ClientReads(k))

Spec == Init /\ [][Next]_vars /\ Fairness

-----------------------------------------------------------------------------
(* The types of the join; and who plays has loaded a map, whatever packets *)
(* of an earlier session come late: what CL_ClearState forgets and what    *)
(* stays static go together.                                               *)
Map == 0 .. MaxMap
TypeOK ==
  /\ sv \in [state : {"lobby", "game", "off"}, map : 1 .. MaxMap,
             record : {"free", "connected", "spawned"}]
  /\ cls \in [state : {"disconnected", "connecting", "connected", "active"},
              world : Map, last_world : Map, world_loaded : BOOLEAN,
              begin_sent : BOOLEAN, refresh_prepped : BOOLEAN]
  /\ out \subseteq Command /\ overdue \in BOOLEAN /\ wire \in BOOLEAN
  /\ up \subseteq Command \cup {"connect"}
  /\ \A m \in down : m.svc \in Kind
  /\ connects \in 0 .. MaxConnects /\ faults \in 0 .. MaxFaults
  /\ cls.state = "active" =>
       cls.refresh_prepped /\ cls.world_loaded /\ cls.world # NoMap

(* A client that the server has admitted to a running game, and none of    *)
(* whose packets is lost or repeated, gets to play while that map runs:    *)
(* the chain of commands has no dead end (client/cl_parse.c:531).          *)
AdmittedPlays ==
  (sv.record = "connected" /\ sv.state = "game")
    ~> (cls.state = "active" \/ sv.record = "free" \/ faults > 0)

(* Whatever is lost, repeated or late, and whenever the server stops, a    *)
(* client that has been answered does not wait for ever: it gets to play   *)
(* or is disconnected (CL_CheckTimeout).                                   *)
AnsweredIsSettled ==
  cls.state = "connected" ~> cls.state \in {"active", "disconnected"}

(* A player whose server is gone is not left in a game that stands still. *)
ServerLossNoticed == ~Running ~> ~Online

(* A client that asks again while the server still has its record is not   *)
(* answered (server/sv_init.c:151), as long as that map runs, however      *)
(* often it asks: no command of the client frees the record.               *)
LockedOut ==
  /\ cls.state = "connecting" /\ sv.record # "free"
  /\ up \subseteq {"connect", "disconnect"}
  /\ down \subseteq {Svc("frame")}
NoWayBack ==
  [][LockedOut /\ sv'.state = sv.state /\ sv'.map = sv.map => LockedOut']_vars
==============================================================================
