--------------------------------- MODULE Fog ---------------------------------
(***************************************************************************)
(* The fog of war of Warcraft III (games/warcraft-3/game/g_fow.c) and its  *)
(* copy on the clients (client/cl_parse.c:361-529).  The server keeps for  *)
(* each player which cells are visible and which have been explored, works *)
(* them out anew in every frame from the units of the player and of those  *)
(* who share their vision, and from the fog modifiers of the scripts, and  *)
(* sends the rows that changed, run-length encoded, to the client that the *)
(* server takes the player's edict to mean (server/sv_game.c:136).  A      *)
(* message that is lost is not sent again.                                 *)
(*                                                                         *)
(* Scripts, deaths and moves change the world between frames.  Cells       *)
(* blocked by trees are kept until a hash over the trees changes; the hash *)
(* is modelled by what it is taken over (no collisions).  Clients may join *)
(* at any time; none leaves while the map runs.                            *)
(***************************************************************************)
EXTENDS FogSight, FiniteSetsExt

CONSTANTS
  Player,       \* the players: player p's edict is number p
  Seatings,     \* the players of the clients that the lobby may have seated
  MaxClients,   \* MAX_CLIENTS
  Units,        \* number of units: edicts 1 .. Units, in this order
  Radius,       \* Radius[u]: how far unit u sees, in cells
  Place,        \* cells the units go to
  Start,        \* the units as the map places them
  Tree,         \* things that block sight
  Footprint,    \* Footprint[t]: the cells that t blocks while it stands
  Modifier,     \* fog modifiers the scripts have created
  Effect,       \* Effect[m]: player, shared, visible (its state), cells
  MaxModifiers, \* MAX_FOG_MODIFIERS
  Chunk,        \* FOW_CHUNK_TARGET_BYTES
  RunMax,       \* the longest run of a byte, 255
  MaxLosses,    \* bound: messages lost
  MaxChanges    \* bound: changes of the world

Unit == 1 .. Units

ASSUME FogAssumption ==
  /\ Width \in Nat \ {0} /\ Height \in Nat \ {0} /\ Units \in Nat
  /\ Player \subseteq Nat /\ 0 \in Player /\ Place \subseteq Cell
  /\ MaxClients \in Nat /\ Seatings \subseteq Seq(Player)
  /\ \A s \in Seatings : Len(s) <= MaxClients
  /\ Radius \in [Unit -> Nat \ {0}]
  /\ Start \in [Unit -> [cell : Place, owner : Player, reveals : BOOLEAN]]
  /\ Footprint \in [Tree -> SUBSET Cell] /\ "none" \notin Tree
  /\ Effect \in [Modifier -> [player : Player, shared : BOOLEAN,
                              visible : BOOLEAN, cells : SUBSET Cell]]
  /\ MaxModifiers \in Nat /\ RunMax \in Nat \ {0, 1}
  /\ MaxLosses \in Nat /\ MaxChanges \in Nat
  /\ Chunk \in Nat /\ Chunk > 2 * Width  \* one row of both planes fits

VARIABLES
  unit,    \* of each unit its cell, its owner, and whether it can reveal
  standing, \* trees that stand
  allied,  \* pairs of players that share vision
  started, \* modifiers started, g_fog_modifiers the list they are kept in
  modifiers,
  hashed,   \* the trees the blocked cells were made from, or {"none"}
  blocked, \* level.fow.blocked
  grid,    \* level.fow.players
  seat,    \* svs.clients: the player of each, in the order they came
  begun,   \* clients that have begun
  client,  \* the planes of each client
  missed,  \* history: rows of each plane whose last message to it was lost
  losses,
  stale,   \* the world has changed since the last G_FowUpdate
  changes

world == <<unit, standing, allied, started, modifiers>>
fow == <<hashed, blocked, grid>>
seats == <<seat, begun>>
copies == <<client, missed, losses>>
fogVars == <<unit, standing, allied, started, modifiers, hashed, blocked, grid,
          seat, begun, client, missed, losses, stale, changes>>

Seat == 1 .. MaxClients

Plane == {"visible", "explored"}
NoCells == [visible |-> {}, explored |-> {}]
RowsOf(cells) == {c[2] : c \in cells}
CellsOf(rows) == Column \X rows

-----------------------------------------------------------------------------
(* G_FowInit: every row is to be sent.  Whom the lobby has seated is       *)
(* connected (SV_RestoreLobbyClients) and has not begun.                   *)
FogInit ==
  /\ unit = Start
  /\ standing = Tree /\ allied = {} /\ started = {} /\ modifiers = <<>>
  /\ hashed = {"none"} /\ blocked = {}
  /\ grid = [p \in Player |->
       [visible |-> {}, explored |-> {}, had_visible |-> FALSE,
        client_connected |-> FALSE,
        dirty |-> [visible |-> Row, explored |-> Row]]]
  /\ seat \in Seatings /\ begun = {}
  /\ client = [c \in Seat |-> NoCells]
  /\ missed = [c \in Seat |-> NoCells]
  /\ losses = 0 /\ stale = TRUE /\ changes = 0

-----------------------------------------------------------------------------
(* What changes the world between two frames. *)
WorldChanged ==
  /\ changes < MaxChanges /\ changes' = changes + 1
  /\ stale' = TRUE
  /\ UNCHANGED <<fow, seats, copies>>

MoveUnit(u, c) ==
  /\ unit[u].cell # c
  /\ unit' = [unit EXCEPT ![u].cell = c]
  /\ WorldChanged /\ UNCHANGED <<standing, allied, started, modifiers>>

(* Death and removal, and what hides a unit or shows it again. *)
Conceal(u) ==
  /\ unit' = [unit EXCEPT ![u].reveals = ~@]
  /\ WorldChanged /\ UNCHANGED <<standing, allied, started, modifiers>>

SetUnitOwner(u, p) ==
  /\ unit[u].owner # p
  /\ unit' = [unit EXCEPT ![u].owner = p]
  /\ WorldChanged /\ UNCHANGED <<standing, allied, started, modifiers>>

(* A tree falls, or is shown again. *)
FellTree(t) ==
  /\ standing' = IF t \in standing THEN standing \ {t} ELSE standing \cup {t}
  /\ WorldChanged /\ UNCHANGED <<unit, allied, started, modifiers>>

(* G_SetPlayerAlliance sets both directions. *)
SetPlayerAlliance(p, q, value) ==
  /\ allied' = IF value THEN allied \cup {{p, q}} ELSE allied \ {{p, q}}
  /\ WorldChanged /\ UNCHANGED <<unit, standing, started, modifiers>>

FogModifierStart(m) ==
  /\ started' = started \cup {m}
  /\ modifiers' = IF Contains(modifiers, m) \/ Len(modifiers) >= MaxModifiers
                  THEN modifiers ELSE Append(modifiers, m)
  /\ WorldChanged /\ UNCHANGED <<unit, standing, allied>>

(* The last modifier takes the place of the one that is stopped. *)
Without(i) == Front([modifiers EXCEPT ![i] = Last(modifiers)])

FogModifierStop(m) ==
  /\ started' = started \ {m}
  /\ modifiers' = LET at == {i \in DOMAIN modifiers : modifiers[i] = m}
                  IN  IF at = {} THEN modifiers ELSE Without(Min(at))
  /\ WorldChanged /\ UNCHANGED <<unit, standing, allied>>

-----------------------------------------------------------------------------
(* G_FowUpdate. *)
SharedVision(viewer, owner) == viewer = owner \/ {viewer, owner} \in allied

BlockedCells(trees) == UNION {Footprint[t] : t \in trees}

(* The units whose sight is added to a player's. *)
Revealers(p) ==
  {u \in Unit : unit[u].reveals /\ SharedVision(p, unit[u].owner)}

AppliesTo(p, m) ==
  /\ m \in started /\ Effect[m].visible
  /\ \/ p = Effect[m].player
     \/ Effect[m].shared /\ SharedVision(p, Effect[m].player)

AppliedModifiers(p) == {m \in ToSet(modifiers) : AppliesTo(p, m)}

(* Mutant: a modifier is revealed without a note that something was. *)
HasVisibleUnits(p) == Revealers(p) # {}

HasVisible(p) == Revealers(p) # {} \/ AppliedModifiers(p) # {}

(* The loop over the edicts, as far as unit i, and that over the modifiers. *)
Seen(p, cells) ==
  LET upto[i \in 0 .. Units] ==
        IF i = 0 THEN {}
        ELSE IF i \in Revealers(p)
             THEN Reveal(upto[i - 1], unit[i].cell, Radius[i], cells)
        ELSE upto[i - 1]
  IN  upto[Units] \cup UNION {Effect[m].cells : m \in AppliedModifiers(p)}

(* A player of whom nothing was visible and who has no client is passed    *)
(* over.  Of a row that is cleared and filled again no one asks whether it *)
(* is as before.                                                           *)
Updated(p, cells) ==
  LET g == grid[p]
      kept == IF g.had_visible \/ g.client_connected THEN {} ELSE g.visible
      now == kept \cup Seen(p, cells)
  IN  [g EXCEPT
        !.visible = now, !.explored = @ \cup now,
        !.had_visible = HasVisible(p),
        !.dirty.visible = @ \cup RowsOf((g.visible \cup now) \ kept),
        !.dirty.explored = @ \cup RowsOf(now \ g.explored)]

(* G_FowBlockersChanged and G_FowRebuildBlockers *)
Blockers == IF hashed = standing THEN blocked ELSE BlockedCells(standing)

-----------------------------------------------------------------------------
(* The encoding of G_FowPackRows: the first value, then the length of each *)
(* run; a full run goes on with the same value, so that a change after one *)
(* takes an empty run of the other.  Of the bits so far there are the runs *)
(* that have ended, and the run that the last bit is in.                   *)
Packing(out, current, run) == [out |-> out, current |-> current, run |-> run]

(* Mutant: no empty run after a full one. *)
PutShort(s, bit) ==
  IF bit # s.current THEN Packing(Append(s.out, s.run), bit, 1)
  ELSE IF s.run = RunMax THEN Packing(Append(s.out, RunMax), bit, 1)
  ELSE Packing(s.out, bit, s.run + 1)

Put(s, bit) ==
  IF bit # s.current
  THEN Packing(s.out \o (IF s.run = RunMax THEN <<RunMax, 0>> ELSE <<s.run>>),
               bit, 1)
  ELSE IF s.run = RunMax THEN Packing(Append(s.out, RunMax), bit, 1)
  ELSE Packing(s.out, bit, s.run + 1)

Packed(bits) ==
  LET upto[i \in 0 .. Len(bits) - 1] ==
        IF i = 0 THEN Packing(<<bits[1]>>, bits[1], 1)
        ELSE Put(upto[i - 1], bits[i + 1])
  IN  upto[Len(bits) - 1]
Pack(bits) == LET end == Packed(bits) IN Append(end.out, end.run)

(* CL_UnpackFogRLE, CL_ValidateFogRLE *)
Run(value, n) == [i \in 1 .. n |-> value]
Take(s, n) == [value |-> IF n = RunMax THEN s.value ELSE 1 - s.value,
               bits |-> s.bits \o Run(s.value, n)]
Taken(payload) ==
  LET upto[i \in 0 .. Len(payload) - 1] ==
        IF i = 0 THEN [value |-> payload[1], bits |-> <<>>]
        ELSE Take(upto[i - 1], payload[i + 1])
  IN  upto[Len(payload) - 1]
Unpack(payload) == Taken(payload).bits
Valid(payload, bits) ==
  /\ Len(payload) >= 2 /\ payload[1] \in {0, 1} /\ Last(payload) # 0
  /\ Len(Unpack(payload)) = bits

(* A message holds count rows from first of one or both planes, visible    *)
(* first; a full one clears both planes.  Its bits are those of the cells  *)
(* of a plane, row by row, then those of the next.                         *)
Both == <<"visible", "explored">>
CellsIn(count) == Width * count
IndexOf(c, first) == (c[2] - first) * Width + c[1]
CellAt(k, first) == <<k % Width, first + k \div Width>>
Bits(g, planes, first, count) ==
  [n \in 1 .. CellsIn(count) * Len(planes) |->
     LET q == planes[(n - 1) \div CellsIn(count) + 1]
     IN  IF CellAt((n - 1) % CellsIn(count), first) \in g[q] THEN 1 ELSE 0]
RowMessage(g, planes, first, count, full) ==
  [planes |-> planes, first |-> first, count |-> count, full |-> full,
   payload |-> Pack(Bits(g, planes, first, count))]

RowsPerChunk(planes) == Max({1, (Chunk - 1) \div (Width * Len(planes))})

(* What G_FowWriteRows puts together: nothing when it does not fit. *)
Fits(planes, count) == 1 + CellsIn(count) * Len(planes) <= Chunk

(* G_FowSendDirtyPlane: runs of dirty rows, cut to the size of a chunk. *)
AddRow(s, y, limit) ==
  IF s # <<>> /\ Last(s).first + Last(s).count = y /\ Last(s).count < limit
  THEN [s EXCEPT ![Len(s)].count = @ + 1]
  ELSE Append(s, [first |-> y, count |-> 1])
DirtyChunks(rows, limit) ==
  LET upto[i \in 0 .. Height] ==
        IF i = 0 THEN <<>>
        ELSE IF i - 1 \in rows THEN AddRow(upto[i - 1], i - 1, limit)
        ELSE upto[i - 1]
  IN  upto[Height]
PlaneMessages(g, q) ==
  {RowMessage(g, <<q>>, c.first, c.count, FALSE) :
     c \in {d \in ToSet(DirtyChunks(g.dirty[q], RowsPerChunk(<<q>>))) :
              Fits(<<q>>, d.count)}}
DirtyMessages(g) == UNION {PlaneMessages(g, q) : q \in Plane}

(* G_FowSendFull *)
FullRows(y) == Min({RowsPerChunk(Both), Height - y})
FullMessages(g) ==
  {RowMessage(g, Both, y, FullRows(y), TRUE) :
     y \in {z \in Row : z % RowsPerChunk(Both) = 0 /\ Fits(Both, FullRows(z))}}

RowsIn(m) == m.first .. m.first + m.count - 1
Holds(m, q) == \E i \in DOMAIN m.planes : m.planes[i] = q

(* The cells of a plane that a message has as set. *)
Decoded(m, q) ==
  LET bits == Unpack(m.payload)
      before == IF m.planes[1] = q THEN 0 ELSE CellsIn(m.count)
  IN  {c \in CellsOf(RowsIn(m)) : bits[before + IndexOf(c, m.first) + 1] = 1}
Accepted(m) == Valid(m.payload, CellsIn(m.count) * Len(m.planes))

(* CL_ParseFogOfWar, for the messages of a frame: those to one client are  *)
(* about different rows or planes.                                         *)
Cleared(m, q) == IF Holds(m, q) \/ m.full THEN CellsOf(RowsIn(m)) ELSE {}
ParseFogOfWar(copy, messages) ==
  LET read == {m \in messages : Accepted(m)}
  IN  [q \in Plane |->
         (copy[q] \ UNION {Cleared(m, q) : m \in read})
           \cup UNION {Decoded(m, q) : m \in {n \in read : Holds(n, q)}}]

(* The client that PF_Unicast takes a player's edict to mean: the one      *)
(* before it in the table, of as many as there are; a client that is alone *)
(* is sent what names no client, and otherwise that is thrown away.        *)
Clients == 1 .. Len(seat)

(* Mutant: what names no client goes to the first one. *)
ReceiverFirst(p) ==
  IF p \in Clients THEN {p} ELSE IF Clients # {} THEN {1} ELSE {}

Receiver(p) ==
  IF p \in Clients THEN {p} ELSE IF Clients = {1} THEN {1} ELSE {}

(* Messages with a player's rows, of which some are lost on the way. *)
To(p, messages) == {[to |-> c, message |-> m] : c \in Receiver(p), m \in messages}
MessagesTo(c, sent) == {s.message : s \in {t \in sent : t.to = c}}
RowsOfPlane(q, messages) ==
  UNION {RowsIn(m) : m \in {n \in messages : Holds(n, q)}}

Transmit(sent, lost) ==
  /\ client' = [c \in Seat |->
       ParseFogOfWar(client[c], MessagesTo(c, sent \ lost))]
  /\ missed' = [c \in Seat |-> [q \in Plane |->
       (missed[c][q] \ RowsOfPlane(q, MessagesTo(c, sent)))
         \cup RowsOfPlane(q, MessagesTo(c, lost))]]
  /\ losses' = losses + Cardinality(lost)

Losses(sent) == UNION {kSubset(n, sent) : n \in 0 .. MaxLosses - losses}

Cleaned(g) == IF g.client_connected THEN [g EXCEPT !.dirty = NoCells] ELSE g

(* The tail of G_RunFrame: G_FowUpdate, then G_FowSendDeltas, which counts *)
(* a row as sent also when it was sent to nobody.                          *)
RunFrame ==
  LET g == [p \in Player |-> Updated(p, Blockers)]
      sent == UNION {To(p, DirtyMessages(g[p])) :
                     p \in {q \in Player : g[q].client_connected}}
  IN  /\ hashed' = standing /\ blocked' = Blockers
      /\ grid' = [p \in Player |-> Cleaned(g[p])]
      /\ stale' = FALSE
      /\ \E lost \in Losses(sent) : Transmit(sent, lost)
      /\ UNCHANGED <<world, seats, changes>>

(* SV_DirectConnect while the game runs: the next in the table, seated by  *)
(* no lobby and therefore bound to player 0 (SV_ClientPlayerNumber).       *)
DirectConnect ==
  /\ Len(seat) < MaxClients
  /\ seat' = Append(seat, 0)
  /\ UNCHANGED <<world, fow, begun, copies, stale, changes>>

(* SV_Begin_f and the end of G_ClientBegin: G_FowUpdate, then              *)
(* G_FowSendFull for the client's player.                                  *)
ClientBegin(c) ==
  LET p == seat[c]
      g == [q \in Player |-> Updated(q, Blockers)]
      sent == To(p, FullMessages(g[p]))
  IN  /\ begun' = begun \cup {c}
      /\ hashed' = standing /\ blocked' = Blockers
      /\ grid' = [g EXCEPT ![p].client_connected = TRUE]
      /\ stale' = FALSE
      /\ \E lost \in Losses(sent) : Transmit(sent, lost)
      /\ UNCHANGED <<world, seat, changes>>

-----------------------------------------------------------------------------
FogNext ==
  \/ \E u \in Unit : \/ \E c \in Place : MoveUnit(u, c)
                      \/ \E p \in Player : SetUnitOwner(u, p)
                      \/ Conceal(u)
  \/ \E t \in Tree : FellTree(t)
  \/ \E p, q \in Player, v \in BOOLEAN : p # q /\ SetPlayerAlliance(p, q, v)
  \/ \E m \in Modifier : FogModifierStart(m) \/ FogModifierStop(m)
  \/ RunFrame
  \/ DirectConnect
  \/ \E c \in Clients \ begun : ClientBegin(c)

FogSpec == FogInit /\ [][FogNext]_fogVars

-----------------------------------------------------------------------------
(* The types of the fog; a modifier is in the list at most once. *)
Planes == [visible : SUBSET Cell, explored : SUBSET Cell]
Rows == [visible : SUBSET Row, explored : SUBSET Row]
FogTypeOK ==
  /\ unit \in [Unit -> [cell : Place, owner : Player, reveals : BOOLEAN]]
  /\ standing \subseteq Tree /\ blocked \subseteq Cell
  /\ allied \subseteq {{p, q} : p, q \in Player}
  /\ started \subseteq Modifier
  /\ modifiers \in Seq(Modifier) /\ Len(modifiers) <= MaxModifiers
  /\ IsInjective(modifiers)
  /\ grid \in [Player -> [visible : SUBSET Cell, explored : SUBSET Cell,
                          had_visible : BOOLEAN, client_connected : BOOLEAN,
                          dirty : Rows]]
  /\ seat \in Seq(Player) /\ Len(seat) <= MaxClients
  /\ begun \subseteq Clients
  /\ client \in [Seat -> Planes] /\ missed \in [Seat -> Rows]
  /\ losses \in 0 .. MaxLosses /\ changes \in 0 .. MaxChanges
  /\ stale \in BOOLEAN

(* What unit u sees, whatever was seen before. *)
UnitSees(u) ==
  LET c == unit[u].cell
      cells == BlockedCells(standing)
  IN  IF BlockedNear(c, Radius[u], cells) THEN ShadowCast(c, Radius[u], cells)
      ELSE Disk(c, Radius[u])

(* After an update a player sees what its units, those who share their     *)
(* vision and the modifiers started for it show, as the world is now: no   *)
(* cell of an earlier frame, of a fallen tree's shadow or of a modifier    *)
(* that was stopped.  Beyond that only blocking cells at the rim.          *)
(* (With the types.)                                                       *)
SideSees(p) ==
  (UNION {UnitSees(u) : u \in Revealers(p)})
    \cup UNION {Effect[m].cells : m \in {n \in started : AppliesTo(p, n)}}
AtTheRim(p) == {b \in BlockedCells(standing) :
                  \E u \in Revealers(p) :
                     Within(unit[u].cell, b, Radius[u] + 1)}
SightIsCurrent ==
  /\ FogTypeOK
  /\ ~stale => \A p \in Player :
       /\ SideSees(p) \subseteq grid[p].visible
       /\ grid[p].visible \subseteq SideSees(p) \cup AtTheRim(p)

(* A client is sent the rows of its own player if it is alone, or if its   *)
(* place in the table, from 1, is its player's number: PF_Unicast takes    *)
(* edict p for the p-th client.  Of the others nothing is claimed: where   *)
(* there are two, player 0's rows are sent to nobody and those of player 1 *)
(* to the first client.                                                    *)
Served(c) == Receiver(seat[c]) = {c}

(* Of a client that is sent its own player's rows, a row that is not to be *)
(* sent, and whose last message was not lost, is on the client as it is on *)
(* the server, whatever the runs and the chunks were, whenever the client  *)
(* came, and whoever joins after it.                                       *)
ClientInSync ==
  \A c \in begun, q \in Plane :
    Served(c) =>
      LET g == grid[seat[c]]
          rows == CellsOf(Row \ (g.dirty[q] \cup missed[c][q]))
      IN  client[c][q] \cap rows = g[q] \cap rows

(* What such a client has been shown as explored stays so, also when the   *)
(* message of a neighbouring row or plane comes, one was lost, or another  *)
(* client joins and is sent rows.                                          *)
ExploredStays ==
  [][\A c \in Clients : Served(c) =>
       client[c].explored \subseteq client'[c].explored]_fogVars
==============================================================================
