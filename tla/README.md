# Verification of open-realm-reforged

TLA+ models, TLC runs and TLAPS proofs for the engine in `src/`: a server, a
client and a Warcraft III game library in the manner of Quake 2, in C. The
repository holds some 159,000 lines; most of them draw, decode file formats or
belong to the two other games. What is modelled here is where state is shared
between parts that act at different times: the transport, the joining of
clients, configstrings, the lobby, the host's screen in the main loop, entity
snapshots, the level's frame with its events and scripts, flow fields, combat,
harvesting, and the fog of war.

Everything cited as `file:line` is under `src/`.

## 1. Inventory

### Processes and the main loop

A process runs the server and a client, or a client alone. There are no
threads in the game's own code (the sound mixer is called by the audio
device). `common/main.c:220-240` repeats, as fast as it can, `SV_Frame` (read
packets; at most one game frame; send), then `CL_Frame`: input, read packets,
run the console command buffer, draw. So every interleaving that matters comes
from one of four places: the order of these phases, the UDP network between
processes, the order in which the game library runs units and scripts in a
frame, and caches and rings shared by what runs in turn.

### Components

| Component | State | Operations | Talks to | What is hard | What makes it correct |
|---|---|---|---|---|---|
| Loopback transport (`common/net.c`) | two byte rings with ever-growing counters | send, get | client and server of one process | free space across the wrap, overflow drops the queue | packets come out whole and in order |
| Connect and netchan (`common/net.c`, `client/cl_main.c`, `server/sv_main.c`) | client state, message buffers, what is on the wire | connect, handshake commands, packets, timeout, a server that stops or crashes | server tables, UDP | a lost, repeated or late packet; a second map; flags that outlive a connection | a client reaches the game or gives up, and settles |
| Lobby and client table (`server/sv_lobby.c`, `sv_init.c`, `sv_user.c`) | slots, clients, which name each other | configure, connect, start, fail, begin | host's screen, network, game | any order of commands; half a step undone | one seat each, kept into the game |
| Game-setup screen and main loop (`ui/screens/game_setup.c`, `common/main.c`, `common/cmd.c`) | what the screen shows; command buffer | clicks, lobby_setup messages | server, by text and packets | a click acts on what was shown before the packets of the iteration | screen and table agree; start starts |
| Entity snapshots (`server/sv_ents.c`, `client/cl_parse.c`, `common/msg.c`) | a ring of entity states for all clients, frames, baselines, the client's table | build, delta, read | game's edicts, network | what a delta is relative to; the ring goes round | the table shows the last frame |
| Configstrings and multicast (`server/sv_game.c`, `sv_send.c`, `sv_main.c`) | names, a flag for each that it was sent, one shared message | register, sync, multicast, unicast | game, clients that join | one flag for all clients; a message that overflows | the client told last knows all names; a name is never changed |
| Level frame, events, triggers (`game/g_main.c`, `g_events.c`, `jass/jdo.c`) | edicts, a ring of events, coroutines | publish, dispatch, resume, spawn, free | units, map scripts | an event's unit is gone; a slot's old contents; sleeping scripts | a trigger runs once for each of its events |
| Units, orders and skills (`game/g_ai.c`, `m_unit.c`, `skills/`) | moves, goals, targets, missiles, the table of edicts; loads, the mine's counter, what a player has | order, think, strike, throw, die, decay, revive, remove; walk, mine, wait, chop, deliver | routing, events | targets and owners that die or go; a worker called away | a corpse goes; no pointer turns on something else; nothing is lost or doubled |
| Flow fields and steering (`common/routing.c`, `game/g_monster.c`) | map copies, cache, generations, waypoints | order, think, bake, evict, invalidate | units, builders | a number that outlives its cache | a unit follows its own goal's field |
| Fog of war (`game/g_fow.c`) | grids for each player, dirty rows, modifiers, blocking cells | join, reveal, update, pack, send all, send differences, unpack | units, scripts, clients | caches keyed by hashes and flags; runs at their limit; a row lost on its way; whom `PF_Unicast` sends to | each player sees what its side sees now; a client that is sent its player's rows has the server's grid |
| Area tree (`server/sv_world.c`) | a tree of linked edicts | link, unlink, query | game | links of a freed edict | a query finds what is linked |
| JASS language (`jass/jparser.c`, `jlex.c`) | program, environments | parse, evaluate | natives | none of its own | meaning of the language |
| Cvars, commands, console, archives, world data, views, layouts, renderers, sound, other games, tools | | | | | not modelled, see section 8 |

The list of what can go wrong, each at its line, with the properties that
cover it or the reason that none does, is `hazards` in `PROJECT.json`.

## 2. Plan

Written, in the order of their importance to every other part:

1. `PacketQueue`, `NetLoop`, `RingProofs` - the transport and its promise.
2. `Lobby`, `LobbyProofs` - the tables of the server.
3. `LobbyScreen`, proved about in `LobbyProofs` - extends `Lobby` with the host's
   client, the loopback queue, the screen and the command buffer.
4. `DeltaView`, `ViewProofs` - what a client can know of the entities.
5. `Snapshot`, `RingProofs` - the ring and the merge, which implement `DeltaView`.
6. `FlowField`, `FlowFieldProofs` - orders, waypoints and the cache of fields.
7. `GameEvents`, `GameEventsProofs` - the frame of the level: the ring of
   events, triggers, and the coroutines of scripts.
8. `Connect`, `JoinProofs` - a client's states against the server's, over a network that
   loses, repeats and delays, with the timeout and the change of map.
9. `ConfigStrings`, `JoinProofs` - registering, joining, syncing, multicasting and
   unicasting, with clients that join late and messages that overflow.
10. `Combat`, `CombatProofs` - orders, strikes, missiles, death, decay, revival and removal, in
    the table of edicts.
11. `FogSight`, `Fog`, `ViewProofs` - what a unit sees, and what players and clients
    are shown.
12. `Harvest`, `HarvestProofs` - the cycles of workers between mine, trees and
    town hall.

To be written: building and training (`s_build.c`, `s_repair.c`, `s_train.c`), in
the manner of `Harvest`; the area tree (`server/sv_world.c`); the buttons and
menus of a client, which hold callbacks over frames (`game/g_commands.c`).

Theorems: of every module the type invariant and all safety invariants and action
properties are proved, and so are both pairs of an abstract and a detailed
specification: `NetLoop` implements `PacketQueue`, `Snapshot` implements `DeltaView`
(section 7). What could still be added: of `GameEvents` and of `Harvest` more of
what a step may never do.

## 3. Modules and the code

`map` in `PROJECT.json` gives the lines of every definition. In outline:

**PacketQueue / NetLoop.** `loopbufs[s]` is the ring that end `s` sends into, in
`NET_SendLoopPacket` (refusals included) and `NET_GetLoopPacket`. The four
bytes of the length prefix are cells; the counters are those of the code, and
`Limit <= IntMax` says that behaviours end before `int` overflows, which C
leaves undefined. A message that `net.c:86` asserts not to be there, of
`MAX_MSGLEN` bytes or more, is never read. `queue` is history: the packets in the ring and where they
begin. `PacketQueue` is the promise: two FIFO queues with a capacity in bytes,
where a packet that does not fit throws away all that was queued.

**Lobby.** `svs` is the part of `server_static` with the slot table and the
client table, `state` is `sv.state`, `world` the map's configstring. Actions
are the console commands `lobby_start`, `lobby_config`, `lobby_slot`, `map` (it
may fail to load), connect packets (admitted, or rolled back) and the user
commands that bind a client to an edict. Here the host may pass anything in
`lobby_slot`, in any order. Names, races, teams, colours, chat and
`SV_Shutdown`, which only quitting calls, are left out.

**LobbyScreen.** It extends `Lobby` and calls its actions. `phase`
is where the iteration of the main loop is; `inbox` the loopback queue, FIFO
as `NetLoop` has been shown to be; `cmd_text` the command buffer; `configs` the
screen. A click appends exactly the commands `game_setup.c` writes, from what
the screen shows then; `Execute` runs one through `Lobby`'s action and sends
the packets the command sends.

**DeltaView.** Frames are functions from entity numbers to states. Which
entities a client sees (distance, fog) is a free choice; hidden and modelless
ones are not seen; a selected one has a flag the server sets in a copy.
`Changed` knows that messages carry only the fields of `entityStateFields` and
round some (`Wire`). `pending` makes a game frame atomic: the game runs, then
each spawned client is sent one message, then anything else may happen. Loss is
left out: a lost frame is never made good (section 6).

**Snapshot.** The same with `svs.client_entities`, its `DWORD` counter,
`frames`, `lastframe`, the truncation to `MAX_PACKET_ENTITIES`, the merge of
two sorted ranges up to `HIGH_NUMBER`, and messages as sequences of updates
that the client applies one after another. Merge and reading are loops, each a
function from the number of its turns to what it has done by then (`Turn` is the
body of the merge). The mapping recovers "the last
frame sent" from what the ring holds now.

**FlowField.** `original` and `data` are the two copies of the path map; `cache`
has the fields with their target cell and generation; `used` is the order of
last use, which stands for the code's stamps; `heatmap2` is the generation a
goal remembers. A unit's turn is `Think`: straight, by the field found with its
generation, by a new one, or without any. `level.time` is never assigned in the
code, so that `Stale` is FALSE, and `g_heatmap_builds_this_frame` is never
reset, so that `builds` only grows; both are the code as it is and are listed
as hazards. The flood itself, local avoidance, arrival, and the orders of
harvesters are left out.

**GameEvents.** `phase` is where `G_RunFrame` is: clients' commands, then the
events of the last frame, the coroutines, the entities, and the regions they
came into; `cursor` is the place in the list that the phase goes through, one
turn of a loop being one step. `queue`, `write` and `read` are
`level.events`, with the `responseTo` that a slot keeps from its last use.
A coroutine is its trigger, its unit and the frames until it wakes; what the
script of a running one does is a free choice of the natives that matter here:
start another, switch a trigger, remove, move or give away a unit, remove a
player, sleep, return. `pending` is history, the events as they were published
and whose they were then, and so is `called`, the handlers called so far for
the event at `read`. One region stands for all; leaving one and coming into a
unit's range are told in the same way and left out, as are handlers registered
while the map runs and the effects of conditions.

**Connect.** One server, one remote client, two maps. `sv` is the server's state and
its record of the client; `cls` the client's `cls.state` with the statics of
`cl_view.c` and `cl_parse.c` that outlive a connection (`world_loaded`,
`refresh_prepped`, `begin_sent`); `up` and `down` what is in flight, as sets, since
UDP keeps no order. From the answer on, each message of the server names in a
`mirror` the command that the client sends next, once. `Fault` loses a packet,
repeats one or cuts the wire; the server may stop with a word or crash without
one. `overdue` says that the ten seconds have passed, which `TimePasses` lets
happen when nothing more is on its way. Of configstrings and frames only what
decides how the join goes on is kept. `CL_Connect` asks for no state: that
`ConnectTo` happens to a client that is neither joining nor playing is an
assumption about the player, who connects from the LAN screen or at the program's
start. `Admit` may refuse in any state, as a server does that is full of clients
who are not modelled.

**ConfigStrings.** One pool of names stands for models, images, sounds and fonts.
`strings` is `sv.configstrings`, `synced` the marks of `sv.syncstrings`, `message` the
`netchan.message` of each client with its limit, measured in strings; `names` what
each client has read. The end of a server frame multicasts the strings not yet
marked, in play or not; a join writes all of them to one client, and marks
them for all. A full pool gives index 0. `Receiver` is the client that
`PF_Unicast` takes an edict to mean. What is transmitted counts as read, in order.

**Combat.** `edicts` is the table of units, missiles and freed edicts, `turn` the one
that `G_RunEntities` has come to, `end` the number of edicts when the frame began.
A turn is `G_RunEntity`: an animation that is over calls its end, then the unit
does what its move has it do (stand, move, walk to the target, strike, cool
down, die, decay), and a missile flies or hits. Between frames come orders,
stop, `KillUnit`, `RemoveUnit` and revival. Places are left out: what is in range,
has arrived or hits is a choice, and so is the damage. `crashed` is a call
through, or a write to, a NULL pointer. `level.time` stays 0, as in the code: a
freed edict is never given out again, and only units of certain numbers look
for enemies.

**FogSight / Fog.** `FogSight` computes what one unit sees: a disk, shadows cast in
eight octants with the code's slopes as fractions, and the rim of blocking
cells, added in the order of the code's scan, which lets one lit cell light the
next. `Fog` has the grids of all players, shared vision, modifiers, the cache of
blocking cells (its hash is assumed not to collide), `had_visible`, dirty rows,
and the messages: rows packed as runs, in chunks, which the network may lose;
the client unpacks them with the checks of `cl_parse.c`. `seat` has the players of
the clients in the order of `svs.clients`, as the lobby seated them; who joins
while the map runs is bound to player 0. Rows go to the client that
`PF_Unicast` takes the player's edict to mean (`Receiver`, as in `ConfigStrings`), who
may be another player's, or to nobody, and count as sent either way. Nobody leaves
while the map runs.

**Harvest.** `worker` is each worker's move, target and load; `peonsinside` the
counter of the mine. The mine's own callback admits those who wait in the
order of their edicts. Between frames a worker may be sent to harvest, or be
put into another move by any order, blow or death, inside the mine too; the
town hall may go and come. `taken` and `stranded` are history. A player's
resources are 16 bits wide and wrap.

## 4. Runs

| Run | Question | Bounds | Why they are enough |
|---|---|---|---|
| `net_loop` | Are packets delivered whole and in order? | ring of 11 cells, packets of 0 to 8 bytes, 24 cells sent in a direction | two laps of the index; a full ring, an overflow, a wrap in the prefix and in the payload, both kinds of refusal; the theorems cover every size |
| `connect` | Does a client get into the game or out, whatever the network and the server do? | two requests to connect, two maps, one fault of the network | the fault strikes each packet of the join in turn; a reconnect to a server that still has the record; a change of map in each state |
| `config_strings` | Who knows which names? | three clients, two indices, three names, messages of four strings | one joins while another is being told; a message overflows; the pool is full |
| `lobby` | Do the two tables stay consistent, and does a seat survive the start? | two slots, three records, two remote clients, two maps | one client too many; slots hidden, shared, closed, out of range; a slot count above the table |
| `lobby_screen` | Does the screen drive this without harm, and does start start? | one waiting command when a click comes, otherwise unbounded loops | a click before and after each packet of an iteration |
| `delta_view` | Does the table follow the frames? | one client, two entities, two messages in flight | every way for an entity to enter, change, hide, be freed and come back; clients do not share state in this module |
| `snapshot` | Do the ring and the merge implement the deltas? | two clients, three entities, frames of two, three game frames, counter one below its limit | the ring is exactly full, then overwritten; truncation; the counter starts again |
| `flow_field` | Is the cache coherent, and does a goal find its own field? | two units, three waypoints, three cells, two fields, three bakes, two orders, one building | a waypoint is reused, a field evicted, a cache thrown away with generations left behind |
| `game_events` | Is an event handled as it was published, or overwritten, and is every coroutine that is due resumed once? | two players, a unit, two triggers, four handlers, a ring of two, two coroutines, one started by scripts in a frame | the ring goes round, and overflows before an event's turn (three events in two slots); one coroutine behind another returns, sleeps for no time, or is started during the walk; a unit is given away between death and handling; the theorems cover every size |
| `combat` | Does any sequence of orders, blows and removals bring the game down or leave a corpse? | three units (a hero, one with missiles), five edicts, one order from outside | three make one unit's death the end of another's attack; five edicts let the table fill up; every action happens |
| `harvest` | Is the mine's counter right, is anything lost, does gold keep coming in? | three workers, a mine for two, two trees of two blows, three events from outside, numbers modulo 5 | one more worker than places; a worker called away inside; two at one tree; a double load; the sum wraps |
| `fog` | Does each player see what its side sees now, and its client the same? | a grid of 4 x 2, two units of different players, one tree, two modifiers, runs of three, chunks of one row of both planes or two of one; at most two clients, at the start one of either player or one of each; one message lost, two changes | a shadow and a rim, a run of exactly the limit, a player whose sight goes dark, a change undone in the same frame; a client of player 1 goes on being sent its rows when another joins, a lone client of player 0 is sent no more; with both, player 1's rows come to player 0's client |

`flow_field` has one bake more than slots so that an eviction happens: with the
numbers in the code, two bakes and four slots, none ever would. `snapshot`,
`flow_field`, `harvest` and `connect` let the system stop (`CHECK_DEADLOCK FALSE`)
because their bounds on frames, orders and connects end every behaviour, and
`combat` because a game that has crashed stops; in the code there is otherwise
always a next frame. Symmetry is used for clients, units and cells that no
definition tells apart, and not in the run with a liveness property.

Properties, by the question they answer:

* `RingHoldsQueue`, `ImplementsPacketQueue`: every cell of every queued packet is
  where its reader will look, over the wrap.
* `SeatOwned`, `OccupantSeated`, `SeatKept`: a seat and its client name each other;
  a remote player's seat is taken away by nothing but the host closing it.
* `OneSeatEach`, `ScreenCurrent`, `StartLeadsToGame`: under the screen's own
  commands even the host holds one seat (under any commands it may hold two,
  since `lobby_config` can shrink the table below its slot); the screen shows
  the server's table once the commands have run; a click on start is never lost.
* `FollowsFrame`, `NoGhosts`: the client's table shows the last frame read up to
  fields at their baseline, and nothing of a frame before it.
* `ImplementsDeltaView`: no client's frame is overwritten in the ring before the
  next is compared with it, and the merge is the difference of two frames.
* `CacheCoherent`, `OwnFieldUntilBake`: one field for one
  generation and cell; none baked around obstacles that have changed; a
  generation finds the field its goal asked for.
* `RingFaithful`, `UnitHandlersOwn`: up to its limit the ring gives back what was
  published, and a trigger for one unit is called for this unit's event alone.
  (The run has one unit: that it is not called for another's is what the theorem
  `UnitHandlersAreOwn` adds.)
* `PassComplete`, `ResumedOnce`, `EveryEventHandled`: the walk over the coroutines,
  whose list changes under it, leaves none out and takes none twice; all handlers
  are asked of each event as it was published, unless as many are published
  before its turn as the ring has slots. Then it is lost (section 6).
* `AdmittedPlays`, `AnsweredIsSettled`, `ServerLossNoticed`: an admitted client none of
  whose packets is lost plays in the end; whatever is lost, one that was
  answered plays or is disconnected; a server that is gone is noticed.
* `NoWayBack`: a client that asks again while the server has a record of it is not
  answered as long as that map runs.
* `LastToldKnowsAll`, `UnsentReachesAll`: the client that joined last has, or has on
  its way, every string that counts as sent; once everyone is in play, whatever
  is not marked yet reaches all of them.
* `CrashNeedsRemoval`, `CorpseGoes`: without a removal, or a full table, no
  pointer is followed to an edict whose callbacks are gone; a corpse that
  nobody strikes, revives or orders about is removed in the end.
* `NothingLost`, `MiningGoesOn`: what was taken is with the player or carried, and
  each tree gave what its life was worth; gold keeps coming in as long as one
  place in the mine is not lost to a worker who was called away.
* `SightIsCurrent`, `ClientInSync`, `ExploredStays`: after an update a player sees
  neither more nor less than its side does, blocking cells at the rim excepted. Of
  a client that is sent its own player's rows (`Served`: it is alone, or its place
  in the table is its player's number): a row that came is right, and what was
  shown as explored stays so, whoever joins. Of the other clients nothing is
  claimed, and section 6 says what they are shown.

Each has a mutant, a plausible slip in the mapped definition, under which the
same run finds it violated.

## 5. Fairness

Six modules state fairness; safety properties use none of it.

`LobbyScreen`: weak fairness of
`MainLoop`, the phases of an iteration taken together: `main` calls them in a
row in a loop that has no wait, neither for input nor for a packet, and each
phase ends. Nothing is assumed of the host's clicks or of remote clients.
`StartLeadsToGame` further relies on the map being loadable, the one the screen
has read; `Lobby` has the failure.

`EveryEventHandled` assumes weak fairness of `Steps`, what the frame itself does
(`SV_Frame` runs one whenever its time has come, and its loops end), and strong
fairness of `Leave`: a coroutine that runs comes to a sleep or to its end. A
script's loops are bounded in `jdo.c:612`. In a frame scripts start at most
`MaxStarted` coroutines; a script that starts itself again without a sleep would
keep the code in `jass_runevents` for ever, and is excluded by this bound.

`Connect`: weak fairness of the server reading and sending, of the client's
frames and its reading of each kind of packet, and of time: both main loops
repeat without a wait, and what is in flight and not lost arrives. Nothing
obliges the player, the host or the network.

`ConfigStrings`: weak fairness of `Frame`, the server's frame.

`Combat`: weak fairness of the frames and of the turns in them, which come for
ever, and strong fairness of the turn in which a unit's animation ends.

`Harvest`: weak fairness of each worker's thinking, which happens in every
frame. A walk is assumed to arrive, and a duration to be above zero: a timer
that is set to zero never calls back (`g_ai.c:286`).

## 6. Where the code departs from its documents or from what one would expect

Met while modelling. The models do as the code does; the properties are stated
so that they hold beside these, and the comment of a property names the ones
that limit it.

* `GameSetup_StartGame` (`game_setup.c:957`) publishes the slots as shown, which
  sets the slot of a client admitted in the same iteration back to open. The
  game starts with this client connected and without a player, bound to player
  0; `server/sv_init.c:203` and `tests/test_server_net.c:553` say that it keeps
  its player. A `lobby_setup` that comes while another screen is shown re-opens the
  game-setup screen (`ui_main.c:836`), which publishes the map's default slots.
* An entity that left the view was zeroed by the client; when it returns as its
  baseline, nothing is sent (`sv_ents.c:210`).
* `lastframe` is the last frame sent, not acknowledged: a lost one is never sent
  again, unlike what `doc/architecture/server.md:109` says.
* A bake restarts the generations at 1 while goals keep theirs
  (`routing.c:108`): a goal's old number finds another goal's new field.
* An event's player is looked up in `s.player`, which a player's own edict never
  has: what happens to any player calls the handlers of player 0.
* An idle lobby sends nothing, so that its clients time out after ten seconds
  (`cl_main.c:705`). A second `map` finds `begin_sent` still set, and its clients
  never say "begin". A late repeat of "connect" admits a client that has gone.
* A configstring is marked as sent for all clients when one of them was told, so
  that a client may never get it; `sv_main.c:33` says that un-synced strings go
  to all clients. `PF_Unicast` (`sv_game.c:142`) takes an edict's number less one
  for the client's: with two clients the host's layouts are dropped and player
  1's go to the host. The same goes for the rows of the fog (`g_fow.c:974`):
  player 0's are thrown away as soon as a second client is there and count as sent,
  since the dirty flags are cleared all the same; the host is shown player 1's.
* `G_PublishEvent` does not ask whether the ring is full: with more events in a frame
  than `MAX_EVENT_QUEUE` the oldest are lost, and those that took their slots are
  handled twice (`g_main.c:369`).
* A message that fills its buffer to the last byte is read by
  `NET_GetLoopPacket` only to fail the assertion of `net.c:86`.
* The dead are struck, die again, and give their events and experience again
  (`s_attack.c:144`); a corpse struck while it decays keeps `AI_HOLD_FRAME` and is
  never removed, unlike what `m_unit.c:12` says; a missile's kill makes its dead
  owner stand up and fight on; orders do not ask whether a unit is dead. A
  missile or an attack whose target or owner was removed calls NULL.
  `KillUnit` only sets life to zero, while `api_trigger.h:162` waits for a death.
* `level.time` never advances: edicts are never used again until the table is
  full and `G_Spawn` returns NULL, the units that look for enemies are always the
  same, and it is always night for the fog.
* A worker called away in the mine keeps its place there for ever, and stays
  hidden. Those who wait are called by their number: the last may wait for ever.
  A tree whose life is a multiple of the damage reaches zero and stands, because
  `ai_chop` (`s_harvest_lumber.c:88`) asks for less than a full blow.
* `ShowTrainedUnit` calls `stand`, which clears `unit->build`, before the next unit
  of the queue is taken from it (`s_train.c`): whatever was queued behind the
  first unit is paid for, hidden and lost.
* The transport's `int` counters overflow after 2 GiB in one direction
  (`net.c:68`), and an entity numbered above `HIGH_NUMBER` ends a merge early
  (`sv_ents.c:18`): the assumptions `LimitAssumption` and `HighNumberAssumption`
  exclude both. `g_heatmap_builds_this_frame` is never reset (`g_monster.c:113`).

## 7. Proofs

TLAPS checks eight modules from nothing; the assumptions are those named in the
component modules, which TLC evaluates in the runs.

* `RingProofs`, of the transport: `TypeCorrect`, `RingCorrect` and `Refinement` hold for every ring
  size, prefix length and set of packets. The inductive invariant is
  `TypeOK /\ RingHoldsQueue`; the second part is needed since a read advances by
  the length found in the ring, so that the counters stay in their range only
  if a prefix is there. `Adjacent` says that the packets lie end to end within
  one length of the ring, which makes the cells modulo the size distinct: a
  send touches no cell of a queued packet. Refinement follows action by action.
* `RingProofs`, of the entities: `SnapshotRefines`, that `Snapshot` implements
  `DeltaView` for any number of clients and entities, any size of a frame, any
  `UPDATE_BACKUP` above one and any start of the counter, as long as the ring's size
  divides 2^32. So whatever `ViewProofs` says of `DeltaView` holds of the ring. The
  invariant `RingInv` says of the last frame sent to a client how far back it began
  (`Aged`): by no more than one full frame for each client whose turn came since,
  which is less than the ring by at least one more (`RingSizes`), so that what is
  put in for any client spares it (`RangesKept`). Of the `UPDATE_BACKUP` frames that
  the code reserves for each client two would do. `Merged` is the invariant of
  the merge: what it has written names each entity once, in order, and agrees with
  the difference of the two frames on all numbers it is past (`Behind`), and each
  turn passes one more (`TurnKeeps`). `ReadIs` is the same of the client's loop. Both
  are reasoned about as functions from one turn to the next (`Iterates`, `Steps`).
* `LobbyProofs`: of the lobby, for any number of slots and clients, `TypeCorrect`,
  `SeatsAreOwned`, `SlotsAreManned` and `OccupantsAreSeated`, and of its steps
  `SeatsAreKept`. `IInv == TypeOK /\ SeatOwned`: the types need the seats, as a slot
  that stays occupied writes its occupant's record. `Manned` is the view from
  the slots; the host is its exception, who may hold several under arbitrary
  commands. What a step does to a remote client's seat follows from both views.
  Of the screen, for any map, number of clients and length of the command
  buffer and the queue, `OneSeat` and `ScreenIsCurrent`. Their invariant `SInv` says
  of the commands that wait what they will do (`start` is followed by what it
  needs, `map` is the last), of the table that it shows each of the map's slots or
  that the command which makes it do so is still ahead (`Complete`), and of the
  packets that the last setup under way is the table as it is (`Shows`), which is
  what the screen will show.
* `ViewProofs`, of the entities: `TypeCorrect`, `TableFollowsFrame`, `TableHasNoGhosts` for any
  clients, entities, fields, values and bounds. The invariant adds `InOrder`:
  each message in flight is the difference between what the one before it
  shows (the last frame read, for the first) and its own frame, and the last
  one's frame is `from`. Without it nothing is known of a message when it is read.
* `ViewProofs`, of the fog: `FogTypesHold`, `CopiesAgree`, `NothingUnexplored` and
  `SightHolds` for any map, players, units, modifiers and radius, and `UnpackPack`
  for any row. What a unit sees is a fold over a scan, and what a player sees one
  over units; each is reasoned about as the function that goes from one step to
  the next, which exists. That the rims of one side may come in any order is
  `SeenBounds`: the bounds it gives are those that `SightIsCurrent` states.
  `SightHolds` needs `ModifiersFit`, that there are no more modifiers than the list
  has places: one started beyond them is marked as started and never applied
  (`g_fow.c:668`). `CopiesAgree` is shown cell by cell (`CellsInStep`): a cell that
  differs from the client's is in a row marked dirty or in one that was lost. Both
  it and `NothingUnexplored` are about the clients that are served, for any number
  of clients and any seating; the invariant adds that the
  players taken for connected are those of the clients that have begun (`Connected`). A client is sent the rows of one player
  only (`Sender`, `ReceivedFrom`), and one that is served now was served before
  whoever joined last (`ServedBefore`). That chunks cover the marked rows is `EveryRowSent` and
  `DirtyRowsSent`. Packing keeps `InRun`: the runs ended, taken back, and the run in
  progress make up the bits read so far, so that a payload is at most one longer
  than its bits and the ways out of the packer for a full buffer are never taken.
* `GameEventsProofs`: `TypeCorrect`, `RingIsFaithful`, `UnitHandlersAreOwn`,
  `PassIsComplete` and `CoroutinesResumeOnce` for any players, units, triggers,
  handlers and sizes. `RingFaithful` is not inductive, since it says nothing
  while the ring overflows and must hold again afterwards; `LastLapFaithful`
  (the events of the last lap are in their slots) is, because counters less
  than a lap apart have different slots (`SlotsDiffer`). `CalledMatch` adds that
  nothing is published and no edict changes while handlers are called.
  `WalkOrdered` says of the coroutines before, at and behind the cursor which
  have run; both properties of the walk follow from it.
* `FlowFieldProofs`: `TypeCorrect`, `FieldsAreCoherent` and `GoalsFindTheirFields` for any
  units, cells, obstacles, number of slots and budget. A goal asks by a number
  alone. That it gets the field it asked for rests on three facts: the next
  number is beyond those in the cache (`CacheSound`) and beyond those that goals
  remember since the last building (`Remembered`), and the numbers have not come
  round, because bakes are counted against a budget that nothing resets
  (`Counted`).
* `CombatProofs`: `TypeCorrect` and `NoCrashWithoutRemoval` for any units, players,
  edicts, weapons and timers. Nothing clears a pointer to an edict that is freed.
  What keeps the game from calling through NULL is a fact about the whole table
  (`Table`): a goal and an owner name edicts of units, which are never given out
  again, so that what they name is the unit it was or nothing at all. Each
  operator that a turn is built from maps tables to tables.
* `HarvestProofs`: `MineCounted` and `NothingIsLost` for any number of workers, trees,
  places and orders. `TypeOK`, which has the mine's counter in it, is inductive as
  it stands. Leaving the mine is the step with an argument: as someone waits
  the mine was full, so that one place has become free; the one of the least
  number (`HasLeast`) and no other has nobody before it (`OneAdmitted`). The books:
  a sum over workers or trees is stated as the number of pieces in a set, so
  that a change of one load changes it by as much (`SumChanges`) without an
  induction over the workers, and a tree's blows are whole (`Struck`).
* `JoinProofs`, of the configstrings: `PoolCorrect` and `LastToldHasAll` for any number
  of names, indices and clients and any size of message above the number of
  indices. A message that overflows throws away what it held; `Knows` says why
  that does not happen to the client told last: fewer strings wait for it than
  there are marked indices (`Behind`). What the loops over the indices do is shown
  without an induction scheme: the function exists that goes from one index to
  the next (`Iterates`), and a set with 0 that goes on by 1 holds all (`Steps`).
* `JoinProofs`, of the handshake: `TypeCorrect` and `NeverAnswered` for any number of
  maps, requests and faults. A packet is read in whatever state the client is by
  then, so that `Handshake` speaks of every message in flight (`Carried`) and of
  the client's flags whether or not it plays (`Remembers`): one that is not
  answered has nothing prepared, and a late frame does not bring it into play.

Only model-checked: the liveness properties (`AdmittedPlays`,
`AnsweredIsSettled`, `ServerLossNoticed`, `UnsentReachesAll`, `StartLeadsToGame`,
`EveryEventHandled`, `CorpseGoes`, `MiningGoesOn`), since neither fairness nor
ENABLED is within TLAPS's reach here.

## 8. What is not modelled, and why

* Drawing, sound, UI layouts, archives, map and model formats, geometry: pure
  functions and I/O without shared state; of distances and lines the models
  take every possible outcome.
* The StarCraft II and World of Warcraft libraries: viewers behind the same
  interface.
* UDP sockets: the operating system's; `Connect` and `Fog` have loss, repetition and
  delay as what the network may do.
* LAN discovery: a question and an answer without state on the server.
* Building, training, other skills, buffs and items; a mine that is removed or
  runs dry (its gold is never counted down in the code); other orders than
  those of `Combat`, `FlowField` and `Harvest`.
* The area tree: linked and unlinked by one thread, in the order of the edicts.
* Of `Combat`: `combatentity`, pause and stun, invulnerability that changes. Of
  `Fog`: collisions of its hashes. Of `Connect`: more than one remote client, whose
  records do not touch each other.
