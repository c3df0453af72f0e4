------------------------------ MODULE DeltaView ------------------------------
(***************************************************************************)
(* What a client can know of the entities of a running game: each game     *)
(* frame the server sends it the difference between what it sees now and   *)
(* what the last frame sent showed it (server/sv_ents.c), and the client   *)
(* patches its entity table with it (client/cl_parse.c).                   *)
(*                                                                         *)
(* A frame is a function from entity numbers to the states it shows.  The  *)
(* abstraction leaves to module Snapshot how frames are kept and merged,   *)
(* and to a free choice which entities a client sees.                      *)
(***************************************************************************)
EXTENDS Integers, Sequences

CONSTANTS
  Client,       \* the clients of the game
  Num,          \* entity numbers
  Field,        \* the fields of an entityState_t, and svflags
  WireField,    \* those in entityStateFields, which messages carry
  Value, Zero,  \* what a field holds, and what memset puts there
  State,        \* the states the game library gives its entities
  Loaded,       \* the entities a map may begin with
  Hidden,       \* those with SVF_NOCLIENT set
  Shown,        \* the others that have a model, a sound or an event
  Selected,     \* a state with RF_SELECTED added
  Wire,         \* Wire[f][v]: what v is after field f was written and read
  Absent,       \* stands for an entity that a frame does not show
  Removed,      \* the update of an entity with U_REMOVE set
  Same,         \* stands for a field whose bit is not set
  MaxInFlight   \* bound: messages sent to one client and not yet read

NoState == [f \in Field |-> Zero]

ASSUME StateAssumption ==
  /\ Zero \in Value
  /\ WireField \subseteq Field
  /\ State \subseteq [Field -> Value]
  /\ Loaded \subseteq [Num -> State]
  /\ Shown \subseteq State \ Hidden
  /\ Selected \in [Shown -> Shown]
  /\ Wire \in [Field -> [Value -> Value]]
ASSUME MarkAssumption ==
  /\ Absent \notin [Field -> Value]
  /\ Removed \notin [Field -> Value \cup {Same}]
  /\ Same \notin Value
ASSUME BoundAssumption == MaxInFlight \in Nat

VARIABLES
  edicts,     \* the state of each entity in the game library
  baselines,  \* sv.baselines
  cs,         \* how far each client is: "connected", "primed" or "spawned"
  pending,    \* the clients this game frame has still to be sent to
  from,       \* the last frame sent to each client
  chan,       \* the messages on their way to it
  view,       \* its cl.ents[n].current
  applied,    \* history: the last frame it has read
  known       \* history: the entities that frames it has read have shown

vars == <<edicts, baselines, cs, pending, from, chan, view, applied, known>>

Frame == [Num -> State \cup {Absent}]
EmptyFrame == [n \in Num |-> Absent]

-----------------------------------------------------------------------------
(* MSG_WriteDeltaEntity and MSG_ReadDeltaEntity. *)
Changed(old, new) ==
  [f \in Field |->
     IF f \in WireField /\ old[f] # new[f] THEN Wire[f][new[f]] ELSE Same]
(* Mutant: MSG_ReadFields reads fields whose bit is not set. *)
PatchedWhole(state, update) == [f \in Field |-> update[f]]
Patched(state, update) ==
  [f \in Field |-> IF update[f] = Same THEN state[f] ELSE update[f]]

(* Mutant: nothing is written for an entity that is not in the new frame. *)
DeltaKeeping(old, new, base) ==
  [n \in Num |-> IF new[n] = Absent THEN [f \in Field |-> Same]
     ELSE Changed(IF old[n] = Absent THEN base[n] ELSE old[n], new[n])]

(* SV_EmitPacketEntities: an entity of both frames as a difference, a new  *)
(* one against its baseline, an old one as removed.                        *)
Delta(old, new, base) ==
  [n \in Num |->
     IF new[n] = Absent
     THEN IF old[n] = Absent THEN [f \in Field |-> Same] ELSE Removed
     ELSE Changed(IF old[n] = Absent THEN base[n] ELSE old[n], new[n])]

(* Mutant: the entity is cleared before it is patched. *)
AppliedAfresh(table, delta) ==
  [n \in Num |-> IF delta[n] = Removed THEN NoState
                                       ELSE Patched(NoState, delta[n])]

(* CL_ReadPacketEntities: a removed entity is zeroed, any other patched. *)
Applied(table, delta) ==
  [n \in Num |-> IF delta[n] = Removed THEN NoState
                                       ELSE Patched(table[n], delta[n])]

(* CL_ParseBaseline, for the entities the message lists. *)
Primed(table, states) ==
  [n \in Num |-> IF states[n] = Absent THEN table[n]
                 ELSE Patched(NoState, Changed(NoState, states[n]))]

(* The entities of the game that are not hidden. *)
Listed == [n \in Num |-> IF edicts[n] \in Hidden THEN Absent ELSE edicts[n]]

(* A frame of the game: some of what is shown, selected by the player or   *)
(* not.                                                                    *)
Sight(frame) ==
  \A n \in Num : frame[n] # Absent =>
    edicts[n] \in Shown /\ frame[n] \in {edicts[n], Selected[edicts[n]]}

-----------------------------------------------------------------------------
(* The map is loaded and SV_CreateBaseline has run. *)
Init ==
  /\ edicts \in Loaded
  /\ baselines = edicts
  /\ cs = [c \in Client |-> "connected"]
  /\ pending = {}
  /\ from = [c \in Client |-> EmptyFrame]
  /\ chan = [c \in Client |-> <<>>]
  /\ view = [c \in Client |-> [n \in Num |-> NoState]]
  /\ applied = [c \in Client |-> EmptyFrame]
  /\ known = [c \in Client |-> {}]

Send(c, m) ==
  /\ Len(chan[c]) < MaxInFlight
  /\ chan' = [chan EXCEPT ![c] = Append(@, m)]

(* SV_Baselines_f: the entities as they are now, except the hidden ones. *)
Baselines(c) ==
  /\ cs[c] = "connected" /\ pending = {}
  /\ cs' = [cs EXCEPT ![c] = "primed"]
  /\ Send(c, [kind |-> "baselines",
              states |-> Listed])
  /\ UNCHANGED <<edicts, baselines, pending, from, view, applied, known>>

(* SV_Begin_f, on a command the client sends once it has read the rest. *)
Begin(c) ==
  /\ cs[c] = "primed" /\ pending = {} /\ chan[c] = <<>>
  /\ cs' = [cs EXCEPT ![c] = "spawned"]
  /\ from' = [from EXCEPT ![c] = EmptyFrame]
  /\ UNCHANGED <<edicts, baselines, pending, chan, view, applied, known>>

(* SV_RunGameFrame: the game may change, free and spawn any entity. *)
RunGameFrame ==
  /\ pending = {}
  /\ edicts' \in [Num -> State]
  /\ pending' = {c \in Client : cs[c] = "spawned"}
  /\ UNCHANGED <<baselines, cs, from, chan, view, applied, known>>

(* SV_SendClientDatagram: what the client sees is a free choice. *)
SendFrame(c) ==
  /\ c \in pending
  /\ pending' = pending \ {c}
  /\ \E new \in [Num -> Shown \cup {Absent}] :
       /\ Sight(new)
       /\ Send(c, [kind |-> "frame", new |-> new,
                   delta |-> Delta(from[c], new, baselines)])
       /\ from' = [from EXCEPT ![c] = new]
  /\ UNCHANGED <<edicts, baselines, cs, view, applied, known>>

ReadBaselines(c) ==
  /\ chan[c] # <<>> /\ Head(chan[c]).kind = "baselines"
  /\ view' = [view EXCEPT ![c] = Primed(@, Head(chan[c]).states)]
  /\ chan' = [chan EXCEPT ![c] = Tail(@)]
  /\ UNCHANGED <<edicts, baselines, cs, pending, from, applied, known>>

ReadFrame(c) ==
  LET m == Head(chan[c]) IN
  /\ chan[c] # <<>> /\ m.kind = "frame"
  /\ view' = [view EXCEPT ![c] = Applied(@, m.delta)]
  /\ applied' = [applied EXCEPT ![c] = m.new]
  /\ known' = [known EXCEPT ![c] = @ \cup {n \in Num : m.new[n] # Absent}]
  /\ chan' = [chan EXCEPT ![c] = Tail(@)]
  /\ UNCHANGED <<edicts, baselines, cs, pending, from>>

Next ==
  \/ RunGameFrame
  \/ \E c \in Client : \/ Baselines(c) \/ Begin(c) \/ SendFrame(c)
                       \/ ReadBaselines(c) \/ ReadFrame(c)

Spec == Init /\ [][Next]_vars

-----------------------------------------------------------------------------
(* The types of the game's entities, the frames, the messages and the      *)
(* client's entity table.                                                  *)
Update == [Field -> Value \cup {Same}] \cup {Removed}
Message == [kind : {"baselines"}, states : Frame]
             \cup [kind : {"frame"}, new : Frame, delta : [Num -> Update]]

TypeOK ==
  /\ edicts \in [Num -> State]
  /\ baselines \in [Num -> State]
  /\ cs \in [Client -> {"connected", "primed", "spawned"}]
  /\ pending \subseteq Client
  /\ from \in [Client -> Frame]
  /\ chan \in [Client -> Seq(Message)]
  /\ view \in [Client -> [Num -> [Field -> Value]]]
  /\ applied \in [Client -> Frame]
  /\ known \in [Client -> SUBSET Num]

(* On a channel that loses nothing, a client shows each entity of the last *)
(* frame it has read as that frame does, except where a field is back at   *)
(* its baseline: CL_ReadPacketEntities starts from what it held, not from  *)
(* the baseline SV_EmitPacketEntities compared with.                       *)
UpToBaseline(table, frame) ==
  \A n \in Num : frame[n] # Absent =>
    \A f \in WireField :
      \/ table[n][f] = Wire[f][frame[n][f]]
      \/ frame[n][f] = baselines[n][f]

FollowsFrame == \A c \in Client : UpToBaseline(view[c], applied[c])

(* An entity that a frame has shown and the last one no longer shows is    *)
(* gone from the client's table: nothing it saw stays behind as a ghost.   *)
NoGhosts ==
  \A c \in Client : \A n \in known[c] :
    applied[c][n] = Absent => view[c][n] = NoState
==============================================================================
