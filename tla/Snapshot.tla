------------------------------- MODULE Snapshot -------------------------------
(***************************************************************************)
(* How server/sv_ents.c keeps and sends snapshots.  All clients share one  *)
(* ring of entity states, svs.client_entities: SV_BuildClientFrame copies  *)
(* what a client sees to its end, and SV_EmitPacketEntities merges, in the *)
(* order of their numbers, the range of the frame just built with the      *)
(* range of the frame sent before, which must still be there.              *)
(*                                                                         *)
(* The abstractions of DeltaView hold here too; distance, which decides    *)
(* what is left out of a frame that is full, is a free choice.             *)
(***************************************************************************)
EXTENDS Integers, Sequences, FiniteSetsExt

CONSTANTS
  NumClients,          \* svs.num_clients; clients are 0 .. NumClients - 1
  max_clients,         \* ge->max_clients
  MaxNum,              \* entity numbers are 1 .. MaxNum
  UPDATE_BACKUP, MAX_PACKET_ENTITIES,
  HIGH_NUMBER,         \* the number that stands for the end of a frame
  DWORD,               \* 2^32: where an unsigned counter starts again
  Field, WireField, Value, Zero, State, Hidden, Shown, Selected, Wire,
  Absent, Removed, Same,
  Loaded,              \* the entities a map may begin with
  Owned,               \* Owned[c]: what client c sees wherever its camera is
  Counted,             \* what next_client_entities may be when a map begins
  MaxFrames,           \* bound: game frames
  Mobile,              \* bound: the entities the game changes
  MaxInFlight          \* bound: messages sent to one client and not read

Client == 0 .. NumClients - 1
Num == 1 .. MaxNum

(* Mutant: the ring has room for one client only. *)
NumClientEntitiesOne == UPDATE_BACKUP * MAX_PACKET_ENTITIES

(* SV_InitGame: room for UPDATE_BACKUP full frames of each client. *)
num_client_entities == UPDATE_BACKUP * max_clients * MAX_PACKET_ENTITIES
NoFrame == -1

ASSUME RingAssumption ==
  /\ max_clients \in Nat /\ NumClients \in 1 .. max_clients
  /\ MaxNum \in Nat /\ DWORD \in Nat \ {0}
  /\ UPDATE_BACKUP \in Nat \ {0, 1}
  /\ MAX_PACKET_ENTITIES \in Nat \ {0}
  /\ DWORD % num_client_entities = 0
  /\ MaxFrames \in Nat /\ MaxFrames < DWORD - 1
  /\ Counted \subseteq 0 .. DWORD - 1
  /\ Owned \in [Client -> SUBSET Num]
  /\ Mobile \subseteq Num
(* As in DeltaView. *)
ASSUME EntityAssumption ==
  /\ Zero \in Value /\ WireField \subseteq Field
  /\ State \subseteq [Field -> Value] /\ Loaded \subseteq [Num -> State]
  /\ Shown \subseteq State \ Hidden /\ Selected \in [Shown -> Shown]
  /\ Wire \in [Field -> [Value -> Value]]
  /\ Absent \notin [Field -> Value] /\ Same \notin Value
  /\ Removed \notin [Field -> Value \cup {Same}]
  /\ MaxInFlight \in Nat
(* Entity numbers go up to MAX_GAME_ENTITIES, 16384, and HIGH_NUMBER is    *)
(* 9999: the merge is modelled for games that stay below it.               *)
ASSUME HighNumberAssumption == HIGH_NUMBER \in Nat /\ MaxNum < HIGH_NUMBER

VARIABLES
  edicts, baselines, cs, pending,
  framenum,               \* sv.framenum
  client_entities,        \* the ring: a number and a state in each cell
  next_client_entities,   \* the DWORD that counts what was put into it
  frames,                 \* frames[c][i]: first_entity and num_entities
  lastframe,              \* the number of the frame last sent, or NoFrame
  chan, view, applied, known

snapshotVars == <<edicts, baselines, cs, pending, framenum, client_entities,
                  next_client_entities, frames, lastframe, chan, view, applied,
                  known>>
ring == <<framenum, client_entities, next_client_entities, frames, lastframe>>

NoState == [f \in Field |-> Zero]
EmptyFrame == [n \in Num |-> Absent]
Listed(S, L) ==
  [n \in Num |-> IF n \in S \cap L THEN Selected[edicts[n]]
                 ELSE IF n \in S THEN edicts[n] ELSE Absent]

Index(i) == (i % DWORD) % num_client_entities

-----------------------------------------------------------------------------
(* The numbers in a set, as SV_BuildClientFrame's qsort orders them. *)
InOrder(S) ==
  [k \in 1 .. Cardinality(S) |->
     CHOOSE n \in S : Cardinality({m \in S : m <= n}) = k]

(* The ring after SV_NextClientEntity was called for each of the sorted    *)
(* numbers, the last of which wins when they run over one another.         *)
Put(numbers, states) ==
  [i \in 0 .. num_client_entities - 1 |->
     LET hits == {k \in 1 .. Len(numbers) :
                    Index(next_client_entities + k - 1) = i}
     IN IF hits = {} THEN client_entities[i]
        ELSE LET n == numbers[Max(hits)]
             IN [number |-> n, state |-> states[n]]]

(* SV_BuildClientFrame's candidates: all that is seen, or as many as fit.  *)
Candidates(seen) ==
  kSubset(Min({Cardinality(seen), MAX_PACKET_ENTITIES}), seen)

(* MSG_WriteDeltaEntity, which writes nothing when nothing differs. *)
Changed(old, new) ==
  [f \in Field |->
     IF f \in WireField /\ old[f] # new[f] THEN Wire[f][new[f]] ELSE Same]
DeltaEntity(old, new, n) ==
  LET update == Changed(old, new)
  IN IF \A f \in Field : update[f] = Same THEN <<>>
     ELSE <<[number |-> n, update |-> update]>>

(* SV_EmitPacketEntities: the loop goes through two ranges of the ring at  *)
(* once.  A turn takes the entity of the lower number, or, when both have  *)
(* it, the two; loop[k] is where it is, and what is written, after k.      *)
Entry(cells, frame, i) == cells[Index(frame.first_entity + i)]
NumberAt(cells, frame, i) ==
  IF i >= frame.num_entities THEN HIGH_NUMBER ELSE Entry(cells, frame, i).number

Turn(cells, old, new, s) ==
  LET newnum == NumberAt(cells, new, s.newindex)
      oldnum == NumberAt(cells, old, s.oldindex)
      newent == Entry(cells, new, s.newindex).state
      oldent == Entry(cells, old, s.oldindex).state
  IN
  IF s.newindex >= new.num_entities /\ s.oldindex >= old.num_entities THEN s
  ELSE IF newnum = oldnum
    THEN [newindex |-> s.newindex + 1, oldindex |-> s.oldindex + 1,
          msg |-> s.msg \o DeltaEntity(oldent, newent, newnum)]
  ELSE IF newnum < oldnum
    THEN [newindex |-> s.newindex + 1, oldindex |-> s.oldindex,
          msg |-> s.msg \o DeltaEntity(baselines[newnum], newent, newnum)]
  ELSE [newindex |-> s.newindex, oldindex |-> s.oldindex + 1,
        msg |-> Append(s.msg, [number |-> oldnum, update |-> Removed])]

PacketEntities(cells, old, new) ==
  LET turns == new.num_entities + old.num_entities
      loop[k \in 0 .. turns] ==
        IF k = 0 THEN [newindex |-> 0, oldindex |-> 0, msg |-> <<>>]
                 ELSE Turn(cells, old, new, loop[k - 1])
  IN  loop[turns].msg

NothingSent == [first_entity |-> 0, num_entities |-> 0]

(* CL_ReadPacketEntities: the updates of a message, one after another. *)
Updated(table, u) ==
  [table EXCEPT ![u.number] =
     IF u.update = Removed THEN NoState
     ELSE [f \in Field |-> IF u.update[f] = Same THEN @[f] ELSE u.update[f]]]
AfterUpdates(table, updates) ==
  LET read[k \in 0 .. Len(updates)] ==
        IF k = 0 THEN table ELSE Updated(read[k - 1], updates[k])
  IN  read[Len(updates)]

-----------------------------------------------------------------------------
SnapshotInit ==
  /\ edicts \in Loaded
  /\ baselines = edicts
  /\ cs = [c \in Client |-> "connected"]
  /\ pending = {}
  /\ framenum = 0
  /\ client_entities = [i \in 0 .. num_client_entities - 1 |->
                          [number |-> 0, state |-> NoState]]
  /\ next_client_entities \in Counted
  /\ frames = [c \in Client |-> [i \in 0 .. UPDATE_BACKUP - 1 |-> NothingSent]]
  /\ lastframe = [c \in Client |-> NoFrame]
  /\ chan = [c \in Client |-> <<>>]
  /\ view = [c \in Client |-> [n \in Num |-> NoState]]
  /\ applied = [c \in Client |-> EmptyFrame]
  /\ known = [c \in Client |-> {}]

Send(c, m) ==
  /\ Len(chan[c]) < MaxInFlight
  /\ chan' = [chan EXCEPT ![c] = Append(@, m)]

Baselines(c) ==
  /\ cs[c] = "connected" /\ pending = {}
  /\ cs' = [cs EXCEPT ![c] = "primed"]
  /\ Send(c, [kind |-> "baselines",
              states |-> Listed({n \in Num : edicts[n] \notin Hidden}, {})])
  /\ UNCHANGED <<edicts, baselines, pending, ring, view, applied, known>>

Begin(c) ==
  /\ cs[c] = "primed" /\ pending = {} /\ chan[c] = <<>>
  /\ cs' = [cs EXCEPT ![c] = "spawned"]
  /\ lastframe' = [lastframe EXCEPT ![c] = NoFrame]
  /\ UNCHANGED <<edicts, baselines, pending, framenum, client_entities,
                 next_client_entities, frames, chan, view, applied, known>>

RunGameFrame ==
  /\ pending = {} /\ framenum < MaxFrames
  /\ framenum' = framenum + 1
  /\ edicts' \in [Num -> State]
  /\ \A n \in Num \ Mobile : edicts'[n] = edicts[n]
  /\ pending' = {c \in Client : cs[c] = "spawned"}
  /\ UNCHANGED <<baselines, cs, client_entities, next_client_entities, frames,
                 lastframe, chan, view, applied, known>>

(* SV_BuildClientFrame and SV_WriteFrameToClient, in the order of the      *)
(* client table, for the numbers S that fit the frame.                     *)
SendSnapshot(c, S, L) ==
  LET numbers == InOrder(S)
      cells == Put(numbers, Listed(S, L))
      new == [first_entity |-> next_client_entities,
              num_entities |-> Len(numbers)]
      built == [frames EXCEPT ![c][framenum % UPDATE_BACKUP] = new]
      old == IF lastframe[c] = NoFrame THEN NothingSent
             ELSE built[c][lastframe[c] % UPDATE_BACKUP]
  IN
  /\ client_entities' = cells
  /\ next_client_entities' = (next_client_entities + Len(numbers)) % DWORD
  /\ frames' = built
  /\ Send(c, [kind |-> "frame", new |-> Listed(S, L),
              updates |-> PacketEntities(cells, old, new)])
  /\ lastframe' = [lastframe EXCEPT ![c] = framenum]

SendFrame(c) ==
  /\ c \in pending /\ \A d \in pending : c <= d
  /\ pending' = pending \ {c}
  /\ LET shown == {n \in Num : edicts[n] \in Shown} IN
     \E near \in SUBSET (shown \ Owned[c]) :
       \E S \in Candidates((shown \cap Owned[c]) \cup near) :
         \E L \in SUBSET S : SendSnapshot(c, S, L)
  /\ UNCHANGED <<edicts, baselines, cs, framenum, view, applied, known>>

ReadBaselines(c) ==
  LET states == Head(chan[c]).states IN
  /\ chan[c] # <<>> /\ Head(chan[c]).kind = "baselines"
  /\ view' = [view EXCEPT ![c] =
       [n \in Num |-> IF states[n] = Absent THEN @[n]
                      ELSE [f \in Field |->
                              IF f \in WireField /\ states[n][f] # Zero
                              THEN Wire[f][states[n][f]] ELSE Zero]]]
  /\ chan' = [chan EXCEPT ![c] = Tail(@)]
  /\ UNCHANGED <<edicts, baselines, cs, pending, ring, applied, known>>

ReadFrame(c) ==
  LET m == Head(chan[c]) IN
  /\ chan[c] # <<>> /\ m.kind = "frame"
  /\ view' = [view EXCEPT ![c] = AfterUpdates(@, m.updates)]
  /\ applied' = [applied EXCEPT ![c] = m.new]
  /\ known' = [known EXCEPT ![c] = @ \cup {n \in Num : m.new[n] # Absent}]
  /\ chan' = [chan EXCEPT ![c] = Tail(@)]
  /\ UNCHANGED <<edicts, baselines, cs, pending, ring>>

SnapshotNext ==
  \/ RunGameFrame
  \/ \E c \in Client : \/ Baselines(c) \/ Begin(c) \/ SendFrame(c)
                       \/ ReadBaselines(c) \/ ReadFrame(c)

SnapshotSpec == SnapshotInit /\ [][SnapshotNext]_snapshotVars

-----------------------------------------------------------------------------
(* What a range of the ring shows: the frame it was built from, as long as *)
(* nothing was put over it.                                                *)
Shows(frame) ==
  LET cells == {Entry(client_entities, frame, i) :
                  i \in 0 .. frame.num_entities - 1}
  IN [n \in Num |->
        IF \E e \in cells : e.number = n
        THEN (CHOOSE e \in cells : e.number = n).state ELSE Absent]

LastSent(c) == IF lastframe[c] = NoFrame THEN EmptyFrame
               ELSE Shows(frames[c][lastframe[c] % UPDATE_BACKUP])

(* The updates of a message, one for each entity. *)
AsDelta(updates) ==
  [n \in Num |->
     IF \E i \in 1 .. Len(updates) : updates[i].number = n
     THEN updates[CHOOSE i \in 1 .. Len(updates) : updates[i].number = n].update
     ELSE [f \in Field |-> Same]]

DV == INSTANCE DeltaView WITH
        from <- [c \in Client |-> LastSent(c)],
        chan <- [c \in Client |->
                   [i \in 1 .. Len(chan[c]) |->
                      IF chan[c][i].kind = "baselines" THEN chan[c][i]
                      ELSE [kind |-> "frame", new |-> chan[c][i].new,
                            delta |-> AsDelta(chan[c][i].updates)]]]

(* The ring and its counters keep their types; those of the other          *)
(* variables are DeltaView's, which the refinement carries over.           *)
RingTypeOK ==
  /\ framenum \in 0 .. MaxFrames
  /\ client_entities \in [0 .. num_client_entities - 1 ->
                            [number : 0 .. MaxNum, state : State \cup {NoState}]]
  /\ next_client_entities \in 0 .. DWORD - 1
  /\ frames \in [Client -> [0 .. UPDATE_BACKUP - 1 ->
                   [first_entity : 0 .. DWORD - 1,
                    num_entities : 0 .. MAX_PACKET_ENTITIES]]]
  /\ lastframe \in [Client -> {NoFrame} \cup 0 .. MaxFrames]

(* The ring and the merge implement the frames and the differences of      *)
(* DeltaView: the last frame sent to a client is still whole in the ring   *)
(* when the next one is compared with it, whatever the other clients put   *)
(* there, and the merge of two sorted ranges writes each entity once.  (With *)
(* the types.)                                                             *)
ImplementsDeltaView == []RingTypeOK /\ DV!Spec
===============================================================================
