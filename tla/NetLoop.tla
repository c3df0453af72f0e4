------------------------------- MODULE NetLoop -------------------------------
(***************************************************************************)
(* The loopback transport of common/net.c: two byte rings, one per         *)
(* direction, that carry packets between the client and the server of one  *)
(* process.  A ring is an array indexed by two counters that only grow and *)
(* are reduced modulo the size of the array at each access.                *)
(*                                                                         *)
(* Abstractions: the four bytes of a little-endian length are a first cell *)
(* that holds the length and HeaderSize - 1 cells that hold zero; a        *)
(* payload is a sequence of numbers.                                       *)
(***************************************************************************)
EXTENDS Integers, Sequences

CONSTANTS
  Packet,          \* what the two ends send, the rejected lengths included
  LOOPBACK_SIZE,   \* cells in a ring
  HeaderSize,      \* cells of the length prefix
  MAX_MSGLEN,      \* cells of a message buffer
  IntMax,          \* the largest value of the int counters
  Limit            \* bound: cells sent in one direction in a behaviour

ASSUME PacketAssumption == Packet \subseteq Seq(Nat)
ASSUME SizeAssumption == /\ LOOPBACK_SIZE \in Nat \ {0}
                         /\ HeaderSize \in Nat \ {0}
                         /\ MAX_MSGLEN \in Nat
(* Beyond IntMax the counters overflow, which C leaves undefined: every    *)
(* behaviour considered here sends at most Limit cells.                    *)
ASSUME LimitAssumption == Limit \in Nat /\ IntMax \in Nat /\ Limit <= IntMax

VARIABLES
  loopbufs,   \* loopbufs[s]: buffer, read and write of the ring s sends into
  inbox,      \* inbox[r]: the contents of r's message buffer after a read
  queue       \* history: the packets in the ring, each with its first cell

vars == <<loopbufs, inbox, queue>>

NETSOURCE == {"client", "server"}
Peer(s) == IF s = "client" THEN "server" ELSE "client"

Slot == 0 .. LOOPBACK_SIZE - 1

(* The cells that a packet occupies, header first; k counts from zero. *)
PacketSize(p) == Len(p) + HeaderSize
Cell(p, k) == IF k = 0 THEN Len(p)
              ELSE IF k < HeaderSize THEN 0
              ELSE p[k - HeaderSize + 1]

-----------------------------------------------------------------------------
Init ==
  /\ loopbufs = [s \in NETSOURCE |->
                   [buffer |-> [i \in Slot |-> 0], read |-> 0, write |-> 0]]
  /\ inbox = [s \in NETSOURCE |-> <<>>]
  /\ queue = [s \in NETSOURCE |-> <<>>]

BadLength(p) == Len(p) <= 0 \/ PacketSize(p) > LOOPBACK_SIZE

(* Mutant: the check of the free space forgets the length prefix. *)
OverflowsByPayload(b, p) == b.write - b.read + Len(p) > LOOPBACK_SIZE

Overflows(b, p) == b.write - b.read + PacketSize(p) > LOOPBACK_SIZE

(* The ring after the two copy loops, which store cell k of the packet in  *)
(* slot (write + k) % LOOPBACK_SIZE.                                       *)
Stored(b, p) ==
  [b EXCEPT
     !.buffer = [i \in Slot |->
                   LET k == (i - b.write) % LOOPBACK_SIZE
                   IN  IF k < PacketSize(p) THEN Cell(p, k) ELSE b.buffer[i]],
     !.read = IF Overflows(b, p) THEN b.write ELSE b.read,
     !.write = b.write + PacketSize(p)]

(* NET_SendLoopPacket. *)
SendLoopPacket(s, p) ==
  LET b == loopbufs[s] IN
  /\ b.write + PacketSize(p) <= Limit
  /\ ~BadLength(p)
  /\ loopbufs' = [loopbufs EXCEPT ![s] = Stored(b, p)]
  /\ queue' = [queue EXCEPT ![s] =
                 IF Overflows(b, p) THEN <<[at |-> b.write, data |-> p]>>
                                    ELSE Append(@, [at |-> b.write, data |-> p])]
  /\ UNCHANGED inbox

(* Its early return: the packet is refused and nothing changes. *)
RefuseLoopPacket(s, p) ==
  /\ BadLength(p)
  /\ UNCHANGED vars

(* The length and the payload that a reader finds at its read counter. *)
SizeAt(b) == b.buffer[b.read % LOOPBACK_SIZE]
(* Mutant: the copy loop of the reader starts one cell late. *)
PayloadAfter(b) ==
  [k \in 1 .. SizeAt(b) |-> b.buffer[(b.read + HeaderSize + k) % LOOPBACK_SIZE]]

PayloadAt(b) ==
  [k \in 1 .. SizeAt(b) |->
     b.buffer[(b.read + HeaderSize + k - 1) % LOOPBACK_SIZE]]

(* Mutant: the reader skips the length prefix twice. *)
GetLoopPacketLong(r) ==
  LET s == Peer(r)
      b == loopbufs[s]
  IN
  /\ b.read # b.write /\ SizeAt(b) < MAX_MSGLEN
  /\ inbox' = [inbox EXCEPT ![r] = PayloadAt(b)]
  /\ loopbufs' = [loopbufs EXCEPT ![s].read = @ + 2 * HeaderSize + SizeAt(b)]
  /\ queue' = [queue EXCEPT ![s] = SubSeq(@, 2, Len(@))]

(* NET_GetLoopPacket: end r reads the ring of its peer.  A length that is  *)
(* not below MAX_MSGLEN ends the program by an assertion.                  *)
GetLoopPacket(r) ==
  LET s == Peer(r)
      b == loopbufs[s]
  IN
  /\ b.read # b.write /\ SizeAt(b) < MAX_MSGLEN
  /\ inbox' = [inbox EXCEPT ![r] = PayloadAt(b)]
  /\ loopbufs' = [loopbufs EXCEPT ![s].read = @ + HeaderSize + SizeAt(b)]
  /\ queue' = [queue EXCEPT ![s] = Tail(@)]

Next ==
  \E s \in NETSOURCE :
    \/ \E p \in Packet : SendLoopPacket(s, p) \/ RefuseLoopPacket(s, p)
    \/ GetLoopPacket(s)

Spec == Init /\ [][Next]_vars

-----------------------------------------------------------------------------
(* The types of the rings, the message buffers and the history. *)
TypeOK ==
  /\ loopbufs \in [NETSOURCE -> [buffer : [Slot -> Nat],
                                 read : 0 .. Limit, write : 0 .. Limit]]
  /\ inbox \in [NETSOURCE -> Seq(Nat)]
  /\ queue \in [NETSOURCE -> Seq([at : 0 .. Limit, data : Packet])]

(* The packets q in a ring b follow one another from the read counter to   *)
(* the write counter, and together they fit.                               *)
Adjacent(b, q) ==
  /\ b.write - b.read \in 0 .. LOOPBACK_SIZE
  /\ q = <<>> <=> b.read = b.write
  /\ q # <<>> => /\ q[1].at = b.read
                 /\ q[Len(q)].at + PacketSize(q[Len(q)].data) = b.write
  /\ \A j \in 1 .. Len(q) :
       /\ ~BadLength(q[j].data)
       /\ q[j].at >= b.read
       /\ q[j].at + PacketSize(q[j].data) <= b.write
       /\ j < Len(q) => q[j + 1].at = q[j].at + PacketSize(q[j].data)
       /\ \A i \in 1 .. j - 1 : q[i].at + PacketSize(q[i].data) <= q[j].at

(* Every cell of every packet of q, header and payload, is still where its *)
(* reader will look for it, over the wrap of the index too.                *)
Intact(b, q) ==
  \A j \in 1 .. Len(q) : \A k \in 0 .. PacketSize(q[j].data) - 1 :
    b.buffer[(q[j].at + k) % LOOPBACK_SIZE] = Cell(q[j].data, k)

(* No send ever overwrites or misframes a packet that is still queued      *)
(* (NET_SendLoopPacket's check of the free space).                         *)
RingHoldsQueue ==
  \A s \in NETSOURCE : /\ Adjacent(loopbufs[s], queue[s])
                       /\ Intact(loopbufs[s], queue[s])

(* The rings implement the packet queues: what NET_GetLoopPacket returns   *)
(* is the oldest packet its peer sent and did not drop, whole.             *)
Data(q) == [j \in 1 .. Len(q) |-> q[j].data]

PQ == INSTANCE PacketQueue WITH
        Packet <- {p \in Packet : Len(p) > 0},
        Capacity <- LOOPBACK_SIZE,
        queue <- [s \in NETSOURCE |-> Data(queue[s])],
        bytes <- [s \in NETSOURCE |-> loopbufs[s].write - loopbufs[s].read]

(* What network.md promises of the loopback ring, at the level of packets. *)
ImplementsPacketQueue == PQ!Spec
==============================================================================
