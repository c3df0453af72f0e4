----------------------------- MODULE PacketQueue -----------------------------
(***************************************************************************)
(* What the in-process transport of common/net.c promises to the client    *)
(* and the server that share one process: in each direction a FIFO queue   *)
(* of whole packets with a capacity in bytes.  A packet that does not fit  *)
(* throws away everything queued before it, and nothing else ever loses,   *)
(* reorders, splits, joins or alters a packet.                             *)
(***************************************************************************)
EXTENDS Integers, Sequences

CONSTANTS
  Packet,      \* the packets that are sent, non-empty sequences of bytes
  Capacity,    \* bytes one direction can hold (LOOPBACK_SIZE)
  HeaderSize   \* bytes of the length prefix of a queued packet

VARIABLES
  queue,   \* queue[s]: the packets end s has sent and its peer has not read
  bytes,   \* bytes[s]: what they occupy
  inbox    \* inbox[r]: the last packet end r has received

vars == <<queue, bytes, inbox>>

(* The two ends, NS_CLIENT and NS_SERVER. *)
NETSOURCE == {"client", "server"}
Peer(s) == IF s = "client" THEN "server" ELSE "client"

Cost(p) == Len(p) + HeaderSize

Init ==
  /\ queue = [s \in NETSOURCE |-> <<>>]
  /\ bytes = [s \in NETSOURCE |-> 0]
  /\ inbox = [s \in NETSOURCE |-> <<>>]

Post(s, p) ==
  /\ bytes[s] + Cost(p) <= Capacity
  /\ queue' = [queue EXCEPT ![s] = Append(@, p)]
  /\ bytes' = [bytes EXCEPT ![s] = @ + Cost(p)]
  /\ UNCHANGED inbox

PostOverQueued(s, p) ==
  /\ Cost(p) <= Capacity
  /\ bytes[s] + Cost(p) > Capacity
  /\ queue' = [queue EXCEPT ![s] = <<p>>]
  /\ bytes' = [bytes EXCEPT ![s] = Cost(p)]
  /\ UNCHANGED inbox

Take(r) ==
  LET s == Peer(r) IN
  /\ queue[s] # <<>>
  /\ inbox' = [inbox EXCEPT ![r] = Head(queue[s])]
  /\ queue' = [queue EXCEPT ![s] = Tail(@)]
  /\ bytes' = [bytes EXCEPT ![s] = @ - Cost(Head(queue[s]))]

Next ==
  \E s \in NETSOURCE :
    \/ \E p \in Packet : Post(s, p) \/ PostOverQueued(s, p)
    \/ Take(s)

Spec == Init /\ [][Next]_vars
==============================================================================
