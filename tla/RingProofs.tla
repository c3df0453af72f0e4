------------------------------ MODULE RingProofs ------------------------------
(***************************************************************************)
(* Proofs about the two rings of the program, indexed by counters that     *)
(* only grow.  The byte rings of common/net.c, for every ring size, header *)
(* size and set of packets: they hold exactly the queued packets and       *)
(* implement PacketQueue.  The ring of entity states of server/sv_ents.c,  *)
(* for any number of clients and of entities and any size of a frame: with *)
(* the merge of its ranges it implements DeltaView.                        *)
(***************************************************************************)
EXTENDS NetLoop, Snapshot, FiniteSetTheorems, WellFoundedInduction, TLAPS

-----------------------------------------------------------------------------
(* Arithmetic of the ring index.                                           *)

(* Quotient and remainder. *)
LEMMA DivMod ==
  ASSUME NEW x \in Int, NEW n \in Nat \ {0}
  PROVE  /\ x \div n \in Int
         /\ x % n \in 0 .. n - 1
         /\ x = n * (x \div n) + (x % n)
BY SMT

(* A remainder is unique. *)
LEMMA UniqueRemainder ==
  ASSUME NEW n \in Nat \ {0}, NEW a \in Int, NEW b \in Int,
         NEW r \in 0 .. n - 1, NEW t \in 0 .. n - 1,
         n * a + r = n * b + t
  PROVE  r = t
<1>0. \A c \in Int : c >= 1 => n * c >= n
  BY SMT
<1>1. CASE a = b
  BY <1>1
<1>2. CASE a < b
  <2>1. n * (b - a) >= n
    BY <1>0, <1>2
  <2>2. n * b - n * a = n * (b - a)
    BY SMT
  <2> QED BY <2>1, <2>2
<1>3. CASE b < a
  <2>1. n * (a - b) >= n
    BY <1>0, <1>3
  <2>2. n * a - n * b = n * (a - b)
    BY SMT
  <2> QED BY <2>1, <2>2
<1> QED BY <1>1, <1>2, <1>3

LEMMA ModIs ==
  ASSUME NEW x \in Int, NEW n \in Nat \ {0}, NEW q \in Int,
         NEW r \in 0 .. n - 1, x = n * q + r
  PROVE  x % n = r
<1>1. x \div n \in Int /\ x % n \in 0 .. n - 1 /\ x = n * (x \div n) + (x % n)
  BY DivMod
<1> QED BY <1>1, UniqueRemainder

(* The distance from the write counter w, modulo the size, of the slot of  *)
(* counter value c, when c is less than a lap ahead of w.                  *)
LEMMA SlotAhead ==
  ASSUME NEW n \in Nat \ {0}, NEW w \in Int, NEW c \in Int,
         c - w \in 0 .. n - 1
  PROVE  ((c % n) - w) % n = c - w
<1> DEFINE q == c \div n
<1>1. q \in Int /\ c % n \in 0 .. n - 1 /\ c = n * q + (c % n)
  BY DivMod
<1>2. n * (- q) = - (n * q)
  BY <1>1, SMT
<1>3. (c % n) - w = n * (- q) + (c - w)
  BY <1>1, <1>2
<1> DEFINE u == - q
           x == (c % n) - w
<1>4. u \in Int /\ x \in Int /\ x = n * u + (c - w)
  BY <1>1, <1>3
<1> HIDE DEF q, u, x
<1>5. x % n = c - w
  BY <1>4, ModIs
<1> QED BY <1>5 DEF x

(* The same when c is at most a lap behind w. *)
LEMMA SlotBehind ==
  ASSUME NEW n \in Nat \ {0}, NEW w \in Int, NEW c \in Int,
         c - w + n \in 0 .. n - 1
  PROVE  ((c % n) - w) % n = c - w + n
<1> DEFINE q == c \div n
<1>1. q \in Int /\ c % n \in 0 .. n - 1 /\ c = n * q + (c % n)
  BY DivMod
<1>2. n * (- q - 1) = - (n * q) - n
  BY <1>1, SMT
<1>3. (c % n) - w = n * (- q - 1) + (c - w + n)
  BY <1>1, <1>2
<1> DEFINE u == - q - 1
           x == (c % n) - w
<1>4. u \in Int /\ x \in Int /\ x = n * u + (c - w + n)
  BY <1>1, <1>3
<1> HIDE DEF q, u, x
<1>5. x % n = c - w + n
  BY <1>4, ModIs
<1> QED BY <1>5 DEF x

(* An index is always a slot of the ring. *)
LEMMA SlotOK ==
  ASSUME NEW c \in Int
  PROVE  c % LOOPBACK_SIZE \in Slot
BY SizeAssumption, DivMod DEF Slot

-----------------------------------------------------------------------------
(* The sizes of a packet. *)
LEMMA PacketType ==
  ASSUME NEW p \in Packet
  PROVE  /\ Len(p) \in Nat
         /\ p \in Seq(Nat)
         /\ PacketSize(p) \in Nat
         /\ PacketSize(p) >= HeaderSize
         /\ PacketSize(p) > 0
         /\ PacketSize(p) = Len(p) + HeaderSize
         /\ \A j \in 1 .. Len(p) : p[j] \in Nat
<1>1. p \in Seq(Nat)
  BY PacketAssumption
<1> QED BY <1>1, SizeAssumption DEF PacketSize

(* Every cell of a packet is a natural number. *)
LEMMA CellType ==
  ASSUME NEW p \in Packet, NEW k \in 0 .. PacketSize(p) - 1
  PROVE  Cell(p, k) \in Nat
<1>1. k \in Int /\ HeaderSize \in Nat
  BY PacketType, SizeAssumption
<1>2. CASE k >= HeaderSize
  <2>1. k - HeaderSize + 1 \in 1 .. Len(p)
    BY <1>1, <1>2, PacketType
  <2> QED BY <1>1, <1>2, <2>1, PacketType DEF Cell
<1>3. CASE k < HeaderSize
  BY <1>1, <1>3, PacketType DEF Cell
<1> QED BY <1>1, <1>2, <1>3

-----------------------------------------------------------------------------
(* The inductive invariant: the types and RingHoldsQueue. *)
IInv == TypeOK /\ RingHoldsQueue

(* A stored packet is where its reader will look for it. *)
LEMMA StoredCells ==
  ASSUME NEW b \in [buffer : [Slot -> Nat], read : 0 .. Limit, write : 0 .. Limit],
         NEW p \in Packet, ~BadLength(p),
         NEW k \in 0 .. PacketSize(p) - 1
  PROVE  Stored(b, p).buffer[(b.write + k) % LOOPBACK_SIZE] = Cell(p, k)
<1> DEFINE n == LOOPBACK_SIZE
           c == b.write + k
           i == c % n
<1>1. /\ PacketSize(p) \in Nat /\ PacketSize(p) <= n /\ n \in Nat \ {0}
      /\ b.write \in Int /\ k \in Int
  BY PacketType, SizeAssumption, LimitAssumption DEF BadLength
<1>2. c \in Int /\ c - b.write \in 0 .. n - 1 /\ c - b.write = k
  BY <1>1
<1> HIDE DEF c
<1>3. (i - b.write) % n = k
  BY <1>1, <1>2, SlotAhead
<1>4. i \in Slot
  BY <1>2, SlotOK
<1> HIDE DEF i
<1>5. Stored(b, p).buffer[i] = Cell(p, k)
  BY <1>1, <1>3, <1>4 DEF Stored
<1> QED BY <1>5 DEF i, c

(* Storing a packet leaves alone the cells that the reader has still to    *)
(* read.                                                                   *)
LEMMA StoredKeeps ==
  ASSUME NEW b \in [buffer : [Slot -> Nat], read : 0 .. Limit, write : 0 .. Limit],
         NEW p \in Packet, ~Overflows(b, p),
         NEW c \in Int, b.read <= c, c < b.write
  PROVE  Stored(b, p).buffer[c % LOOPBACK_SIZE] = b.buffer[c % LOOPBACK_SIZE]
<1> DEFINE n == LOOPBACK_SIZE
           i == c % n
<1>1. /\ PacketSize(p) \in Nat /\ PacketSize(p) > 0 /\ n \in Nat \ {0}
      /\ b.write \in Int /\ b.read \in Int
      /\ b.write - b.read + PacketSize(p) <= n
  BY PacketType, SizeAssumption, LimitAssumption DEF Overflows
<1>2. c - b.write + n \in 0 .. n - 1 /\ c - b.write + n >= PacketSize(p)
  BY <1>1
<1>3. (i - b.write) % n = c - b.write + n
  BY <1>1, <1>2, SlotBehind
<1>4. i \in Slot
  BY <1>1, SlotOK
<1> HIDE DEF i
<1>5. Stored(b, p).buffer[i] = b.buffer[i]
  <2>1. ~((i - b.write) % n < PacketSize(p))
    BY <1>1, <1>2, <1>3
  <2> QED BY <1>4, <2>1 DEF Stored
<1> QED BY <1>5 DEF i

(* The types and the counters of the ring after a packet is stored. *)
LEMMA StoredType ==
  ASSUME NEW b \in [buffer : [Slot -> Nat], read : 0 .. Limit, write : 0 .. Limit],
         NEW p \in Packet, b.write + PacketSize(p) <= Limit
  PROVE  /\ Stored(b, p) \in [buffer : [Slot -> Nat],
                              read : 0 .. Limit, write : 0 .. Limit]
         /\ Stored(b, p).write = b.write + PacketSize(p)
         /\ Stored(b, p).read = IF Overflows(b, p) THEN b.write ELSE b.read
<1>1. /\ b.write + PacketSize(p) \in 0 .. Limit
      /\ b.write \in Int
  BY PacketType, LimitAssumption
<1>2. \A i \in Slot :
        LET k == (i - b.write) % LOOPBACK_SIZE
        IN  (IF k < PacketSize(p) THEN Cell(p, k) ELSE b.buffer[i]) \in Nat
  <2> TAKE i \in Slot
  <2> DEFINE k == (i - b.write) % LOOPBACK_SIZE
  <2>1. i - b.write \in Int
    BY <1>1, SizeAssumption DEF Slot
  <2>2. k \in 0 .. LOOPBACK_SIZE - 1
    BY <2>1, SizeAssumption, DivMod
  <2> HIDE DEF k
  <2>3. k < PacketSize(p) => Cell(p, k) \in Nat
    <3>1. k < PacketSize(p) => k \in 0 .. PacketSize(p) - 1
      BY <2>2, PacketType, SizeAssumption
    <3> QED BY <3>1, CellType
  <2>4. (IF k < PacketSize(p) THEN Cell(p, k) ELSE b.buffer[i]) \in Nat
    BY <2>3
  <2> QED BY <2>4 DEF k
<1>3. [i \in Slot |-> LET k == (i - b.write) % LOOPBACK_SIZE
                      IN  IF k < PacketSize(p) THEN Cell(p, k) ELSE b.buffer[i]]
        \in [Slot -> Nat]
  BY <1>2
<1> QED BY <1>1, <1>3 DEF Stored

Ring == [buffer : [Slot -> Nat], read : 0 .. Limit, write : 0 .. Limit]
Queued == [at : 0 .. Limit, data : Packet]

LEMMA QueuedType ==
  ASSUME NEW q \in Seq(Queued)
  PROVE  /\ Len(q) \in Nat
         /\ q = <<>> <=> Len(q) = 0
         /\ \A j \in 1 .. Len(q) :
              /\ q[j] \in Queued /\ q[j].at \in Nat /\ q[j].data \in Packet
              /\ PacketSize(q[j].data) \in Nat /\ PacketSize(q[j].data) > 0
              /\ PacketSize(q[j].data) >= HeaderSize
<1>1. \A j \in 1 .. Len(q) : q[j] \in Queued
  OBVIOUS
<1>2. \A j \in 1 .. Len(q) : q[j].at \in Nat /\ q[j].data \in Packet
  BY <1>1, LimitAssumption DEF Queued
<1> QED BY <1>1, <1>2, PacketType

(* A packet that fits is queued behind the others. *)
LEMMA AppendFits ==
  ASSUME NEW b \in Ring, NEW q \in Seq(Queued), NEW p \in Packet,
         ~BadLength(p), ~Overflows(b, p), b.write + PacketSize(p) <= Limit,
         Adjacent(b, q), Intact(b, q)
  PROVE  LET r == Append(q, [at |-> b.write, data |-> p])
         IN  Adjacent(Stored(b, p), r) /\ Intact(Stored(b, p), r)
<1> DEFINE rec == [at |-> b.write, data |-> p]
           r == Append(q, rec)
           n == Len(q)
           w == b.write + PacketSize(p)
<1>1. /\ PacketSize(p) \in Nat /\ PacketSize(p) > 0
      /\ b.write \in Nat /\ b.read \in Nat /\ LOOPBACK_SIZE \in Nat
      /\ rec \in Queued /\ rec.at = b.write /\ rec.data = p
  BY PacketType, SizeAssumption, LimitAssumption DEF Ring, Queued
<1>2. /\ Stored(b, p).write = w
      /\ Stored(b, p).read = b.read
  BY StoredType DEF Ring
<1>3. /\ n \in Nat /\ Len(r) = n + 1 /\ r[n + 1] = rec /\ r # <<>>
      /\ \A j \in 1 .. n : r[j] = q[j]
  BY <1>1
<1>4. w - b.read <= LOOPBACK_SIZE /\ w \in Nat /\ w > b.write
  BY <1>1 DEF Overflows
<1> HIDE DEF rec, r, w
<1>5. \A j \in 1 .. n : /\ q[j].at \in Nat /\ PacketSize(q[j].data) \in Nat
                        /\ PacketSize(q[j].data) > 0
  BY QueuedType
<1>6. Adjacent(Stored(b, p), r)
  <2>1. /\ w - b.read \in 0 .. LOOPBACK_SIZE
        /\ w # b.read
    BY <1>1, <1>4 DEF Adjacent
  <2>2. r[1].at = b.read
    <3>1. CASE n = 0
      BY <3>1, <1>1, <1>3, QueuedType DEF Adjacent
    <3>2. CASE n # 0
      BY <3>2, <1>3, QueuedType DEF Adjacent
    <3> QED BY <3>1, <3>2
  <2>3. \A j \in 1 .. n + 1 : /\ ~BadLength(r[j].data)
                              /\ r[j].at >= b.read
                              /\ r[j].at + PacketSize(r[j].data) <= w
    <3> TAKE j \in 1 .. n + 1
    <3>1. CASE j = n + 1
      BY <3>1, <1>1, <1>3 DEF Adjacent, w
    <3>2. CASE j \in 1 .. n
      <4>1. /\ ~BadLength(q[j].data) /\ q[j].at >= b.read
            /\ q[j].at + PacketSize(q[j].data) <= b.write
        BY <3>2 DEF Adjacent
      <4> QED BY <3>2, <4>1, <1>1, <1>3, <1>4, <1>5
    <3> QED BY <3>1, <3>2, <1>3
  <2>4. \A j \in 1 .. n : r[j + 1].at = r[j].at + PacketSize(r[j].data)
    <3> TAKE j \in 1 .. n
    <3>1. CASE j < n
      <4>1. q[j + 1].at = q[j].at + PacketSize(q[j].data)
        BY <3>1 DEF Adjacent
      <4>2. r[j] = q[j] /\ r[j + 1] = q[j + 1]
        BY <3>1, <1>3
      <4> QED BY <4>1, <4>2
    <3>2. CASE j = n
      <4>1. q[n].at + PacketSize(q[n].data) = b.write
        BY <3>2, <1>3, QueuedType DEF Adjacent
      <4> QED BY <3>2, <4>1, <1>1, <1>3
    <3> QED BY <3>1, <3>2, <1>3
  <2>5. \A j \in 1 .. n + 1 : \A i \in 1 .. j - 1 :
          r[i].at + PacketSize(r[i].data) <= r[j].at
    <3> TAKE j \in 1 .. n + 1
    <3> TAKE i \in 1 .. j - 1
    <3>1. i \in 1 .. n /\ r[i] = q[i]
      BY <1>3
    <3>2. CASE j \in 1 .. n
      <4>1. q[i].at + PacketSize(q[i].data) <= q[j].at
        BY <3>2 DEF Adjacent
      <4> QED BY <3>1, <3>2, <4>1, <1>3
    <3>3. CASE j = n + 1
      <4>1. q[i].at + PacketSize(q[i].data) <= b.write
        BY <3>1 DEF Adjacent
      <4> QED BY <3>1, <3>3, <4>1, <1>1, <1>3
    <3> QED BY <3>2, <3>3, <1>3
  <2>6. r[n + 1].at + PacketSize(r[n + 1].data) = w
    BY <1>1, <1>3 DEF w
  <2> QED BY <1>2, <1>3, <2>1, <2>2, <2>3, <2>4, <2>5, <2>6 DEF Adjacent
<1>7. Intact(Stored(b, p), r)
  <2> SUFFICES ASSUME NEW j \in 1 .. n + 1,
                      NEW k \in 0 .. PacketSize(r[j].data) - 1
               PROVE  Stored(b, p).buffer[(r[j].at + k) % LOOPBACK_SIZE]
                        = Cell(r[j].data, k)
    BY <1>3 DEF Intact
  <2>1. CASE j = n + 1
    <3>1. Stored(b, p).buffer[(b.write + k) % LOOPBACK_SIZE] = Cell(p, k)
      BY <2>1, <1>1, <1>3, StoredCells DEF Ring
    <3> QED BY <2>1, <3>1, <1>1, <1>3
  <2>2. CASE j \in 1 .. n
    <3> DEFINE c == q[j].at + k
    <3>1. r[j] = q[j] /\ k \in 0 .. PacketSize(q[j].data) - 1
      BY <2>2, <1>3
    <3>2. q[j].at >= b.read /\ q[j].at + PacketSize(q[j].data) <= b.write
      BY <2>2 DEF Adjacent
    <3>3. c \in Int /\ b.read <= c /\ c < b.write
      BY <2>2, <3>1, <3>2, <1>1, <1>5
    <3>4. b.buffer[c % LOOPBACK_SIZE] = Cell(q[j].data, k)
      BY <2>2, <3>1 DEF Intact
    <3> HIDE DEF c
    <3>5. Stored(b, p).buffer[c % LOOPBACK_SIZE] = b.buffer[c % LOOPBACK_SIZE]
      BY <3>3, StoredKeeps DEF Ring
    <3> QED BY <3>1, <3>4, <3>5 DEF c
  <2> QED BY <2>1, <2>2, <1>3
<1> QED BY <1>6, <1>7 DEF r, rec

(* A packet that does not fit is alone in the ring. *)
LEMMA AppendOverQueued ==
  ASSUME NEW b \in Ring, NEW p \in Packet,
         ~BadLength(p), Overflows(b, p), b.write + PacketSize(p) <= Limit
  PROVE  LET r == <<[at |-> b.write, data |-> p]>>
         IN  Adjacent(Stored(b, p), r) /\ Intact(Stored(b, p), r)
<1> DEFINE rec == [at |-> b.write, data |-> p]
           r == <<rec>>
<1>1. /\ PacketSize(p) \in Nat /\ PacketSize(p) > 0
      /\ PacketSize(p) <= LOOPBACK_SIZE /\ LOOPBACK_SIZE \in Nat
      /\ b.write \in Nat
  BY PacketType, SizeAssumption, LimitAssumption DEF Ring, BadLength
<1>2. /\ Stored(b, p).write = b.write + PacketSize(p)
      /\ Stored(b, p).read = b.write
  BY StoredType DEF Ring
<1>3. /\ Len(r) = 1 /\ r[1] = rec /\ r # <<>>
      /\ rec.at = b.write /\ rec.data = p
  OBVIOUS
<1>4. \A k \in 0 .. PacketSize(p) - 1 :
        Stored(b, p).buffer[(b.write + k) % LOOPBACK_SIZE] = Cell(p, k)
  BY StoredCells DEF Ring
<1> HIDE DEF r, rec
<1>5. Adjacent(Stored(b, p), r)
  BY <1>1, <1>2, <1>3 DEF Adjacent
<1>6. Intact(Stored(b, p), r)
  BY <1>3, <1>4 DEF Intact
<1> QED BY <1>5, <1>6 DEF r, rec

(* A send that is accepted preserves the invariant. *)
LEMMA SendStep ==
  ASSUME IInv, NEW s \in NETSOURCE, NEW p \in Packet, SendLoopPacket(s, p)
  PROVE  IInv'
<1> DEFINE b == loopbufs[s]
           q == queue[s]
           rec == [at |-> b.write, data |-> p]
           r == IF Overflows(b, p) THEN <<rec>> ELSE Append(q, rec)
<1>1. /\ loopbufs \in [NETSOURCE -> Ring] /\ queue \in [NETSOURCE -> Seq(Queued)]
      /\ inbox \in [NETSOURCE -> Seq(Nat)]
      /\ b \in Ring /\ q \in Seq(Queued)
      /\ Adjacent(b, q) /\ Intact(b, q)
  BY DEF IInv, TypeOK, RingHoldsQueue, Ring, Queued
<1>2. /\ ~BadLength(p)
      /\ b.write + PacketSize(p) <= Limit
      /\ loopbufs' = [loopbufs EXCEPT ![s] = Stored(b, p)]
      /\ queue' = [queue EXCEPT ![s] = r]
      /\ inbox' = inbox
  BY DEF SendLoopPacket
<1>3. rec \in Queued
  BY <1>1 DEF Ring, Queued
<1>4. r \in Seq(Queued)
  BY <1>1, <1>3
<1>5. Stored(b, p) \in Ring
  BY <1>1, <1>2, StoredType DEF Ring
<1>6. Adjacent(Stored(b, p), r) /\ Intact(Stored(b, p), r)
  <2>1. CASE Overflows(b, p)
    BY <2>1, <1>1, <1>2, AppendOverQueued
  <2>2. CASE ~Overflows(b, p)
    BY <2>2, <1>1, <1>2, AppendFits
  <2> QED BY <2>1, <2>2
<1> HIDE DEF r, b
<1>7. TypeOK'
  BY <1>1, <1>2, <1>4, <1>5 DEF TypeOK, Ring, Queued
<1>8. RingHoldsQueue'
  <2> SUFFICES ASSUME NEW t \in NETSOURCE
               PROVE  Adjacent(loopbufs'[t], queue'[t]) /\ Intact(loopbufs'[t], queue'[t])
    BY DEF RingHoldsQueue
  <2>1. CASE t = s
    BY <2>1, <1>1, <1>2, <1>6
  <2>2. CASE t # s
    <3>1. loopbufs'[t] = loopbufs[t] /\ queue'[t] = queue[t]
      BY <2>2, <1>1, <1>2
    <3> QED BY <3>1 DEF IInv, RingHoldsQueue
  <2> QED BY <2>1, <2>2
<1> QED BY <1>7, <1>8 DEF IInv

(* The reader finds the oldest queued packet at its read counter.          *)
LEMMA HeadFound ==
  ASSUME NEW b \in Ring, NEW q \in Seq(Queued), b.read # b.write,
         Adjacent(b, q), Intact(b, q)
  PROVE  /\ q # <<>> /\ Head(q) = q[1] /\ Len(q) >= 1
         /\ SizeAt(b) = Len(q[1].data)
         /\ PayloadAt(b) = q[1].data
         /\ b.read + HeaderSize + SizeAt(b) = q[1].at + PacketSize(q[1].data)
<1> DEFINE p == q[1].data
<1>1. /\ q # <<>> /\ Len(q) \in Nat /\ Len(q) >= 1 /\ 1 \in 1 .. Len(q)
      /\ q[1].at = b.read /\ p \in Packet /\ q[1].at \in Nat
  BY QueuedType DEF Adjacent
<1>2. Head(q) = q[1]
  BY <1>1
<1>3. /\ \A k \in 0 .. PacketSize(p) - 1 :
           b.buffer[(b.read + k) % LOOPBACK_SIZE] = Cell(p, k)
  BY <1>1 DEF Intact
<1>4. /\ Len(p) \in Nat /\ PacketSize(p) = Len(p) + HeaderSize
      /\ PacketSize(p) \in Nat /\ PacketSize(p) > 0
      /\ p \in Seq(Nat) /\ HeaderSize \in Nat /\ HeaderSize > 0
  BY <1>1, PacketType, SizeAssumption
<1> HIDE DEF p
<1>5. SizeAt(b) = Len(p)
  <2>1. b.buffer[(b.read + 0) % LOOPBACK_SIZE] = Cell(p, 0)
    BY <1>3, <1>4
  <2>2. b.read + 0 = b.read
    BY <1>1
  <2> QED BY <2>1, <2>2 DEF SizeAt, Cell
<1>6. PayloadAt(b) = p
  <2>1. \A k \in 1 .. Len(p) :
          b.buffer[(b.read + HeaderSize + k - 1) % LOOPBACK_SIZE] = p[k]
    <3> TAKE k \in 1 .. Len(p)
    <3> DEFINE h == HeaderSize + k - 1
    <3>0. b.read \in Nat /\ k \in Nat /\ k >= 1 /\ k <= Len(p)
      BY <1>1, <1>4
    <3>1. /\ h \in Nat /\ h >= HeaderSize
          /\ h - HeaderSize + 1 = k
          /\ h <= PacketSize(p) - 1
      BY <3>0, <1>4
    <3>1a. /\ h \in 0 .. PacketSize(p) - 1 /\ h # 0
           /\ b.read + HeaderSize + k - 1 = b.read + h
      BY <3>0, <3>1, <1>4
    <3> HIDE DEF h
    <3>2. b.buffer[(b.read + h) % LOOPBACK_SIZE] = Cell(p, h)
      BY <3>1a, <1>3
    <3>3. Cell(p, h) = p[k]
      BY <3>1, <3>1a, <1>4 DEF Cell
    <3> QED BY <3>1a, <3>2, <3>3
  <2>2. PayloadAt(b) = [k \in 1 .. Len(p) |-> p[k]]
    BY <1>5, <2>1 DEF PayloadAt
  <2>3. p = [k \in 1 .. Len(p) |-> p[k]]
    BY <1>4
  <2> QED BY <2>2, <2>3
<1> QED BY <1>1, <1>2, <1>4, <1>5, <1>6 DEF p

(* Without its oldest packet the queue still matches the ring. *)
LEMMA TailMatches ==
  ASSUME NEW b \in Ring, NEW q \in Seq(Queued), b.read # b.write,
         Adjacent(b, q), Intact(b, q),
         NEW c \in Ring,
         c.read = q[1].at + PacketSize(q[1].data),
         c.write = b.write, c.buffer = b.buffer
  PROVE  Adjacent(c, Tail(q)) /\ Intact(c, Tail(q))
<1> DEFINE n == Len(q)
           r == Tail(q)
           d == q[1].at + PacketSize(q[1].data)
<1>1. /\ c.read = d /\ c.write = b.write /\ c.buffer = b.buffer
      /\ b.read \in Nat /\ b.write \in Nat /\ LOOPBACK_SIZE \in Nat
  BY SizeAssumption, LimitAssumption DEF Ring
<1>2. n \in Nat /\ n >= 1 /\ q # <<>>
  BY HeadFound, QueuedType
<1>3. /\ r \in Seq(Queued) /\ Len(r) = n - 1
      /\ \A j \in 1 .. n - 1 : r[j] = q[j + 1]
  BY <1>2
<1>4. /\ \A j \in 1 .. n : /\ q[j].at \in Nat
                           /\ PacketSize(q[j].data) \in Nat
                           /\ PacketSize(q[j].data) > 0
  BY QueuedType
<1>5. /\ b.write - b.read \in 0 .. LOOPBACK_SIZE
      /\ q[1].at = b.read
      /\ q[n].at + PacketSize(q[n].data) = b.write
  BY <1>2 DEF Adjacent
<1>6. \A j \in 1 .. n :
       /\ ~BadLength(q[j].data)
       /\ q[j].at >= b.read
       /\ q[j].at + PacketSize(q[j].data) <= b.write
       /\ j < n => q[j + 1].at = q[j].at + PacketSize(q[j].data)
       /\ \A i \in 1 .. j - 1 : q[i].at + PacketSize(q[i].data) <= q[j].at
  BY DEF Adjacent
<1>7. d \in Nat /\ d <= b.write /\ d >= b.read
  BY <1>2, <1>4, <1>5, <1>6
<1> HIDE DEF d, r
<1>8. Adjacent(c, r)
  <2>1. c.write - c.read \in 0 .. LOOPBACK_SIZE
    BY <1>1, <1>5, <1>7
  <2>2. r = <<>> <=> n = 1
    BY <1>2, <1>3
  <2>3. CASE n = 1
    <3>1. d = b.write
      BY <2>3, <1>5 DEF d
    <3> QED BY <2>1, <2>2, <2>3, <3>1, <1>1, <1>3 DEF Adjacent
  <2>4. CASE n > 1
    <3>1. d # b.write
      <4>1. q[2].at = d
        BY <2>4, <1>2, <1>6 DEF d
      <4>2. q[2].at + PacketSize(q[2].data) <= b.write
        BY <2>4, <1>2, <1>6
      <4> QED BY <4>1, <4>2, <2>4, <1>1, <1>2, <1>4, <1>7
    <3>2. r[1].at = d
      BY <2>4, <1>2, <1>3, <1>6 DEF d
    <3>3. r[n - 1] = q[n]
      BY <2>4, <1>2, <1>3
    <3>4. \A j \in 1 .. n - 1 :
            /\ ~BadLength(r[j].data)
            /\ r[j].at >= d
            /\ r[j].at + PacketSize(r[j].data) <= b.write
            /\ j < n - 1 => r[j + 1].at = r[j].at + PacketSize(r[j].data)
            /\ \A i \in 1 .. j - 1 : r[i].at + PacketSize(r[i].data) <= r[j].at
      <4> TAKE j \in 1 .. n - 1
      <4>1. j + 1 \in 1 .. n /\ r[j] = q[j + 1]
        BY <1>2, <1>3
      <4>1a. j < n - 1 => /\ j + 1 < n
                          /\ r[j + 1] = q[(j + 1) + 1]
        BY <1>2, <1>3
      <4>2. /\ ~BadLength(q[j + 1].data)
            /\ q[j + 1].at + PacketSize(q[j + 1].data) <= b.write
            /\ j + 1 < n => q[(j + 1) + 1].at = q[j + 1].at + PacketSize(q[j + 1].data)
        BY <4>1, <1>6
      <4>3. q[1].at + PacketSize(q[1].data) <= q[j + 1].at
        <5>1. 1 \in 1 .. (j + 1) - 1
          BY <1>2
        <5> QED BY <4>1, <5>1, <1>6
      <4>4. \A i \in 1 .. j - 1 : r[i].at + PacketSize(r[i].data) <= r[j].at
        <5> TAKE i \in 1 .. j - 1
        <5>1. i \in 1 .. n - 1 /\ r[i] = q[i + 1] /\ i + 1 \in 1 .. (j + 1) - 1
          BY <1>2, <1>3
        <5>2. q[i + 1].at + PacketSize(q[i + 1].data) <= q[j + 1].at
          BY <4>1, <5>1, <1>6
        <5> QED BY <4>1, <5>1, <5>2
      <4> QED BY <4>1, <4>1a, <4>2, <4>3, <4>4 DEF d
    <3> QED BY <2>1, <2>2, <2>4, <3>1, <3>2, <3>3, <3>4, <1>1, <1>3, <1>5 DEF Adjacent
  <2>5. n = 1 \/ n > 1
    <3>1. \A m \in Nat : m >= 1 => m = 1 \/ m > 1
      OBVIOUS
    <3> HIDE DEF n
    <3> QED BY <1>2, <3>1
  <2> QED BY <2>3, <2>4, <2>5
<1>9. Intact(c, r)
  <2> SUFFICES ASSUME NEW j \in 1 .. n - 1,
                      NEW k \in 0 .. PacketSize(r[j].data) - 1
               PROVE  b.buffer[(r[j].at + k) % LOOPBACK_SIZE] = Cell(r[j].data, k)
    BY <1>1, <1>3 DEF Intact
  <2>1. j + 1 \in 1 .. n /\ r[j] = q[j + 1]
    BY <1>2, <1>3
  <2> QED BY <2>1 DEF Intact
<1> QED BY <1>8, <1>9 DEF r

(* A read preserves the invariant, and hands over the oldest packet. *)
LEMMA GetStep ==
  ASSUME IInv, NEW r \in NETSOURCE, GetLoopPacket(r)
  PROVE  /\ IInv'
         /\ queue[Peer(r)] # <<>>
         /\ inbox' = [inbox EXCEPT ![r] = Head(queue[Peer(r)]).data]
         /\ loopbufs'[Peer(r)].write - loopbufs'[Peer(r)].read
              = loopbufs[Peer(r)].write - loopbufs[Peer(r)].read
                - PacketSize(Head(queue[Peer(r)]).data)
<1> DEFINE s == Peer(r)
           b == loopbufs[s]
           q == queue[s]
           d == b.read + HeaderSize + SizeAt(b)
           c == [b EXCEPT !.read = d]
<1>0. s \in NETSOURCE
  BY DEF Peer, NETSOURCE
<1> HIDE DEF s
<1>1. /\ loopbufs \in [NETSOURCE -> Ring] /\ queue \in [NETSOURCE -> Seq(Queued)]
      /\ inbox \in [NETSOURCE -> Seq(Nat)]
      /\ b \in Ring /\ q \in Seq(Queued)
      /\ Adjacent(b, q) /\ Intact(b, q)
  BY <1>0 DEF IInv, TypeOK, RingHoldsQueue, Ring, Queued
<1>2. /\ b.read # b.write
      /\ inbox' = [inbox EXCEPT ![r] = PayloadAt(b)]
      /\ loopbufs' = [loopbufs EXCEPT ![s] = c]
      /\ queue' = [queue EXCEPT ![s] = Tail(q)]
  BY <1>1 DEF GetLoopPacket, s
<1>3. /\ q # <<>> /\ Head(q) = q[1] /\ Len(q) >= 1
      /\ PayloadAt(b) = q[1].data
      /\ d = q[1].at + PacketSize(q[1].data)
  BY <1>1, <1>2, HeadFound
<1>4. /\ q[1] \in Queued /\ q[1].data \in Packet /\ q[1].at = b.read
      /\ q[1].at + PacketSize(q[1].data) <= b.write
      /\ PacketSize(q[1].data) \in Nat /\ q[1].at \in Nat
      /\ b.write \in 0 .. Limit /\ b.read \in 0 .. Limit
  <2>1. Len(q) \in Nat /\ 1 \in 1 .. Len(q)
    BY <1>1, <1>3, QueuedType
  <2> HIDE DEF q, b
  <2> QED BY <1>1, <1>3, <2>1, QueuedType DEF Adjacent, Ring
<1>5. d \in 0 .. Limit
  BY <1>3, <1>4, LimitAssumption
<1> HIDE DEF d
<1>6. /\ c \in Ring /\ c.read = d /\ c.write = b.write /\ c.buffer = b.buffer
  BY <1>1, <1>5 DEF Ring
<1> HIDE DEF c
<1>7. Adjacent(c, Tail(q)) /\ Intact(c, Tail(q))
  BY <1>1, <1>2, <1>3, <1>6, TailMatches
<1>8. Tail(q) \in Seq(Queued)
  BY <1>1, <1>3
<1> HIDE DEF b, q
<1>9. TypeOK'
  <2>1. PayloadAt(b) \in Seq(Nat)
    BY <1>3, <1>4, PacketType
  <2>2. inbox' \in [NETSOURCE -> Seq(Nat)]
    BY <1>1, <1>2, <2>1
  <2>3. queue' \in [NETSOURCE -> Seq(Queued)]
    BY <1>1, <1>2, <1>8
  <2>4. loopbufs' \in [NETSOURCE -> Ring]
    BY <1>1, <1>2, <1>6
  <2> QED BY <2>2, <2>3, <2>4 DEF TypeOK, Ring, Queued
<1>10. RingHoldsQueue'
  <2> SUFFICES ASSUME NEW t \in NETSOURCE
               PROVE  Adjacent(loopbufs'[t], queue'[t]) /\ Intact(loopbufs'[t], queue'[t])
    BY DEF RingHoldsQueue
  <2>1. CASE t = s
    BY <2>1, <1>1, <1>2, <1>7
  <2>2. CASE t # s
    <3>1. loopbufs'[t] = loopbufs[t] /\ queue'[t] = queue[t]
      BY <2>2, <1>1, <1>2
    <3> QED BY <3>1 DEF IInv, RingHoldsQueue
  <2> QED BY <2>1, <2>2
<1>11. loopbufs'[s].write - loopbufs'[s].read
         = b.write - b.read - PacketSize(q[1].data)
  <2>1. loopbufs'[s] = c
    BY <1>0, <1>1, <1>2
  <2>2. b.write - d = b.write - b.read - PacketSize(q[1].data)
    BY <1>3, <1>4
  <2> QED BY <2>1, <2>2, <1>6
<1> QED BY <1>2, <1>3, <1>9, <1>10, <1>11 DEF IInv, s, b, q

-----------------------------------------------------------------------------
(* The invariant holds at the start, and each action keeps it. *)
LEMMA InitIInv == Init => IInv
<1> SUFFICES ASSUME Init PROVE IInv
  OBVIOUS
<1>1. 0 \in 0 .. Limit /\ 0 \in 0 .. LOOPBACK_SIZE
  BY LimitAssumption, SizeAssumption
<1>2. TypeOK
  BY <1>1 DEF Init, TypeOK
<1>3. \A s \in NETSOURCE : /\ queue[s] = <<>>
                           /\ loopbufs[s].read = 0 /\ loopbufs[s].write = 0
  BY DEF Init
<1>4. RingHoldsQueue
  BY <1>1, <1>3 DEF RingHoldsQueue, Adjacent, Intact
<1> QED BY <1>2, <1>4 DEF IInv

LEMMA NextIInv == IInv /\ [Next]_vars => IInv'
<1> SUFFICES ASSUME IInv, [Next]_vars PROVE IInv'
  OBVIOUS
<1>1. ASSUME NEW s \in NETSOURCE, NEW p \in Packet, SendLoopPacket(s, p)
      PROVE  IInv'
  BY <1>1, SendStep
<1>2. ASSUME NEW s \in NETSOURCE, NEW p \in Packet, RefuseLoopPacket(s, p)
      PROVE  IInv'
  BY <1>2 DEF RefuseLoopPacket, vars, IInv, TypeOK, RingHoldsQueue
<1>3. ASSUME NEW s \in NETSOURCE, GetLoopPacket(s)
      PROVE  IInv'
  BY <1>3, GetStep
<1>4. CASE UNCHANGED vars
  BY <1>4 DEF vars, IInv, TypeOK, RingHoldsQueue
<1> QED BY <1>1, <1>2, <1>3, <1>4 DEF Next

(* The counters, rings and message buffers of common/net.c keep their      *)
(* types, whatever the ring size and the packets.                          *)
THEOREM TypeCorrect == Spec => []TypeOK
<1>1. IInv => TypeOK
  BY DEF IInv
<1> QED BY InitIInv, NextIInv, <1>1, PTL DEF Spec

(* Whatever is sent, in whatever order the two ends run, each ring holds   *)
(* exactly the packets that were sent and neither read nor dropped: no     *)
(* NET_SendLoopPacket overwrites a packet its reader has still to read.    *)
THEOREM RingCorrect == Spec => []RingHoldsQueue
<1>1. IInv => RingHoldsQueue
  BY DEF IInv
<1> QED BY InitIInv, NextIInv, <1>1, PTL DEF Spec

-----------------------------------------------------------------------------
(* The refinement of PacketQueue.                                          *)

(* The packets of a queue, without their places. *)
LEMMA DataAppend ==
  ASSUME NEW q \in Seq(Queued), NEW e \in Queued
  PROVE  /\ Data(Append(q, e)) = Append(Data(q), e.data)
         /\ Data(<<e>>) = <<e.data>>
<1> DEFINE n == Len(q)
<1>1. n \in Nat /\ Len(Append(q, e)) = n + 1
      /\ Append(q, e)[n + 1] = e
      /\ \A j \in 1 .. n : Append(q, e)[j] = q[j]
  OBVIOUS
<1>2. /\ Data(q) \in Seq(Packet) /\ Len(Data(q)) = n /\ e.data \in Packet
      /\ \A j \in 1 .. n : Data(q)[j] = q[j].data
  <2>1. \A j \in 1 .. n : q[j].data \in Packet
    BY QueuedType
  <2>2. e.data \in Packet
    BY DEF Queued
  <2> QED BY <1>1, <2>1, <2>2 DEF Data
<1>3. Data(Append(q, e)) = Append(Data(q), e.data)
  <2>1. Data(Append(q, e)) = [j \in 1 .. n + 1 |-> Append(q, e)[j].data]
    BY <1>1 DEF Data
  <2>2. /\ Append(Data(q), e.data) \in Seq(Packet)
        /\ Len(Append(Data(q), e.data)) = n + 1
        /\ Append(Data(q), e.data)[n + 1] = e.data
        /\ \A j \in 1 .. n : Append(Data(q), e.data)[j] = Data(q)[j]
    BY <1>1, <1>2
  <2>3. Append(Data(q), e.data) = [j \in 1 .. n + 1 |-> Append(Data(q), e.data)[j]]
    BY <2>2
  <2>4. \A j \in 1 .. n + 1 : Append(q, e)[j].data = Append(Data(q), e.data)[j]
    <3> TAKE j \in 1 .. n + 1
    <3>1. j \in 1 .. n \/ j = n + 1
      BY <1>1
    <3> QED BY <3>1, <1>1, <1>2, <2>2
  <2> QED BY <2>1, <2>3, <2>4
<1>4. Data(<<e>>) = <<e.data>>
  <2>1. Len(<<e>>) = 1 /\ <<e>>[1] = e
    OBVIOUS
  <2>2. Data(<<e>>) = [j \in 1 .. 1 |-> <<e>>[j].data]
    BY <2>1 DEF Data
  <2>3. \A j \in 1 .. 1 : <<e>>[j].data = e.data
    BY <2>1
  <2>4. <<e.data>> = [j \in 1 .. 1 |-> e.data]
    OBVIOUS
  <2> QED BY <2>2, <2>3, <2>4
<1> QED BY <1>3, <1>4

LEMMA DataTail ==
  ASSUME NEW q \in Seq(Queued), q # <<>>
  PROVE  /\ Data(q) # <<>> /\ Head(Data(q)) = Head(q).data
         /\ Data(Tail(q)) = Tail(Data(q))
<1> DEFINE n == Len(q)
<1>1. /\ n \in Nat /\ n >= 1 /\ Head(q) = q[1]
      /\ Tail(q) \in Seq(Queued) /\ Len(Tail(q)) = n - 1
      /\ \A j \in 1 .. n - 1 : Tail(q)[j] = q[j + 1]
  BY QueuedType
<1>2. /\ Data(q) \in Seq(Packet) /\ Len(Data(q)) = n
      /\ \A j \in 1 .. n : Data(q)[j] = q[j].data
  <2>1. \A j \in 1 .. n : q[j].data \in Packet
    BY QueuedType
  <2> QED BY <1>1, <2>1 DEF Data
<1>3. Data(q) # <<>> /\ Head(Data(q)) = q[1].data
  BY <1>1, <1>2
<1>4. Data(Tail(q)) = [j \in 1 .. n - 1 |-> Tail(q)[j].data]
  BY <1>1 DEF Data
<1>5. /\ Tail(Data(q)) \in Seq(Packet) /\ Len(Tail(Data(q))) = n - 1
      /\ \A j \in 1 .. n - 1 : Tail(Data(q))[j] = Data(q)[j + 1]
  BY <1>1, <1>2, <1>3
<1>6. Tail(Data(q)) = [j \in 1 .. n - 1 |-> Tail(Data(q))[j]]
  <2>1. \A z \in Seq(Packet) : z = [j \in 1 .. Len(z) |-> z[j]]
    OBVIOUS
  <2> QED BY <1>5, <2>1
<1>7. \A j \in 1 .. n - 1 : Tail(q)[j].data = Tail(Data(q))[j]
  BY <1>1, <1>2, <1>5
<1> QED BY <1>1, <1>3, <1>4, <1>6, <1>7

(* The abstract queues and byte counts, and that every send and every read *)
(* is a step of PacketQueue on them.                                       *)
qbar == [s \in NETSOURCE |-> Data(queue[s])]
bbar == [s \in NETSOURCE |-> loopbufs[s].write - loopbufs[s].read]

LEMMA SendRefines ==
  ASSUME IInv, IInv', NEW s \in NETSOURCE, NEW p \in Packet, SendLoopPacket(s, p)
  PROVE  PQ!Next
<1> DEFINE b == loopbufs[s]
           q == queue[s]
           rec == [at |-> b.write, data |-> p]
<1>1. /\ loopbufs \in [NETSOURCE -> Ring] /\ queue \in [NETSOURCE -> Seq(Queued)]
      /\ b \in Ring /\ q \in Seq(Queued)
  BY DEF IInv, TypeOK, Ring, Queued
<1>2. /\ ~BadLength(p)
      /\ b.write + PacketSize(p) <= Limit
      /\ loopbufs' = [loopbufs EXCEPT ![s] = Stored(b, p)]
      /\ queue' = [queue EXCEPT ![s] = IF Overflows(b, p) THEN <<rec>>
                                                          ELSE Append(q, rec)]
      /\ inbox' = inbox
  BY DEF SendLoopPacket
<1>3. /\ b.write \in Nat /\ b.read \in Nat /\ LOOPBACK_SIZE \in Nat
      /\ PacketSize(p) \in Nat /\ PacketSize(p) <= LOOPBACK_SIZE
      /\ PacketSize(p) = Len(p) + HeaderSize
      /\ p \in {x \in Packet : Len(x) > 0}
      /\ rec \in Queued /\ rec.data = p
  BY <1>1, <1>2, PacketType, SizeAssumption, LimitAssumption
     DEF Ring, Queued, BadLength
<1>4. /\ Stored(b, p).write = b.write + PacketSize(p)
      /\ Stored(b, p).read = IF Overflows(b, p) THEN b.write ELSE b.read
  BY <1>1, <1>2, StoredType DEF Ring
<1> HIDE DEF b, q, rec
<1>5. /\ qbar[s] = Data(q) /\ bbar[s] = b.write - b.read
      /\ DOMAIN qbar = NETSOURCE /\ DOMAIN bbar = NETSOURCE
  BY DEF qbar, bbar, q, b
<1>6. \A t \in NETSOURCE : queue'[t] = IF t = s THEN queue'[s] ELSE queue[t]
  BY <1>1, <1>2
<1>7. \A t \in NETSOURCE : loopbufs'[t] = IF t = s THEN Stored(b, p) ELSE loopbufs[t]
  BY <1>1, <1>2
<1>8. CASE ~Overflows(b, p)
  <2>1. queue'[s] = Append(q, rec)
    BY <1>1, <1>2, <1>8
  <2>2. qbar' = [qbar EXCEPT ![s] = Append(Data(q), p)]
    BY <1>1, <1>3, <1>5, <1>6, <2>1, DataAppend DEF qbar
  <2>3. bbar' = [bbar EXCEPT ![s] = b.write - b.read + PacketSize(p)]
    <3>1. b.write + PacketSize(p) - b.read = b.write - b.read + PacketSize(p)
      BY <1>3
    <3>2. loopbufs'[s].write - loopbufs'[s].read = b.write - b.read + PacketSize(p)
      <4>1. loopbufs'[s] = Stored(b, p)
        BY <1>1, <1>2
      <4>2. Stored(b, p).read = b.read
        BY <1>4, <1>8
      <4>3. Stored(b, p).write = b.write + PacketSize(p)
        BY <1>4
      <4> QED BY <3>1, <4>1, <4>2, <4>3, <1>3
    <3> QED BY <3>2, <1>5, <1>7 DEF bbar
  <2>4. b.write - b.read + PacketSize(p) <= LOOPBACK_SIZE
    BY <1>3, <1>8 DEF Overflows
  <2>5. PQ!Post(s, p)
    BY <1>2, <1>3, <1>5, <2>2, <2>3, <2>4 DEF PQ!Post, PQ!Cost, qbar, bbar
  <2> QED BY <1>3, <2>5 DEF PQ!Next, PQ!NETSOURCE, NETSOURCE
<1>9. CASE Overflows(b, p)
  <2>1. queue'[s] = <<rec>>
    BY <1>1, <1>2, <1>9
  <2>2. qbar' = [qbar EXCEPT ![s] = <<p>>]
    BY <1>1, <1>3, <1>5, <1>6, <2>1, DataAppend DEF qbar
  <2>3. bbar' = [bbar EXCEPT ![s] = PacketSize(p)]
    <3>1. b.write + PacketSize(p) - b.write = PacketSize(p)
      BY <1>3
    <3>2. loopbufs'[s].write - loopbufs'[s].read = PacketSize(p)
      <4>1. loopbufs'[s] = Stored(b, p)
        BY <1>1, <1>2
      <4>2. Stored(b, p).read = b.write
        BY <1>4, <1>9
      <4>3. Stored(b, p).write = b.write + PacketSize(p)
        BY <1>4
      <4> QED BY <3>1, <4>1, <4>2, <4>3, <1>3
    <3> QED BY <3>2, <1>5, <1>7 DEF bbar
  <2>4. b.write - b.read + PacketSize(p) > LOOPBACK_SIZE
    BY <1>3, <1>9 DEF Overflows
  <2>5. PQ!PostOverQueued(s, p)
    BY <1>2, <1>3, <1>5, <2>2, <2>3, <2>4 DEF PQ!PostOverQueued, PQ!Cost, qbar, bbar
  <2> QED BY <1>3, <2>5 DEF PQ!Next, PQ!NETSOURCE, NETSOURCE
<1> QED BY <1>8, <1>9

LEMMA GetRefines ==
  ASSUME IInv, NEW r \in NETSOURCE, GetLoopPacket(r)
  PROVE  PQ!Next
<1> DEFINE s == Peer(r)
           q == queue[s]
           p == Head(q).data
<1>0. s \in NETSOURCE /\ s = PQ!Peer(r)
  BY DEF Peer, NETSOURCE, PQ!Peer
<1>1. /\ loopbufs \in [NETSOURCE -> Ring] /\ queue \in [NETSOURCE -> Seq(Queued)]
      /\ q \in Seq(Queued)
  BY <1>0 DEF IInv, TypeOK, Ring, Queued
<1>2. /\ queue' = [queue EXCEPT ![s] = Tail(q)]
      /\ \A t \in NETSOURCE \ {s} : loopbufs'[t] = loopbufs[t]
  BY <1>1 DEF GetLoopPacket
<1>3. /\ q # <<>>
      /\ inbox' = [inbox EXCEPT ![r] = p]
      /\ loopbufs'[s].write - loopbufs'[s].read
           = loopbufs[s].write - loopbufs[s].read - PacketSize(p)
  BY GetStep
<1>4. /\ Data(q) # <<>> /\ Head(Data(q)) = p
      /\ Data(Tail(q)) = Tail(Data(q))
  BY <1>1, <1>3, DataTail
<1>5. qbar[s] = Data(q) /\ bbar[s] = loopbufs[s].write - loopbufs[s].read
  BY <1>0 DEF qbar, bbar
<1> HIDE DEF s, p
<1>6. qbar' = [qbar EXCEPT ![s] = Tail(qbar[s])]
  BY <1>0, <1>1, <1>2, <1>4, <1>5 DEF qbar
<1>7. bbar' = [bbar EXCEPT ![s] = bbar[s] - PacketSize(p)]
  BY <1>0, <1>2, <1>3, <1>5 DEF bbar
<1>8. PQ!Take(r)
  BY <1>0, <1>3, <1>4, <1>5, <1>6, <1>7 DEF PQ!Take, PQ!Cost, PacketSize, qbar, bbar
<1> QED BY <1>8 DEF PQ!Next, PQ!NETSOURCE, NETSOURCE

(* The byte rings implement the FIFO queues of whole packets: on the       *)
(* loopback path NET_GetPacket never yields a torn, reordered or           *)
(* duplicated packet, and loses packets only when a send does not fit.     *)
THEOREM Refinement == Spec => ImplementsPacketQueue
<1>1. Init => PQ!Init
  <2> SUFFICES ASSUME Init PROVE PQ!Init
    OBVIOUS
  <2>1. \A s \in NETSOURCE : /\ queue[s] = <<>>
                             /\ loopbufs[s].read = 0 /\ loopbufs[s].write = 0
    BY DEF Init
  <2>2. Data(<<>>) = <<>>
    BY DEF Data
  <2> QED BY <2>1, <2>2 DEF Init, PQ!Init, PQ!NETSOURCE, NETSOURCE
<1>2. IInv /\ IInv' /\ [Next]_vars => [PQ!Next]_(PQ!vars)
  <2> SUFFICES ASSUME IInv, IInv', [Next]_vars
               PROVE  PQ!Next \/ UNCHANGED PQ!vars
    OBVIOUS
  <2>1. ASSUME NEW s \in NETSOURCE, NEW p \in Packet, SendLoopPacket(s, p)
        PROVE  PQ!Next
    BY <2>1, SendRefines
  <2>2. ASSUME NEW s \in NETSOURCE, GetLoopPacket(s)
        PROVE  PQ!Next
    BY <2>2, GetRefines
  <2>3. CASE UNCHANGED vars
    BY <2>3 DEF vars, PQ!vars
  <2> QED BY <2>1, <2>2, <2>3 DEF Next, RefuseLoopPacket
<1> QED BY InitIInv, NextIInv, <1>1, <1>2, PTL DEF Spec, PQ!Spec, ImplementsPacketQueue

-----------------------------------------------------------------------------
(* Loops: f[0] is where one starts and f[j] where its step j leads.        *)

(* The induction of this module: a set of numbers has a least one. *)
LEMMA HasLeast ==
  ASSUME NEW S \in SUBSET Nat, S # {}
  PROVE  \E x \in S : \A y \in S : x <= y
<1>1. PICK x \in S : \A y \in S : <<y, x>> \notin OpToRel(<, Nat)
  BY WFMin, NatLessThanWellFounded, Zenon
<1>2. \A y \in S : ~(y < x)
  BY <1>1, Zenon DEF OpToRel
<1> QED BY <1>2

(* What holds of 0, and of j when it holds of j - 1, holds up to n. *)
LEMMA Steps ==
  ASSUME NEW n \in Nat, NEW G, 0 \in G,
         \A j \in 1 .. n : j - 1 \in G => j \in G
  PROVE  0 .. n \subseteq G
<1> DEFINE B == {j \in 0 .. n : j \notin G}
<1>1. SUFFICES B = {}
  OBVIOUS
<1>2. SUFFICES ASSUME B # {} PROVE FALSE
  OBVIOUS
<1>3. B \in SUBSET Nat
  OBVIOUS
<1> HIDE DEF B
<1>4. PICK m \in B : \A y \in B : m <= y
  BY <1>2, <1>3, HasLeast
<1>5. m \in 1 .. n /\ m - 1 \in 0 .. n /\ m \notin G
  BY <1>4 DEF B
<1>6. m - 1 \notin B
  BY <1>4, <1>5
<1>7. m - 1 \in G
  BY <1>5, <1>6 DEF B
<1> QED BY <1>5, <1>7

Runs(f, n, step) == \A j \in 1 .. n : f[j] = step[j][f[j - 1]]

(* The function exists that goes from each number to the next by step. *)
LEMMA Iterates ==
  ASSUME NEW n \in Nat, NEW S, NEW start \in S,
         NEW step \in [1 .. n -> [S -> S]]
  PROVE  \E f \in [0 .. n -> S] : f[0] = start /\ Runs(f, n, step)
<1> DEFINE Good(m) == \E f \in [0 .. m -> S] : f[0] = start /\ Runs(f, m, step)
           G == {m \in 0 .. n : Good(m)}
<1>1. 0 \in G
  <2>1. /\ [j \in 0 .. 0 |-> start] \in [0 .. 0 -> S]
        /\ [j \in 0 .. 0 |-> start][0] = start
    OBVIOUS
  <2>2. Good(0)
    <3>1. Runs([j \in 0 .. 0 |-> start], 0, step)
      BY DEF Runs
    <3> QED BY <2>1, <3>1
  <2> QED BY <2>2
<1>2. ASSUME NEW m \in 1 .. n, m - 1 \in G
      PROVE  m \in G
  <2>1. PICK f \in [0 .. m - 1 -> S] : f[0] = start /\ Runs(f, m - 1, step)
    BY <1>2
  <2> DEFINE v == step[m][f[m - 1]]
             g == [j \in 0 .. m |-> IF j = m THEN v ELSE f[j]]
  <2>2. m - 1 \in 0 .. m - 1 /\ f[m - 1] \in S
    OBVIOUS
  <2>3. v \in S
    BY <2>2
  <2> HIDE DEF v
  <2>4. g \in [0 .. m -> S] /\ g[0] = start /\ g[m] = v
    BY <2>1, <2>3
  <2>5. ASSUME NEW j \in 1 .. m
        PROVE  g[j] = step[j][g[j - 1]]
    <3>1. j - 1 \in 0 .. m /\ j - 1 # m /\ g[j - 1] = f[j - 1]
      OBVIOUS
    <3>2. CASE j = m
      BY <2>4, <3>1, <3>2 DEF v
    <3>3. CASE j # m
      <4>1. j \in 1 .. m - 1 /\ j \in 0 .. m
        BY <3>3
      <4>2. g[j] = f[j]
        BY <3>3, <4>1
      <4> QED BY <2>1, <3>1, <4>1, <4>2 DEF Runs
    <3> QED BY <3>2, <3>3
  <2> HIDE DEF g
  <2>6. Runs(g, m, step)
    BY <2>5 DEF Runs
  <2>7. Good(m)
    BY <2>4, <2>6
  <2> QED BY <2>7
<1> HIDE DEF G
<1>3. 0 .. n \subseteq G
  BY <1>1, <1>2, Steps
<1>4. n \in G
  BY <1>3
<1> QED BY <1>4 DEF G

-----------------------------------------------------------------------------
(* The counters of the ring of entity states.                              *)

(* A sum may be reduced before it is made, or not. *)
LEMMA ModSum ==
  ASSUME NEW x \in Int, NEW y \in Int, NEW n \in Nat \ {0}
  PROVE  ((x % n) + y) % n = (x + y) % n
<1> DEFINE q == x \div n
           p == (x + y) \div n
           r == (x + y) % n
<1>1. q \in Int /\ x % n \in 0 .. n - 1 /\ x = n * q + (x % n)
  BY DivMod
<1>2. p \in Int /\ r \in 0 .. n - 1 /\ x + y = n * p + r
  BY DivMod
<1>3. p - q \in Int /\ n * (p - q) = n * p - n * q
  BY <1>1, <1>2, SMT
<1>4. (x % n) + y = n * (p - q) + r
  BY <1>1, <1>2, <1>3
<1> DEFINE u == p - q
           z == (x % n) + y
<1>5. u \in Int /\ z \in Int /\ z = n * u + r /\ r \in 0 .. n - 1
  BY <1>1, <1>2, <1>3, <1>4
<1> HIDE DEF u, z, r
<1>6. z % n = r
  BY <1>5, ModIs
<1> QED BY <1>6 DEF z, r

(* Numbers less than n apart have different remainders. *)
LEMMA ModApart ==
  ASSUME NEW x \in Int, NEW y \in Int, NEW n \in Nat \ {0},
         x < y, y < x + n
  PROVE  x % n # y % n
<1>1. SUFFICES ASSUME x % n = y % n PROVE FALSE
  OBVIOUS
<1> DEFINE a == x \div n
           b == y \div n
<1>2. a \in Int /\ b \in Int /\ x % n \in Int
      /\ x = n * a + (x % n) /\ y = n * b + (x % n)
  BY <1>1, DivMod
<1>3. b - a \in Int /\ y - x = n * (b - a)
  <2>1. n * b - n * a = n * (b - a)
    BY <1>2, SMT
  <2> QED BY <1>2, <2>1
<1> DEFINE c == b - a
<1>4. c \in Int /\ n * c > 0 /\ n * c < n
  BY <1>3
<1> HIDE DEF c
<1>5. \A d \in Int : (d >= 1 => n * d >= n) /\ (d <= 0 => n * d <= 0)
  BY SMT
<1> QED BY <1>4, <1>5

(* A counter that starts again at a multiple of n loses nothing modulo n. *)
LEMMA ModOfMultiple ==
  ASSUME NEW x \in Int, NEW n \in Nat \ {0}, NEW d \in Nat \ {0}, d % n = 0
  PROVE  (x % d) % n = x % n
<1> DEFINE q == x \div d
           p == d \div n
           a == (x % d) \div n
           r == (x % d) % n
<1>1. q \in Int /\ x % d \in Int /\ x = d * q + (x % d)
  BY DivMod
<1>2. p \in Int /\ d = n * p
  BY DivMod
<1>3. a \in Int /\ r \in 0 .. n - 1 /\ x % d = n * a + r
  BY <1>1, DivMod
<1>4. d * q = n * (p * q) /\ p * q \in Int
  BY <1>1, <1>2, SMT
<1>5. n * (p * q) + n * a = n * (p * q + a) /\ p * q + a \in Int
  <2> DEFINE m == p * q
  <2>1. m \in Int
    BY <1>4
  <2> HIDE DEF m, a
  <2>2. n * m + n * a = n * (m + a) /\ m + a \in Int
    BY <1>3, <2>1, SMT
  <2> QED BY <2>2 DEF m
<1> DEFINE u == p * q + a
<1>6. u \in Int /\ x = n * u + r
  <2> DEFINE m == p * q
  <2>1. m \in Int /\ d * q = n * m /\ n * m + n * a = n * (m + a) /\ u = m + a
    BY <1>4, <1>5
  <2> HIDE DEF m, u, a, r, q
  <2>2. n * u = d * q + n * a
    BY <2>1
  <2>3. n * a \in Int /\ d * q \in Int
    BY <1>1, <1>3
  <2> QED BY <1>1, <1>3, <2>1, <2>2, <2>3
<1> HIDE DEF u, r
<1>7. x % n = r
  BY <1>3, <1>6, ModIs
<1> QED BY <1>7 DEF r

N == num_client_entities
Full == MAX_PACKET_ENTITIES

(* There is room for a full frame of each client, and for one more. *)
LEMMA RingSizes ==
  /\ N \in Nat \ {0} /\ Full \in Nat \ {0} /\ NumClients \in Nat \ {0}
  /\ DWORD \in Nat \ {0} /\ DWORD % N = 0
  /\ Full * (NumClients + 1) <= N
<1>1. /\ UPDATE_BACKUP \in Nat /\ UPDATE_BACKUP >= 2 /\ Full \in Nat /\ Full >= 1
      /\ max_clients \in Nat /\ NumClients \in Nat
      /\ NumClients >= 1 /\ NumClients <= max_clients
      /\ N = UPDATE_BACKUP * max_clients * Full
      /\ DWORD \in Nat \ {0} /\ DWORD % N = 0
  BY RingAssumption DEF N, Full, num_client_entities
<1> HIDE DEF N, Full
<1> DEFINE p == UPDATE_BACKUP * max_clients
<1>2. p \in Nat /\ p >= 2 * max_clients
  BY <1>1, SMT
<1>3. N = p * Full
  BY <1>1
<1> HIDE DEF p
<1>4. NumClients + 1 <= p /\ p >= 2
  BY <1>1, <1>2
<1>5. \A a \in Nat, b \in Nat : a <= b => Full * a <= b * Full
  BY <1>1, SMT
<1>6. Full * (NumClients + 1) <= p * Full
  BY <1>1, <1>2, <1>4, <1>5
<1>7. p * Full \in Nat /\ p * Full >= 2
  BY <1>1, <1>2, <1>4, SMT
<1> QED BY <1>1, <1>3, <1>6, <1>7

(* The cell of a counter, whether or not the counter started again. *)
LEMMA IndexIs ==
  ASSUME NEW x \in Int
  PROVE  Index(x) = x % N /\ Index(x) \in 0 .. N - 1
<1>1. Index(x) = (x % DWORD) % N
  BY DEF Index, N
<1> DEFINE n == N
<1>2. n \in Nat \ {0} /\ DWORD \in Nat \ {0} /\ DWORD % n = 0
  BY RingSizes
<1> HIDE DEF n
<1>3. (x % DWORD) % n = x % n /\ x % n \in 0 .. n - 1
  BY <1>2, ModOfMultiple, DivMod
<1> QED BY <1>1, <1>3 DEF n

LEMMA IndexWrapped ==
  ASSUME NEW x \in Int, NEW y \in Int
  PROVE  Index((x % DWORD) + y) = Index(x + y)
BY RingSizes, ModSum DEF Index

(* Counters less than a lap apart have different cells. *)
LEMMA IndexApart ==
  ASSUME NEW x \in Int, NEW y \in Int, x < y, y < x + N
  PROVE  Index(x) # Index(y)
BY RingSizes, IndexIs, ModApart

-----------------------------------------------------------------------------
(* The numbers of a set in their order.                                    *)
Upto(S, n) == {m \in S : m <= n}

(* How many of a set are up to one of its members: its place in the order. *)
LEMMA Ranks ==
  ASSUME NEW S \in SUBSET Num
  PROVE  /\ IsFiniteSet(S) /\ Cardinality(S) \in Nat
         /\ \A n \in S : Cardinality(Upto(S, n)) \in 1 .. Cardinality(S)
         /\ \A m \in S, n \in S :
              m < n => Cardinality(Upto(S, m)) < Cardinality(Upto(S, n))
<1>1. IsFiniteSet(S) /\ S \in SUBSET Nat
  <2>1. MaxNum \in Nat
    BY RingAssumption
  <2>2. IsFiniteSet(1 .. MaxNum)
    BY <2>1, FS_Interval
  <2>3. S \in SUBSET (1 .. MaxNum)
    BY DEF Num
  <2>4. IsFiniteSet(S)
    BY <2>2, <2>3, FS_Subset
  <2> QED BY <2>1, <2>3, <2>4
<1>2. Cardinality(S) \in Nat
  BY <1>1, FS_CardinalityType
<1>3. ASSUME NEW n \in S
      PROVE  Cardinality(Upto(S, n)) \in 1 .. Cardinality(S)
  <2>1. Upto(S, n) \in SUBSET S /\ n \in Upto(S, n)
    BY <1>1 DEF Upto
  <2>2. IsFiniteSet(Upto(S, n)) /\ Cardinality(Upto(S, n)) <= Cardinality(S)
    BY <1>1, <2>1, FS_Subset
  <2>3. Cardinality(Upto(S, n)) \in Nat /\ Cardinality(Upto(S, n)) # 0
    BY <2>1, <2>2, FS_CardinalityType, FS_EmptySet
  <2> QED BY <1>2, <2>2, <2>3
<1>4. ASSUME NEW m \in S, NEW n \in S, m < n
      PROVE  Cardinality(Upto(S, m)) < Cardinality(Upto(S, n))
  <2>1. /\ Upto(S, m) \in SUBSET Upto(S, n)
        /\ n \in Upto(S, n) /\ n \notin Upto(S, m)
    <3>1. \A x \in S : x \in Nat
      BY <1>1
    <3>2. m \in Nat /\ n \in Nat
      BY <3>1
    <3>3. \A x \in S : x <= m => x <= n
      BY <1>4, <3>1, <3>2
    <3>4. n <= n /\ ~(n <= m)
      BY <1>4, <3>2
    <3>5. n \in Upto(S, n) /\ n \notin Upto(S, m)
      BY <3>4 DEF Upto
    <3>6. Upto(S, m) \in SUBSET Upto(S, n)
      BY <3>3 DEF Upto
    <3> QED BY <3>5, <3>6
  <2>2. IsFiniteSet(Upto(S, n))
    <3>1. Upto(S, n) \in SUBSET S
      BY DEF Upto
    <3> QED BY <1>1, <3>1, FS_Subset
  <2>3. /\ Cardinality(Upto(S, m)) <= Cardinality(Upto(S, n))
        /\ Cardinality(Upto(S, m)) # Cardinality(Upto(S, n))
    BY <2>1, <2>2, FS_Subset
  <2> QED BY <1>3, <2>3
<1> QED BY <1>1, <1>2, <1>3, <1>4

(* The sorted numbers: each once, ascending. *)
LEMMA InOrderIs ==
  ASSUME NEW S \in SUBSET Num
  PROVE  LET s == InOrder(S)
         IN  /\ Cardinality(S) \in Nat
             /\ s \in [1 .. Cardinality(S) -> S] /\ s \in Seq(Num)
             /\ Len(s) = Cardinality(S)
             /\ \A k \in DOMAIN s : \A j \in 1 .. k - 1 : s[j] < s[k]
             /\ \A n \in S : \E k \in DOMAIN s : s[k] = n
<1> DEFINE card == Cardinality(S)
           rank == [n \in S |-> Cardinality(Upto(S, n))]
           s == InOrder(S)
<1>1. /\ IsFiniteSet(S) /\ card \in Nat /\ rank \in [S -> 1 .. card]
      /\ \A m \in S, n \in S : m < n => rank[m] < rank[n]
  BY Ranks
<1>2. \A n \in S : n \in Nat
  BY DEF Num
<1>3. rank \in Injection(S, 1 .. card)
  <2> HIDE DEF rank, card
  <2>1. ASSUME NEW m \in S, NEW n \in S, rank[m] = rank[n] PROVE m = n
    <3>1. rank[m] \in Nat /\ ~(rank[m] < rank[n]) /\ ~(rank[n] < rank[m])
      BY <1>1, <2>1
    <3> QED BY <1>1, <1>2, <3>1
  <2> QED BY <1>1, <2>1 DEF Injection, IsInjective
<1>4. IsFiniteSet(1 .. card) /\ Cardinality(1 .. card) = card
  BY <1>1, FS_Interval
<1>5. rank \in Surjection(S, 1 .. card)
  BY <1>1, <1>3, <1>4, FS_Injection
<1>6. \A k \in 1 .. card : \E n \in S : rank[n] = k
  BY <1>5 DEF Surjection
<1>7. s = [k \in 1 .. card |-> CHOOSE n \in S : Cardinality(Upto(S, n)) = k]
  BY DEF InOrder, Upto
<1>8. \A k \in 1 .. card : s[k] \in S /\ rank[s[k]] = k
  <2> TAKE k \in 1 .. card
  <2>1. s[k] = CHOOSE n \in S : Cardinality(Upto(S, n)) = k
    BY <1>7
  <2>2. \E n \in S : Cardinality(Upto(S, n)) = k
    BY <1>6
  <2> HIDE DEF s
  <2>3. s[k] \in S /\ Cardinality(Upto(S, s[k])) = k
    BY <2>1, <2>2
  <2> QED BY <2>3
<1>9. s \in [1 .. card -> S] /\ s \in Seq(Num) /\ Len(s) = card /\ DOMAIN s = 1 .. card
  <2> HIDE DEF s, card, rank
  <2>1. s \in [1 .. card -> S]
    BY <1>7, <1>8
  <2> QED BY <1>1, <2>1
<1> HIDE DEF s, card, rank
<1>10. ASSUME NEW k \in 1 .. card, NEW j \in 1 .. k - 1
       PROVE  s[j] < s[k]
  <2>1. j \in 1 .. card /\ j < k
    BY <1>1
  <2>2. /\ s[j] \in S /\ rank[s[j]] = j /\ s[j] \in Nat
        /\ s[k] \in S /\ rank[s[k]] = k /\ s[k] \in Nat
    BY <1>2, <1>8, <2>1
  <2>3. s[j] # s[k] /\ ~(s[k] < s[j])
    BY <1>1, <2>1, <2>2
  <2> QED BY <2>2, <2>3
<1>11. ASSUME NEW n \in S PROVE \E k \in 1 .. card : s[k] = n
  <2>1. rank[n] \in 1 .. card
    BY <1>1
  <2>2. s[rank[n]] \in S /\ rank[s[rank[n]]] = rank[n]
    BY <1>8, <2>1
  <2>3. s[rank[n]] = n
    BY <1>3, <2>2 DEF Injection, IsInjective
  <2> QED BY <2>1, <2>3
<1> QED BY <1>1, <1>9, <1>10, <1>11 DEF s, card

-----------------------------------------------------------------------------
(* What the ring holds after a frame was put into it.                      *)
Numbered == [number : Num, state : State]
Span == [first_entity : Int, num_entities : Nat]

(* A range of cells is in the order of its numbers. *)
Sorted(cells, frame) ==
  \A i \in 0 .. frame.num_entities - 1 :
    /\ Entry(cells, frame, i) \in Numbered
    /\ \A j \in 0 .. i - 1 :
         Entry(cells, frame, j).number < Entry(cells, frame, i).number

EntriesOf(cells, frame) ==
  {Entry(cells, frame, i) : i \in 0 .. frame.num_entities - 1}
ShowsIn(cells, frame) ==
  [n \in Num |->
     IF \E e \in EntriesOf(cells, frame) : e.number = n
     THEN (CHOOSE e \in EntriesOf(cells, frame) : e.number = n).state
     ELSE Absent]

LEMMA ShowsIs ==
  ASSUME NEW frame
  PROVE  Shows(frame) = ShowsIn(client_entities, frame)
BY DEF Shows, ShowsIn, EntriesOf

(* A sorted range shows each number it holds with the state beside it, and *)
(* no other.                                                               *)
LEMMA ShowsEntry ==
  ASSUME NEW cells, NEW frame \in Span, Sorted(cells, frame)
  PROVE  LET F == ShowsIn(cells, frame)
         IN  /\ F \in [Num -> State \cup {Absent}]
             /\ \A i \in 0 .. frame.num_entities - 1 :
                  F[Entry(cells, frame, i).number] = Entry(cells, frame, i).state
             /\ \A n \in Num :
                  (\A i \in 0 .. frame.num_entities - 1 :
                     Entry(cells, frame, i).number # n) => F[n] = Absent
<1> DEFINE F == ShowsIn(cells, frame)
           E == EntriesOf(cells, frame)
           last == frame.num_entities - 1
<1>1. frame.num_entities \in Nat /\ last \in Int
  BY DEF Span
<1>2. \A e \in E : e \in Numbered
  BY DEF EntriesOf, Sorted
<1>3. ASSUME NEW i \in 0 .. last, NEW j \in 0 .. last,
             Entry(cells, frame, i).number = Entry(cells, frame, j).number
      PROVE  i = j
  <2>1. /\ Entry(cells, frame, i).number \in Nat
        /\ Entry(cells, frame, j).number \in Nat
    BY DEF Sorted, Numbered, Num
  <2>2. ~(i < j) /\ ~(j < i)
    <3>1. i < j => i \in 0 .. j - 1
      BY <1>1
    <3>2. j < i => j \in 0 .. i - 1
      BY <1>1
    <3> QED BY <1>3, <2>1, <3>1, <3>2 DEF Sorted
  <2> QED BY <1>1, <2>2
<1>4. \A n \in Num : F[n] = IF \E e \in E : e.number = n
                            THEN (CHOOSE e \in E : e.number = n).state
                            ELSE Absent
  BY DEF ShowsIn
<1>5. \A d \in E, e \in E : d.number = e.number => d = e
  <2> SUFFICES ASSUME NEW d \in E, NEW e \in E, d.number = e.number PROVE d = e
    OBVIOUS
  <2>1. PICK i \in 0 .. last : d = Entry(cells, frame, i)
    BY DEF EntriesOf
  <2>2. PICK j \in 0 .. last : e = Entry(cells, frame, j)
    BY DEF EntriesOf
  <2> QED BY <1>3, <2>1, <2>2
<1>6. \A i \in 0 .. last : Entry(cells, frame, i) \in E
  BY DEF EntriesOf
<1>7. \A e \in E : F[e.number] = e.state
  <2> SUFFICES ASSUME NEW e \in E PROVE F[e.number] = e.state
    OBVIOUS
  <2>1. e.number \in Num
    BY <1>2 DEF Numbered
  <2> DEFINE d == CHOOSE x \in E : x.number = e.number
  <2>2. d \in E /\ d.number = e.number
    OBVIOUS
  <2>3. d = e
    BY <1>5, <2>2
  <2>4. F[e.number] = d.state
    BY <1>4, <2>1
  <2> QED BY <2>3, <2>4
<1>8. \A n \in Num : (\A e \in E : e.number # n) => F[n] = Absent
  BY <1>4
<1>9. ASSUME NEW n \in Num
      PROVE  F[n] \in State \cup {Absent}
  <2>1. CASE \E e \in E : e.number = n
    <3>1. PICK e \in E : e.number = n
      BY <2>1
    <3>2. F[n] = e.state /\ e \in Numbered
      BY <1>2, <1>7, <3>1
    <3> QED BY <3>2 DEF Numbered
  <2>2. CASE ~(\E e \in E : e.number = n)
    BY <1>8, <2>2
  <2> QED BY <2>1, <2>2
<1>10. F \in [Num -> State \cup {Absent}]
  <2>1. F = [n \in Num |-> F[n]]
    BY DEF ShowsIn
  <2> HIDE DEF F
  <2> QED BY <1>9, <2>1
<1>11. ASSUME NEW n \in Num, \A i \in 0 .. last : Entry(cells, frame, i).number # n
       PROVE  F[n] = Absent
  BY <1>8, <1>11 DEF EntriesOf
<1> HIDE DEF F, E
<1>12. \A i \in 0 .. last :
         F[Entry(cells, frame, i).number] = Entry(cells, frame, i).state
  BY <1>6, <1>7
<1> QED BY <1>10, <1>11, <1>12 DEF F

(* Order and what is shown depend on the cells of the range alone. *)
LEMMA SameEntries ==
  ASSUME NEW cells, NEW others, NEW frame \in Span,
         \A i \in 0 .. frame.num_entities - 1 :
           Entry(cells, frame, i) = Entry(others, frame, i)
  PROVE  /\ Sorted(cells, frame) => Sorted(others, frame)
         /\ ShowsIn(cells, frame) = ShowsIn(others, frame)
<1>1. frame.num_entities \in Nat
  BY DEF Span
<1>2. EntriesOf(cells, frame) = EntriesOf(others, frame)
  BY DEF EntriesOf
<1>3. ASSUME Sorted(cells, frame) PROVE Sorted(others, frame)
  <2> SUFFICES ASSUME NEW i \in 0 .. frame.num_entities - 1
               PROVE  /\ Entry(others, frame, i) \in Numbered
                      /\ \A j \in 0 .. i - 1 : Entry(others, frame, j).number
                                               < Entry(others, frame, i).number
    BY DEF Sorted
  <2>1. \A j \in 0 .. i - 1 : j \in 0 .. frame.num_entities - 1
    BY <1>1
  <2> QED BY <1>3, <2>1 DEF Sorted
<1> QED BY <1>2, <1>3 DEF ShowsIn

(* What is put takes the next cells and leaves the others alone. *)
LEMMA PutCells ==
  ASSUME NEW numbers \in Seq(Num), NEW states, Len(numbers) <= N,
         next_client_entities \in Nat
  PROVE  /\ \A k \in 1 .. Len(numbers) :
              Put(numbers, states)[Index(next_client_entities + k - 1)]
                = [number |-> numbers[k], state |-> states[numbers[k]]]
         /\ \A i \in 0 .. N - 1 :
              (\A k \in 1 .. Len(numbers) : Index(next_client_entities + k - 1) # i)
                => Put(numbers, states)[i] = client_entities[i]
<1> DEFINE len == Len(numbers)
           next == next_client_entities
           hits(i) == {k \in 1 .. len : Index(next + k - 1) = i}
<1>1. N \in Nat /\ len \in Nat /\ next \in Nat
  BY RingSizes
<1>2. \A i \in 0 .. N - 1 :
        Put(numbers, states)[i]
          = IF hits(i) = {} THEN client_entities[i]
            ELSE [number |-> numbers[Max(hits(i))],
                  state |-> states[numbers[Max(hits(i))]]]
  BY DEF Put, N
<1>3. ASSUME NEW k \in 1 .. len, NEW l \in 1 .. len, k # l
      PROVE  Index(next + k - 1) # Index(next + l - 1)
  <2>1. CASE k < l
    BY <1>1, <2>1, IndexApart
  <2>2. CASE l < k
    BY <1>1, <2>2, IndexApart
  <2> QED BY <1>1, <1>3, <2>1, <2>2
<1>4. ASSUME NEW k \in 1 .. len
      PROVE  Put(numbers, states)[Index(next + k - 1)]
               = [number |-> numbers[k], state |-> states[numbers[k]]]
  <2> DEFINE i == Index(next + k - 1)
  <2>1. i \in 0 .. N - 1
    <3>1. next + k - 1 \in Int
      BY <1>1
    <3> QED BY <3>1, IndexIs
  <2>2. hits(i) = {k}
    BY <1>3
  <2>3. Max({k}) = k
    <3>1. k \in Int /\ k >= k
      BY <1>1
    <3> QED BY <3>1 DEF Max
  <2> HIDE DEF i, hits
  <2>4. Put(numbers, states)[i] = [number |-> numbers[k], state |-> states[numbers[k]]]
    BY <1>2, <2>1, <2>2, <2>3
  <2> QED BY <2>4 DEF i
<1>5. ASSUME NEW i \in 0 .. N - 1,
             \A k \in 1 .. len : Index(next + k - 1) # i
      PROVE  Put(numbers, states)[i] = client_entities[i]
  <2>1. hits(i) = {}
    BY <1>5
  <2> QED BY <1>2, <2>1
<1> QED BY <1>4, <1>5

(* A range that ended before and began less than a lap ago is as it was. *)
LEMMA PutSpares ==
  ASSUME NEW numbers \in Seq(Num), NEW states, NEW frame \in Span,
         NEW age \in Nat, frame.num_entities <= age, age + Len(numbers) <= N,
         next_client_entities = (frame.first_entity + age) % DWORD
  PROVE  \A i \in 0 .. frame.num_entities - 1 :
           Entry(client_entities, frame, i) = Entry(Put(numbers, states), frame, i)
<1> DEFINE first == frame.first_entity
           next == next_client_entities
<1>1. /\ N \in Nat \ {0} /\ DWORD \in Nat \ {0} /\ Len(numbers) \in Nat
      /\ first \in Int /\ frame.num_entities \in Nat
  BY RingSizes DEF Span
<1>2. next \in Nat
  <2> DEFINE s == first + age
  <2>1. s \in Int
    BY <1>1
  <2> HIDE DEF s
  <2>2. s % DWORD \in 0 .. DWORD - 1
    BY <1>1, <2>1, DivMod
  <2> QED BY <1>1, <2>2 DEF s
<1> SUFFICES ASSUME NEW i \in 0 .. frame.num_entities - 1
             PROVE  Entry(client_entities, frame, i) = Entry(Put(numbers, states), frame, i)
  OBVIOUS
<1>3. first + i \in Int /\ Index(first + i) \in 0 .. N - 1
  <2>1. first + i \in Int
    BY <1>1
  <2> QED BY <2>1, IndexIs
<1>4. ASSUME NEW k \in 1 .. Len(numbers)
      PROVE  Index(next + k - 1) # Index(first + i)
  <2>1. Index(((first + age) % DWORD) + (k - 1)) = Index((first + age) + (k - 1))
    <3>1. first + age \in Int /\ k - 1 \in Int
      BY <1>1
    <3> HIDE DEF first
    <3> QED BY <3>1, IndexWrapped
  <2>2. next + k - 1 = ((first + age) % DWORD) + (k - 1)
    BY <1>1, <1>2
  <2>3. Index((first + age) + (k - 1)) # Index(first + i)
    <3>1. /\ (first + age) + (k - 1) \in Int /\ first + i \in Int
          /\ first + i < (first + age) + (k - 1)
          /\ (first + age) + (k - 1) < first + i + N
      <4> DEFINE len == Len(numbers)
                 num == frame.num_entities
      <4>1. /\ len \in Nat /\ num \in Nat /\ first \in Int /\ N \in Nat
            /\ k \in 1 .. len /\ i \in 0 .. num - 1
            /\ num <= age /\ age + len <= N
        BY <1>1
      <4> HIDE DEF len, num, first
      <4> QED BY <4>1
    <3> HIDE DEF first
    <3> QED BY <3>1, IndexApart
  <2> QED BY <2>1, <2>2, <2>3
<1>5. Put(numbers, states)[Index(first + i)] = client_entities[Index(first + i)]
  <2>1. Len(numbers) <= N
    BY <1>1
  <2> QED BY <1>2, <1>3, <1>4, <2>1, PutCells
<1> QED BY <1>5 DEF Entry

(* The range just put shows the frame that was built. *)
LEMMA PutShows ==
  ASSUME NEW S \in SUBSET Num, NEW states \in [Num -> State \cup {Absent}],
         \A n \in Num : IF n \in S THEN states[n] \in State ELSE states[n] = Absent,
         Cardinality(S) <= N, next_client_entities \in Nat
  PROVE  LET cells == Put(InOrder(S), states)
             new == [first_entity |-> next_client_entities,
                     num_entities |-> Len(InOrder(S))]
         IN  /\ new \in Span /\ Sorted(cells, new) /\ ShowsIn(cells, new) = states
<1> DEFINE numbers == InOrder(S)
           cells == Put(numbers, states)
           next == next_client_entities
           new == [first_entity |-> next, num_entities |-> Len(numbers)]
<1>1. /\ Cardinality(S) \in Nat
      /\ numbers \in [1 .. Cardinality(S) -> S] /\ numbers \in Seq(Num)
      /\ Len(numbers) = Cardinality(S)
      /\ \A k \in DOMAIN numbers : \A j \in 1 .. k - 1 : numbers[j] < numbers[k]
      /\ \A n \in S : \E k \in DOMAIN numbers : numbers[k] = n
  BY InOrderIs
<1>2. DOMAIN numbers = 1 .. Len(numbers) /\ Len(numbers) \in Nat /\ Len(numbers) <= N
  BY <1>1
<1> HIDE DEF numbers
<1>3. new \in Span
  BY <1>2 DEF Span
<1>4. ASSUME NEW i \in 0 .. Len(numbers) - 1
      PROVE  /\ i + 1 \in DOMAIN numbers /\ numbers[i + 1] \in S
             /\ Entry(cells, new, i)
                  = [number |-> numbers[i + 1], state |-> states[numbers[i + 1]]]
  <2>1. i + 1 \in 1 .. Len(numbers) /\ next + (i + 1) - 1 = next + i
    BY <1>2
  <2>2. numbers[i + 1] \in S
    BY <1>1, <2>1
  <2>3. cells[Index(next + (i + 1) - 1)]
          = [number |-> numbers[i + 1], state |-> states[numbers[i + 1]]]
    <3>1. \A k \in 1 .. Len(numbers) :
            cells[Index(next + k - 1)]
              = [number |-> numbers[k], state |-> states[numbers[k]]]
      BY <1>1, <1>2, PutCells
    <3> HIDE DEF cells
    <3> QED BY <2>1, <3>1
  <2> QED BY <1>2, <2>1, <2>2, <2>3 DEF Entry
<1> DEFINE at(i) == Entry(cells, new, i)
<1> HIDE DEF cells
<1>7. \A i \in 0 .. Len(numbers) - 1 :
        /\ i + 1 \in 1 .. Len(numbers) /\ numbers[i + 1] \in S
        /\ at(i).number = numbers[i + 1] /\ at(i) \in Numbered
  <2> SUFFICES ASSUME NEW i \in 0 .. Len(numbers) - 1
               PROVE  /\ i + 1 \in 1 .. Len(numbers) /\ numbers[i + 1] \in S
                      /\ at(i).number = numbers[i + 1] /\ at(i) \in Numbered
    OBVIOUS
  <2>1. /\ i + 1 \in 1 .. Len(numbers) /\ numbers[i + 1] \in S
        /\ at(i) = [number |-> numbers[i + 1], state |-> states[numbers[i + 1]]]
    BY <1>2, <1>4
  <2>2. numbers[i + 1] \in Num /\ states[numbers[i + 1]] \in State
    BY <2>1
  <2> HIDE DEF at
  <2> QED BY <2>1, <2>2 DEF Numbered
<1>5. Sorted(cells, new)
  <2> SUFFICES ASSUME NEW i \in 0 .. Len(numbers) - 1
               PROVE  /\ Entry(cells, new, i) \in Numbered
                      /\ \A j \in 0 .. i - 1 : Entry(cells, new, j).number
                                               < Entry(cells, new, i).number
    BY DEF Sorted
  <2>1. Entry(cells, new, i) \in Numbered
    BY <1>7
  <2>2. ASSUME NEW j \in 0 .. i - 1
        PROVE  Entry(cells, new, j).number < Entry(cells, new, i).number
    <3>1. j \in 0 .. Len(numbers) - 1 /\ j + 1 \in 1 .. (i + 1) - 1
      BY <1>2
    <3>2. numbers[j + 1] < numbers[i + 1]
      BY <1>1, <1>2, <1>7, <3>1
    <3> HIDE DEF at
    <3>3. at(j).number = numbers[j + 1] /\ at(i).number = numbers[i + 1]
      BY <1>7, <3>1
    <3>4. at(j).number < at(i).number
      BY <3>2, <3>3
    <3> QED BY <3>4 DEF at
  <2> QED BY <2>1, <2>2
<1>6. ShowsIn(cells, new) = states
  <2> DEFINE F == ShowsIn(cells, new)
  <2>1. /\ F \in [Num -> State \cup {Absent}]
        /\ \A i \in 0 .. Len(numbers) - 1 :
             F[Entry(cells, new, i).number] = Entry(cells, new, i).state
        /\ \A n \in Num : (\A i \in 0 .. Len(numbers) - 1 :
             Entry(cells, new, i).number # n) => F[n] = Absent
    <3>1. new.num_entities = Len(numbers)
      OBVIOUS
    <3> HIDE DEF new
    <3> QED BY <1>3, <1>5, <3>1, ShowsEntry
  <2> HIDE DEF F, new
  <2>2. ASSUME NEW n \in S PROVE F[n] = states[n]
    <3>1. PICK k \in 1 .. Len(numbers) : numbers[k] = n
      BY <1>1, <1>2
    <3>2. k - 1 \in 0 .. Len(numbers) - 1 /\ (k - 1) + 1 = k
      BY <1>2
    <3>3. /\ Entry(cells, new, k - 1).number = n
          /\ Entry(cells, new, k - 1).state = states[n]
      BY <1>4, <3>1, <3>2
    <3> QED BY <2>1, <3>2, <3>3
  <2>3. ASSUME NEW n \in Num, n \notin S PROVE F[n] = states[n]
    <3>1. \A i \in 0 .. Len(numbers) - 1 : Entry(cells, new, i).number # n
      BY <1>4, <2>3
    <3> QED BY <2>1, <2>3, <3>1
  <2>4. \A n \in Num : F[n] = states[n]
    BY <2>2, <2>3
  <2> QED BY <2>1, <2>4 DEF F
<1> QED BY <1>3, <1>5, <1>6 DEF cells, numbers

-----------------------------------------------------------------------------
(* The merge of two ranges.                                                *)
Blank == [f \in Field |-> Same]
Updates == [Field -> Value \cup {Same}] \cup {Removed}
Written == [number : Num, update : Updates]

(* What MSG_WriteDeltaEntity writes, or that it writes nothing. *)
LEMMA ChangedIs ==
  ASSUME NEW a \in State, NEW b \in State, NEW n
  PROVE  /\ Changed(a, b) \in [Field -> Value \cup {Same}]
         /\ Changed(a, b) # Removed
         /\ DeltaEntity(a, b, n) = IF Changed(a, b) = Blank THEN <<>>
                                   ELSE <<[number |-> n, update |-> Changed(a, b)]>>
<1>1. a \in [Field -> Value] /\ b \in [Field -> Value]
  BY EntityAssumption
<1>2. Changed(a, b) \in [Field -> Value \cup {Same}]
  <2>1. \A f \in Field : Wire[f][b[f]] \in Value
    BY <1>1, EntityAssumption
  <2> QED BY <2>1 DEF Changed
<1>3. Changed(a, b) # Removed
  BY <1>2, EntityAssumption
<1>4. (\A f \in Field : Changed(a, b)[f] = Same) <=> Changed(a, b) = Blank
  <2> DEFINE u == Changed(a, b)
  <2>1. u = [f \in Field |-> u[f]]
    BY <1>2
  <2> HIDE DEF u
  <2>2. (\A f \in Field : u[f] = Same) <=> u = Blank
    BY <2>1 DEF Blank
  <2> QED BY <2>2 DEF u
<1> QED BY <1>2, <1>3, <1>4 DEF DeltaEntity

Difference(cells, old, new) ==
  DV!Delta(ShowsIn(cells, old), ShowsIn(cells, new), baselines)

(* What DeltaView would send, entity by entity. *)
LEMMA DifferenceIs ==
  ASSUME NEW cells, NEW old \in Span, NEW new \in Span,
         Sorted(cells, old), Sorted(cells, new), baselines \in [Num -> State]
  PROVE  LET D == Difference(cells, old, new)
             O == ShowsIn(cells, old)
             W == ShowsIn(cells, new)
         IN  /\ D \in [Num -> Updates]
             /\ \A n \in Num :
                  /\ O[n] \in State /\ W[n] \in State => D[n] = Changed(O[n], W[n])
                  /\ O[n] = Absent /\ W[n] \in State => D[n] = Changed(baselines[n], W[n])
                  /\ O[n] \in State /\ W[n] = Absent => D[n] = Removed
                  /\ O[n] = Absent /\ W[n] = Absent => D[n] = Blank
<1> DEFINE D == Difference(cells, old, new)
           O == ShowsIn(cells, old)
           W == ShowsIn(cells, new)
<1>1. O \in [Num -> State \cup {Absent}] /\ W \in [Num -> State \cup {Absent}]
  BY ShowsEntry
<1>2. Absent \notin State
  BY EntityAssumption
<1> HIDE DEF O, W
<1>3. D = DV!Delta(O, W, baselines)
  BY DEF Difference, O, W
<1> HIDE DEF D
<1>4. \A n \in Num :
        D[n] = IF W[n] = Absent
               THEN IF O[n] = Absent THEN Blank ELSE Removed
               ELSE Changed(IF O[n] = Absent THEN baselines[n] ELSE O[n], W[n])
  BY <1>3 DEF DV!Delta, DV!Changed, Changed, Blank
<1>5. \A n \in Num :
        /\ O[n] \in State /\ W[n] \in State => D[n] = Changed(O[n], W[n])
        /\ O[n] = Absent /\ W[n] \in State => D[n] = Changed(baselines[n], W[n])
        /\ O[n] \in State /\ W[n] = Absent => D[n] = Removed
        /\ O[n] = Absent /\ W[n] = Absent => D[n] = Blank
  BY <1>2, <1>4
<1>6. Blank \in Updates /\ Removed \in Updates
  BY DEF Blank, Updates
<1>7. \A n \in Num : D[n] \in Updates
  <2> SUFFICES ASSUME NEW n \in Num PROVE D[n] \in Updates
    OBVIOUS
  <2>1. O[n] \in State \cup {Absent} /\ W[n] \in State \cup {Absent} /\ baselines[n] \in State
    BY <1>1
  <2>2. \A a \in State, b \in State : Changed(a, b) \in Updates
    BY ChangedIs DEF Updates
  <2> QED BY <1>5, <1>6, <2>1, <2>2
<1>8. D = [n \in Num |-> D[n]]
  BY <1>3 DEF DV!Delta
<1>9. D \in [Num -> Updates]
  BY <1>7, <1>8
<1> QED BY <1>5, <1>9 DEF D, O, W

(* What a sorted range holds at and around a place in it. *)
LEMMA Fronts ==
  ASSUME NEW cells, NEW frame \in Span, Sorted(cells, frame),
         NEW i \in 0 .. frame.num_entities
  PROVE  LET front == NumberAt(cells, frame, i)
             last == frame.num_entities - 1
         IN  /\ front \in 1 .. HIGH_NUMBER
             /\ i <= last => /\ front \in Num /\ front < HIGH_NUMBER
                             /\ front = Entry(cells, frame, i).number
                             /\ Entry(cells, frame, i).state \in State
                             /\ front < NumberAt(cells, frame, i + 1)
             /\ i > last => front = HIGH_NUMBER
             /\ \A j \in 0 .. i - 1 : Entry(cells, frame, j).number < front
             /\ \A j \in i .. last : front <= Entry(cells, frame, j).number
<1> DEFINE num == frame.num_entities
           at(j) == Entry(cells, frame, j)
           front == NumberAt(cells, frame, i)
<1>1. num \in Nat /\ HIGH_NUMBER \in Nat /\ MaxNum < HIGH_NUMBER /\ MaxNum \in Nat
  BY HighNumberAssumption, RingAssumption DEF Span
<1>2. \A j \in 0 .. num - 1 :
        /\ at(j).number \in Num /\ at(j).state \in State
        /\ \A k \in 0 .. j - 1 : at(k).number < at(j).number
  BY DEF Sorted, Numbered
<1>3. \A j : NumberAt(cells, frame, j) = IF j >= num THEN HIGH_NUMBER ELSE at(j).number
  BY DEF NumberAt
<1>4. \A n \in Num : n \in Nat /\ n >= 1 /\ n < HIGH_NUMBER
  BY <1>1 DEF Num
<1> HIDE DEF num, at
<1>5. i \in 0 .. num
  BY DEF num
<1>6. CASE i < num
  <2>1. i \in 0 .. num - 1 /\ front = at(i).number /\ at(i).number \in Num
        /\ at(i).state \in State
    BY <1>1, <1>2, <1>3, <1>5, <1>6
  <2>2. front < NumberAt(cells, frame, i + 1)
    <3>1. CASE i + 1 < num
      <4>1. i + 1 \in 0 .. num - 1 /\ i \in 0 .. (i + 1) - 1
        BY <1>1, <1>5, <3>1
      <4>2. at(i).number < at(i + 1).number
        BY <1>2, <4>1
      <4>3. NumberAt(cells, frame, i + 1) = at(i + 1).number
        BY <1>1, <1>3, <1>5, <3>1
      <4> QED BY <2>1, <4>2, <4>3
    <3>2. CASE ~(i + 1 < num)
      <4>1. NumberAt(cells, frame, i + 1) = HIGH_NUMBER
        BY <1>1, <1>3, <1>5, <3>2
      <4> QED BY <1>4, <2>1, <4>1
    <3> QED BY <3>1, <3>2
  <2>3. \A j \in 0 .. i - 1 : at(j).number < front
    BY <1>2, <2>1
  <2>4. ASSUME NEW j \in i .. num - 1 PROVE front <= at(j).number
    <3>1. j \in 0 .. num - 1 /\ (j = i \/ i \in 0 .. j - 1)
      BY <1>1, <1>5
    <3>2. front \in Nat
      BY <1>4, <2>1
    <3>3. CASE j = i
      BY <2>1, <3>2, <3>3
    <3>4. CASE i \in 0 .. j - 1
      <4>1. at(i).number < at(j).number /\ at(j).number \in Nat
        BY <1>2, <1>4, <3>1, <3>4
      <4> QED BY <2>1, <3>2, <4>1
    <3> QED BY <3>1, <3>3, <3>4
  <2>5. front \in 1 .. HIGH_NUMBER /\ front < HIGH_NUMBER
    BY <1>1, <1>4, <2>1
  <2>6. ~(i > num - 1)
    BY <1>1, <1>5, <1>6
  <2> QED BY <2>1, <2>2, <2>3, <2>4, <2>5, <2>6 DEF num, at
<1>7. CASE ~(i < num)
  <2>1. i = num /\ front = HIGH_NUMBER
    BY <1>1, <1>3, <1>5, <1>7
  <2>2. \A j \in 0 .. i - 1 : at(j).number < front
    <3>1. \A j \in 0 .. i - 1 : j \in 0 .. num - 1
      BY <1>1, <2>1
    <3> QED BY <1>2, <1>4, <2>1, <3>1
  <2>3. front \in 1 .. HIGH_NUMBER
    BY <1>1, <2>1
  <2>4. ~(i <= num - 1) /\ i .. num - 1 = {}
    BY <1>1, <2>1
  <2> QED BY <2>1, <2>2, <2>3, <2>4 DEF num, at
<1> QED BY <1>6, <1>7

Mergeable(cells, old, new) ==
  /\ old \in Span /\ Sorted(cells, old)
  /\ new \in Span /\ Sorted(cells, new)
  /\ baselines \in [Num -> State]

Merging == [newindex : Nat, oldindex : Nat, msg : Seq(Written)]
Behind(cells, old, new, s, n) ==
  n < NumberAt(cells, new, s.newindex) /\ n < NumberAt(cells, old, s.oldindex)

(* Where the loop stands: what it has passed in one range lies behind the  *)
(* place in the other, and the message has what differs of all that is     *)
(* behind both.                                                            *)
Merged(cells, old, new, s) ==
  /\ s \in Merging
  /\ s.newindex <= new.num_entities /\ s.oldindex <= old.num_entities
  /\ \A i \in 0 .. s.newindex - 1 :
       Behind(cells, old, new, s, Entry(cells, new, i).number)
  /\ \A i \in 0 .. s.oldindex - 1 :
       Behind(cells, old, new, s, Entry(cells, old, i).number)
  /\ \A k \in 1 .. Len(s.msg) :
       /\ Behind(cells, old, new, s, s.msg[k].number)
       /\ s.msg[k].update = Difference(cells, old, new)[s.msg[k].number]
       /\ s.msg[k].update # Blank
       /\ \A j \in 1 .. k - 1 : s.msg[j].number < s.msg[k].number
  /\ \A n \in Num :
       Behind(cells, old, new, s, n) /\ Difference(cells, old, new)[n] # Blank
         => \E k \in 1 .. Len(s.msg) : s.msg[k].number = n

Piece(cells, old, new, n) ==
  LET D == Difference(cells, old, new)
  IN  IF D[n] = Blank THEN <<>> ELSE <<[number |-> n, update |-> D[n]]>>

(* A turn passes the lowest number that is not behind both places yet, and *)
(* writes its difference, if there is one.                                 *)
LEMMA TurnIs ==
  ASSUME NEW cells, NEW old, NEW new, Mergeable(cells, old, new),
         NEW s, Merged(cells, old, new, s),
         s.newindex < new.num_entities \/ s.oldindex < old.num_entities
  PROVE  LET newnum == NumberAt(cells, new, s.newindex)
             oldnum == NumberAt(cells, old, s.oldindex)
         IN  \E low \in Num :
               /\ low \in {newnum, oldnum} /\ low <= newnum /\ low <= oldnum
               /\ newnum = low => s.newindex < new.num_entities
               /\ oldnum = low => s.oldindex < old.num_entities
               /\ Turn(cells, old, new, s) =
                    [newindex |-> IF newnum = low THEN s.newindex + 1 ELSE s.newindex,
                     oldindex |-> IF oldnum = low THEN s.oldindex + 1 ELSE s.oldindex,
                     msg |-> s.msg \o Piece(cells, old, new, low)]
<1> DEFINE newnum == NumberAt(cells, new, s.newindex)
           oldnum == NumberAt(cells, old, s.oldindex)
           newent == Entry(cells, new, s.newindex).state
           oldent == Entry(cells, old, s.oldindex).state
           nn == new.num_entities
           no == old.num_entities
           O == ShowsIn(cells, old)
           W == ShowsIn(cells, new)
           D == Difference(cells, old, new)
           t == Turn(cells, old, new, s)
           i == s.newindex
           j == s.oldindex
<1>1. /\ s \in Merging /\ i \in Nat /\ j \in Nat /\ i <= nn /\ j <= no
      /\ nn \in Nat /\ no \in Nat /\ i \in 0 .. nn /\ j \in 0 .. no
      /\ s.msg \in Seq(Written)
      /\ s.newindex = i /\ s.oldindex = j
  BY DEF Merged, Merging, Mergeable, Span
<1>2. /\ newnum \in 1 .. HIGH_NUMBER
      /\ i < nn => /\ newnum \in Num /\ newnum < HIGH_NUMBER
                   /\ newnum = Entry(cells, new, i).number /\ newent \in State
      /\ ~(i < nn) => newnum = HIGH_NUMBER
      /\ \A k \in i .. nn - 1 : newnum <= Entry(cells, new, k).number
  <2>1. (i <= nn - 1 <=> i < nn) /\ (i > nn - 1 <=> ~(i < nn))
    BY <1>1
  <2> QED BY <1>1, <2>1, Fronts DEF Mergeable
<1>3. /\ oldnum \in 1 .. HIGH_NUMBER
      /\ j < no => /\ oldnum \in Num /\ oldnum < HIGH_NUMBER
                   /\ oldnum = Entry(cells, old, j).number /\ oldent \in State
      /\ ~(j < no) => oldnum = HIGH_NUMBER
      /\ \A k \in j .. no - 1 : oldnum <= Entry(cells, old, k).number
  <2>1. (j <= no - 1 <=> j < no) /\ (j > no - 1 <=> ~(j < no))
    BY <1>1
  <2> QED BY <1>1, <2>1, Fronts DEF Mergeable
<1>4. i < nn => W[newnum] = newent
  <2>1. \A k \in 0 .. nn - 1 : W[Entry(cells, new, k).number] = Entry(cells, new, k).state
    BY ShowsEntry DEF Mergeable
  <2> HIDE DEF W
  <2> QED BY <1>1, <1>2, <2>1
<1>5. j < no => O[oldnum] = oldent
  <2>1. \A k \in 0 .. no - 1 : O[Entry(cells, old, k).number] = Entry(cells, old, k).state
    BY ShowsEntry DEF Mergeable
  <2> HIDE DEF O
  <2> QED BY <1>1, <1>3, <2>1
<1>6. newnum < oldnum /\ i < nn => O[newnum] = Absent
  <2> SUFFICES ASSUME newnum < oldnum, i < nn PROVE O[newnum] = Absent
    OBVIOUS
  <2>1. ASSUME NEW k \in 0 .. no - 1 PROVE Entry(cells, old, k).number # newnum
    <3>1. CASE k < j
      <4>1. k \in 0 .. j - 1
        BY <1>1, <3>1
      <4>2. Entry(cells, old, k).number < newnum
        BY <4>1 DEF Merged, Behind
      <4> QED BY <1>2, <4>2
    <3>2. CASE ~(k < j)
      <4>1. k \in j .. no - 1
        BY <1>1, <3>2
      <4>2. oldnum <= Entry(cells, old, k).number
        BY <1>3, <4>1
      <4> HIDE DEF newnum, oldnum
      <4> QED BY <1>2, <1>3, <4>2
    <3> QED BY <3>1, <3>2
  <2>2. newnum \in Num
    BY <1>2
  <2> QED BY <2>1, <2>2, ShowsEntry DEF Mergeable
<1>7. oldnum < newnum /\ j < no => W[oldnum] = Absent
  <2> SUFFICES ASSUME oldnum < newnum, j < no PROVE W[oldnum] = Absent
    OBVIOUS
  <2>1. ASSUME NEW k \in 0 .. nn - 1 PROVE Entry(cells, new, k).number # oldnum
    <3>1. CASE k < i
      <4>1. k \in 0 .. i - 1
        BY <1>1, <3>1
      <4>2. Entry(cells, new, k).number < oldnum
        BY <4>1 DEF Merged, Behind
      <4> QED BY <1>3, <4>2
    <3>2. CASE ~(k < i)
      <4>1. k \in i .. nn - 1
        BY <1>1, <3>2
      <4>2. newnum <= Entry(cells, new, k).number
        BY <1>2, <4>1
      <4> HIDE DEF newnum, oldnum
      <4> QED BY <1>2, <1>3, <4>2
    <3> QED BY <3>1, <3>2
  <2>2. oldnum \in Num
    BY <1>3
  <2> QED BY <2>1, <2>2, ShowsEntry DEF Mergeable
<1>8. \A n \in Num :
        /\ O[n] \in State /\ W[n] \in State => D[n] = Changed(O[n], W[n])
        /\ O[n] = Absent /\ W[n] \in State => D[n] = Changed(baselines[n], W[n])
        /\ O[n] \in State /\ W[n] = Absent => D[n] = Removed
  BY DifferenceIs DEF Mergeable
<1>9. t = IF i >= nn /\ j >= no THEN s
          ELSE IF newnum = oldnum
            THEN [newindex |-> i + 1, oldindex |-> j + 1,
                  msg |-> s.msg \o DeltaEntity(oldent, newent, newnum)]
          ELSE IF newnum < oldnum
            THEN [newindex |-> i + 1, oldindex |-> j,
                  msg |-> s.msg \o DeltaEntity(baselines[newnum], newent, newnum)]
          ELSE [newindex |-> i, oldindex |-> j + 1,
                msg |-> Append(s.msg, [number |-> oldnum, update |-> Removed])]
  BY DEF Turn
<1>10. ~(i >= nn /\ j >= no)
  BY <1>1
<1>11. HIGH_NUMBER \in Nat /\ baselines \in [Num -> State]
  BY HighNumberAssumption DEF Mergeable
<1>12. \A n : Piece(cells, old, new, n)
               = IF D[n] = Blank THEN <<>> ELSE <<[number |-> n, update |-> D[n]]>>
  BY DEF Piece
<1> HIDE DEF newnum, oldnum, newent, oldent, nn, no, O, W, D, t, i, j
<1> DEFINE Goal(low) ==
             /\ low \in {newnum, oldnum} /\ low <= newnum /\ low <= oldnum
             /\ newnum = low => i < nn
             /\ oldnum = low => j < no
             /\ t = [newindex |-> IF newnum = low THEN i + 1 ELSE i,
                     oldindex |-> IF oldnum = low THEN j + 1 ELSE j,
                     msg |-> s.msg \o Piece(cells, old, new, low)]
<1>13. CASE newnum = oldnum
  <2>1. i < nn /\ j < no
    BY <1>1, <1>2, <1>3, <1>10, <1>11, <1>13
  <2>2. D[newnum] = Changed(oldent, newent) /\ newnum \in Num
    BY <1>2, <1>3, <1>4, <1>5, <1>8, <1>13, <2>1
  <2>3. DeltaEntity(oldent, newent, newnum) = Piece(cells, old, new, newnum)
    BY <1>2, <1>3, <1>12, <2>1, <2>2, ChangedIs
  <2>4. t = [newindex |-> i + 1, oldindex |-> j + 1,
             msg |-> s.msg \o Piece(cells, old, new, newnum)]
    BY <1>9, <1>10, <1>13, <2>3
  <2>5. newnum <= newnum
    BY <1>2
  <2>6. Goal(newnum)
    BY <1>13, <2>1, <2>4, <2>5
  <2> QED BY <2>2, <2>6 DEF newnum, oldnum, i, j, nn, no, t
<1>14. CASE newnum < oldnum
  <2>1. i < nn /\ newnum # oldnum /\ newnum <= newnum /\ newnum <= oldnum
    BY <1>1, <1>2, <1>3, <1>10, <1>11, <1>14
  <2>2. D[newnum] = Changed(baselines[newnum], newent) /\ newnum \in Num
    BY <1>2, <1>4, <1>6, <1>8, <1>14, <2>1
  <2>3. DeltaEntity(baselines[newnum], newent, newnum) = Piece(cells, old, new, newnum)
    BY <1>2, <1>11, <1>12, <2>1, <2>2, ChangedIs
  <2>4. t = [newindex |-> i + 1, oldindex |-> j,
             msg |-> s.msg \o DeltaEntity(baselines[newnum], newent, newnum)]
    BY <1>9, <1>10, <1>14, <2>1
  <2>5. t = [newindex |-> i + 1, oldindex |-> j,
             msg |-> s.msg \o Piece(cells, old, new, newnum)]
    BY <1>1, <2>3, <2>4
  <2>6. Goal(newnum)
    BY <2>1, <2>5
  <2> QED BY <2>2, <2>6 DEF newnum, oldnum, i, j, nn, no, t
<1>15. CASE oldnum < newnum
  <2>1. /\ j < no /\ newnum # oldnum /\ oldnum <= newnum /\ oldnum <= oldnum
        /\ ~(newnum < oldnum)
    BY <1>1, <1>2, <1>3, <1>10, <1>11, <1>15
  <2>2. D[oldnum] = Removed /\ oldnum \in Num
    BY <1>3, <1>5, <1>7, <1>8, <1>15, <2>1
  <2>3. Removed # Blank
    BY EntityAssumption DEF Blank
  <2>4. Piece(cells, old, new, oldnum) = <<[number |-> oldnum, update |-> Removed]>>
    BY <1>12, <2>2, <2>3
  <2>5. t = [newindex |-> i, oldindex |-> j + 1,
             msg |-> Append(s.msg, [number |-> oldnum, update |-> Removed])]
    BY <1>9, <1>10, <2>1
  <2>6. \A e \in Written : Append(s.msg, e) = s.msg \o <<e>>
    BY <1>1
  <2>7. [number |-> oldnum, update |-> Removed] \in Written
    BY <2>2 DEF Written, Updates
  <2>8. t = [newindex |-> i, oldindex |-> j + 1,
             msg |-> s.msg \o Piece(cells, old, new, oldnum)]
    BY <1>1, <2>4, <2>5, <2>6, <2>7
  <2>9. Goal(oldnum)
    BY <2>1, <2>8
  <2> QED BY <2>2, <2>9 DEF newnum, oldnum, i, j, nn, no, t
<1> QED BY <1>2, <1>3, <1>11, <1>13, <1>14, <1>15

(* A turn leaves the loop as Merged says, and one place further at least. *)
LEMMA TurnKeeps ==
  ASSUME NEW cells, NEW old, NEW new, Mergeable(cells, old, new),
         NEW s, Merged(cells, old, new, s),
         s.newindex < new.num_entities \/ s.oldindex < old.num_entities
  PROVE  LET t == Turn(cells, old, new, s)
         IN  /\ Merged(cells, old, new, t)
             /\ t.newindex + t.oldindex >= s.newindex + s.oldindex + 1
<1> DEFINE newnum == NumberAt(cells, new, s.newindex)
           oldnum == NumberAt(cells, old, s.oldindex)
           nn == new.num_entities
           no == old.num_entities
           D == Difference(cells, old, new)
           t == Turn(cells, old, new, s)
           i == s.newindex
           j == s.oldindex
           ti == t.newindex
           tj == t.oldindex
           newnext == NumberAt(cells, new, ti)
           oldnext == NumberAt(cells, old, tj)
           N1(k) == Entry(cells, new, k).number
           O1(k) == Entry(cells, old, k).number
<1>1. /\ i \in 0 .. nn /\ j \in 0 .. no /\ nn \in Nat /\ no \in Nat
      /\ s.msg \in Seq(Written) /\ i \in Nat /\ j \in Nat
  BY DEF Merged, Merging, Mergeable, Span
<1>2. PICK low \in Num :
        /\ low \in {newnum, oldnum} /\ low <= newnum /\ low <= oldnum
        /\ newnum = low => i < nn
        /\ oldnum = low => j < no
        /\ t = [newindex |-> IF newnum = low THEN i + 1 ELSE i,
                oldindex |-> IF oldnum = low THEN j + 1 ELSE j,
                msg |-> s.msg \o Piece(cells, old, new, low)]
  BY TurnIs
<1>3. /\ ti = IF newnum = low THEN i + 1 ELSE i
      /\ tj = IF oldnum = low THEN j + 1 ELSE j
      /\ t.msg = s.msg \o Piece(cells, old, new, low)
  <2> HIDE DEF t, newnum, oldnum, i, j
  <2> QED BY <1>2
<1>4. ti \in 0 .. nn /\ tj \in 0 .. no /\ ti \in Nat /\ tj \in Nat /\ ti + tj >= i + j + 1
  <2>1. newnum = low \/ oldnum = low
    BY <1>2
  <2> HIDE DEF t, newnum, oldnum, i, j, nn, no
  <2> QED BY <1>1, <1>2, <1>3, <2>1
<1>5. /\ newnum \in Nat
      /\ i < nn => /\ newnum = N1(i) /\ newnum < NumberAt(cells, new, i + 1)
      /\ newnext \in Nat
      /\ \A k \in ti .. nn - 1 : newnext <= N1(k)
  <2>1. i <= nn - 1 <=> i < nn
    BY <1>1
  <2>2. /\ newnum \in 1 .. HIGH_NUMBER
        /\ i <= nn - 1 => /\ newnum = N1(i) /\ newnum < NumberAt(cells, new, i + 1)
    BY <1>1, Fronts DEF Mergeable
  <2>3. /\ newnext \in 1 .. HIGH_NUMBER
        /\ \A k \in ti .. nn - 1 : newnext <= N1(k)
    BY <1>4, Fronts DEF Mergeable
  <2> QED BY <2>1, <2>2, <2>3
<1>6. /\ oldnum \in Nat
      /\ j < no => /\ oldnum = O1(j) /\ oldnum < NumberAt(cells, old, j + 1)
      /\ oldnext \in Nat
      /\ \A k \in tj .. no - 1 : oldnext <= O1(k)
  <2>1. j <= no - 1 <=> j < no
    BY <1>1
  <2>2. /\ oldnum \in 1 .. HIGH_NUMBER
        /\ j <= no - 1 => /\ oldnum = O1(j) /\ oldnum < NumberAt(cells, old, j + 1)
    BY <1>1, Fronts DEF Mergeable
  <2>3. /\ oldnext \in 1 .. HIGH_NUMBER
        /\ \A k \in tj .. no - 1 : oldnext <= O1(k)
    BY <1>4, Fronts DEF Mergeable
  <2> QED BY <2>1, <2>2, <2>3
<1>7. low \in Nat /\ \A n \in Num : n \in Nat
  BY DEF Num
<1>8. newnum <= newnext /\ low < newnext
  <2>1. CASE newnum = low
    <3>1. newnum < NumberAt(cells, new, i + 1) /\ ti = i + 1
      BY <1>2, <1>3, <1>5, <2>1
    <3>2. newnum < newnext
      BY <3>1
    <3> HIDE DEF newnum, newnext
    <3> QED BY <1>5, <2>1, <3>2
  <2>2. CASE newnum # low
    <3>1. ti = i
      BY <1>3, <2>2
    <3>2. newnext = newnum
      BY <3>1
    <3> HIDE DEF newnum, newnext
    <3> QED BY <1>2, <1>5, <1>7, <2>2, <3>2
  <2> QED BY <2>1, <2>2
<1>9. oldnum <= oldnext /\ low < oldnext
  <2>1. CASE oldnum = low
    <3>1. oldnum < NumberAt(cells, old, j + 1) /\ tj = j + 1
      BY <1>2, <1>3, <1>6, <2>1
    <3>2. oldnum < oldnext
      BY <3>1
    <3> HIDE DEF oldnum, oldnext
    <3> QED BY <1>6, <2>1, <3>2
  <2>2. CASE oldnum # low
    <3>1. tj = j
      BY <1>3, <2>2
    <3>2. oldnext = oldnum
      BY <3>1
    <3> HIDE DEF oldnum, oldnext
    <3> QED BY <1>2, <1>6, <1>7, <2>2, <3>2
  <2> QED BY <2>1, <2>2
<1> DEFINE before(n) == n < newnum /\ n < oldnum
           after(n) == n < newnext /\ n < oldnext
<1>10. /\ \A n : Behind(cells, old, new, s, n) <=> before(n)
       /\ \A n : Behind(cells, old, new, t, n) <=> after(n)
  BY DEF Behind
<1>11. /\ \A k \in 0 .. i - 1 : before(N1(k)) /\ N1(k) \in Num
       /\ \A k \in 0 .. j - 1 : before(O1(k)) /\ O1(k) \in Num
       /\ \A k \in 1 .. Len(s.msg) : before(s.msg[k].number)
  <2>1. /\ \A k \in 0 .. nn - 1 : N1(k) \in Num
        /\ \A k \in 0 .. no - 1 : O1(k) \in Num
    BY DEF Mergeable, Sorted, Numbered
  <2>2. /\ \A k \in 0 .. i - 1 : before(N1(k))
        /\ \A k \in 0 .. j - 1 : before(O1(k))
        /\ \A k \in 1 .. Len(s.msg) : before(s.msg[k].number)
    BY <1>10 DEF Merged
  <2>3. 0 .. i - 1 \subseteq 0 .. nn - 1 /\ 0 .. j - 1 \subseteq 0 .. no - 1
    BY <1>1
  <2> QED BY <2>1, <2>2, <2>3
<1> HIDE DEF newnum, oldnum, newnext, oldnext, N1, O1, i, j, ti, tj, nn, no
<1>12. \A n \in Num : before(n) => after(n) /\ n < low
  BY <1>2, <1>5, <1>6, <1>7, <1>8, <1>9
<1>13. after(low) /\ ~before(low)
  BY <1>2, <1>5, <1>6, <1>7, <1>8, <1>9
<1>14. \A k \in 0 .. ti - 1 : after(N1(k)) /\ N1(k) \in Num /\ N1(k) <= low
  <2> SUFFICES ASSUME NEW k \in 0 .. ti - 1
               PROVE  after(N1(k)) /\ N1(k) \in Num /\ N1(k) <= low
    OBVIOUS
  <2>1. CASE k \in 0 .. i - 1
    <3>1. N1(k) \in Num /\ before(N1(k))
      BY <1>11, <2>1
    <3>2. after(N1(k)) /\ N1(k) < low
      BY <1>12, <3>1
    <3>3. \A n \in Num : n < low => n <= low
      BY <1>7
    <3> HIDE DEF after, before
    <3> QED BY <3>1, <3>2, <3>3
  <2>2. CASE k \notin 0 .. i - 1
    <3>1. k = i /\ newnum = low
      BY <1>1, <1>3, <2>2
    <3>2. N1(k) = low
      BY <1>2, <1>5, <3>1
    <3> QED BY <1>7, <1>13, <3>2
  <2> QED BY <2>1, <2>2
<1>15. \A k \in 0 .. tj - 1 : after(O1(k)) /\ O1(k) \in Num /\ O1(k) <= low
  <2> SUFFICES ASSUME NEW k \in 0 .. tj - 1
               PROVE  after(O1(k)) /\ O1(k) \in Num /\ O1(k) <= low
    OBVIOUS
  <2>1. CASE k \in 0 .. j - 1
    <3>1. O1(k) \in Num /\ before(O1(k))
      BY <1>11, <2>1
    <3>2. after(O1(k)) /\ O1(k) < low
      BY <1>12, <3>1
    <3>3. \A n \in Num : n < low => n <= low
      BY <1>7
    <3> HIDE DEF after, before
    <3> QED BY <3>1, <3>2, <3>3
  <2>2. CASE k \notin 0 .. j - 1
    <3>1. k = j /\ oldnum = low
      BY <1>1, <1>3, <2>2
    <3>2. O1(k) = low
      BY <1>2, <1>6, <3>1
    <3> QED BY <1>7, <1>13, <3>2
  <2> QED BY <2>1, <2>2
<1>16. ASSUME NEW n \in Num, after(n), ~before(n), n # low
       PROVE  D[n] = Blank
  <2>1. n \in Nat /\ low < n
    BY <1>2, <1>5, <1>6, <1>7, <1>16
  <2>2. ASSUME NEW k \in 0 .. nn - 1 PROVE N1(k) # n
    <3>1. CASE k \in 0 .. ti - 1
      BY <1>7, <1>14, <2>1, <3>1
    <3>2. CASE k \notin 0 .. ti - 1
      <4>1. k \in ti .. nn - 1
        BY <1>1, <1>4, <3>2
      <4>2. newnext <= N1(k)
        BY <1>5, <4>1
      <4> QED BY <1>5, <1>16, <2>1, <4>2
    <3> QED BY <3>1, <3>2
  <2>3. ASSUME NEW k \in 0 .. no - 1 PROVE O1(k) # n
    <3>1. CASE k \in 0 .. tj - 1
      BY <1>7, <1>15, <2>1, <3>1
    <3>2. CASE k \notin 0 .. tj - 1
      <4>1. k \in tj .. no - 1
        BY <1>1, <1>4, <3>2
      <4>2. oldnext <= O1(k)
        BY <1>6, <4>1
      <4> QED BY <1>6, <1>16, <2>1, <4>2
    <3> QED BY <3>1, <3>2
  <2>4. ShowsIn(cells, new)[n] = Absent
    BY <2>2, ShowsEntry DEF Mergeable, N1, nn
  <2>5. ShowsIn(cells, old)[n] = Absent
    BY <2>3, ShowsEntry DEF Mergeable, O1, no
  <2> QED BY <2>4, <2>5, DifferenceIs DEF Mergeable
<1> DEFINE w == t.msg
           m == s.msg
           len == Len(m)
           last == [number |-> low, update |-> D[low]]
<1>17. /\ w \in Seq(Written) /\ m \in Seq(Written) /\ len \in Nat
       /\ D[low] = Blank => w = m
       /\ D[low] # Blank => /\ Len(w) = len + 1 /\ w[len + 1] = last
                           /\ \A k \in 1 .. len : w[k] = m[k]
  <2>1. last \in Written
    <3>1. D[low] \in Updates
      BY DifferenceIs DEF Mergeable
    <3> HIDE DEF D
    <3> QED BY <3>1 DEF Written
  <2>2. w = m \o (IF D[low] = Blank THEN <<>> ELSE <<last>>)
    BY <1>3 DEF Piece
  <2> HIDE DEF w, m, last, D
  <2>3. m \in Seq(Written)
    BY <1>1 DEF m
  <2> QED BY <2>1, <2>2, <2>3
<1>18. \A k \in 1 .. len :
         /\ before(m[k].number) /\ m[k].update = D[m[k].number] /\ m[k].update # Blank
         /\ m[k].number \in Num
         /\ \A l \in 1 .. k - 1 : m[l].number < m[k].number
  <2>1. \A k \in 1 .. len : m[k] \in Written
    BY <1>17
  <2> QED BY <1>11, <2>1 DEF Merged, Written
<1>19. \A n \in Num : before(n) /\ D[n] # Blank => \E k \in 1 .. len : m[k].number = n
  BY <1>10 DEF Merged
<1>20. last.number = low /\ last.update = D[low]
  OBVIOUS
<1> HIDE DEF w, m, len, last, D, before, after
<1>21. \A k \in 1 .. Len(w) :
         /\ after(w[k].number) /\ w[k].update = D[w[k].number] /\ w[k].update # Blank
         /\ \A l \in 1 .. k - 1 : w[l].number < w[k].number
  <2>1. CASE D[low] = Blank
    <3>1. w = m /\ Len(w) = len
      BY <1>17, <2>1 DEF len
    <3> QED BY <1>12, <1>18, <3>1
  <2>2. CASE D[low] # Blank
    <3> SUFFICES ASSUME NEW k \in 1 .. Len(w)
                 PROVE  /\ after(w[k].number) /\ w[k].update = D[w[k].number]
                        /\ w[k].update # Blank
                        /\ \A l \in 1 .. k - 1 : w[l].number < w[k].number
      OBVIOUS
    <3>1. CASE k \in 1 .. len
      <4>1. w[k] = m[k] /\ \A l \in 1 .. k - 1 : w[l] = m[l]
        BY <1>17, <2>2, <3>1
      <4> QED BY <1>12, <1>18, <3>1, <4>1
    <3>2. CASE k \notin 1 .. len
      <4>1. k = len + 1 /\ w[k] = last
        BY <1>17, <2>2, <3>2
      <4>2. ASSUME NEW l \in 1 .. k - 1 PROVE w[l].number < w[k].number
        <5>1. l \in 1 .. len /\ w[l] = m[l]
          BY <1>17, <2>2, <4>1
        <5> QED BY <1>12, <1>18, <1>20, <4>1, <5>1
      <4> QED BY <1>13, <1>20, <2>2, <4>1, <4>2
    <3> QED BY <3>1, <3>2
  <2> QED BY <2>1, <2>2
<1>22. \A n \in Num : after(n) /\ D[n] # Blank => \E k \in 1 .. Len(w) : w[k].number = n
  <2> SUFFICES ASSUME NEW n \in Num, after(n), D[n] # Blank
               PROVE  \E k \in 1 .. Len(w) : w[k].number = n
    OBVIOUS
  <2>1. CASE before(n)
    <3>1. PICK k \in 1 .. len : m[k].number = n
      BY <1>19, <2>1
    <3>2. k \in 1 .. Len(w) /\ w[k] = m[k]
      BY <1>17 DEF len
    <3> QED BY <3>1, <3>2
  <2>2. CASE n = low
    <3>1. Len(w) = len + 1 /\ w[len + 1].number = n
      BY <1>17, <1>20, <2>2
    <3>2. len + 1 \in 1 .. Len(w)
      BY <1>17, <3>1
    <3> QED BY <3>1, <3>2
  <2> QED BY <1>16, <2>1, <2>2
<1>23. t \in Merging /\ ti <= nn /\ tj <= no
  <2>1. t = [newindex |-> ti, oldindex |-> tj, msg |-> w]
    BY <1>2, <1>3 DEF w
  <2> HIDE DEF t
  <2> QED BY <1>4, <1>17, <2>1 DEF Merging
<1>24. Merged(cells, old, new, t)
  <2>1. \A k \in 0 .. t.newindex - 1 : Behind(cells, old, new, t, Entry(cells, new, k).number)
    BY <1>10, <1>14 DEF ti, N1
  <2>2. \A k \in 0 .. t.oldindex - 1 : Behind(cells, old, new, t, Entry(cells, old, k).number)
    BY <1>10, <1>15 DEF tj, O1
  <2>3. \A k \in 1 .. Len(t.msg) :
          /\ Behind(cells, old, new, t, t.msg[k].number)
          /\ t.msg[k].update = Difference(cells, old, new)[t.msg[k].number]
          /\ t.msg[k].update # Blank
          /\ \A l \in 1 .. k - 1 : t.msg[l].number < t.msg[k].number
    <3> HIDE DEF t
    <3> QED BY <1>10, <1>21 DEF w, D
  <2>4. \A n \in Num :
          Behind(cells, old, new, t, n) /\ Difference(cells, old, new)[n] # Blank
            => \E k \in 1 .. Len(t.msg) : t.msg[k].number = n
    <3> HIDE DEF t
    <3> QED BY <1>10, <1>22 DEF w, D
  <2>5. t.newindex <= new.num_entities /\ t.oldindex <= old.num_entities
    BY <1>23 DEF ti, tj, nn, no
  <2> HIDE DEF t
  <2> QED BY <1>23, <2>1, <2>2, <2>3, <2>4, <2>5 DEF Merged
<1> QED BY <1>4, <1>24 DEF ti, tj, i, j

(* Before the first turn nothing is written and nothing is passed. *)
LEMMA MergeStart ==
  ASSUME NEW cells, NEW old, NEW new, Mergeable(cells, old, new),
         NEW s, s \in Merging, s.newindex = 0, s.oldindex = 0, Len(s.msg) = 0
  PROVE  Merged(cells, old, new, s)
<1>1. new.num_entities \in Nat /\ old.num_entities \in Nat
  BY DEF Mergeable, Span
<1>2. ASSUME NEW n \in Num, Behind(cells, old, new, s, n)
      PROVE  Difference(cells, old, new)[n] = Blank
  <2>1. n \in Nat /\ n < NumberAt(cells, new, 0) /\ n < NumberAt(cells, old, 0)
    BY <1>2 DEF Behind, Num
  <2>2. 0 \in 0 .. new.num_entities /\ 0 \in 0 .. old.num_entities
    BY <1>1
  <2>3. /\ NumberAt(cells, new, 0) \in 1 .. HIGH_NUMBER
        /\ \A k \in 0 .. new.num_entities - 1 :
             NumberAt(cells, new, 0) <= Entry(cells, new, k).number
    BY <2>2, Fronts DEF Mergeable
  <2>4. /\ NumberAt(cells, old, 0) \in 1 .. HIGH_NUMBER
        /\ \A k \in 0 .. old.num_entities - 1 :
             NumberAt(cells, old, 0) <= Entry(cells, old, k).number
    BY <2>2, Fronts DEF Mergeable
  <2>5. ShowsIn(cells, new)[n] = Absent
    <3>1. \A k \in 0 .. new.num_entities - 1 : Entry(cells, new, k).number # n
      BY <2>1, <2>3
    <3> QED BY <3>1, ShowsEntry DEF Mergeable
  <2>6. ShowsIn(cells, old)[n] = Absent
    <3>1. \A k \in 0 .. old.num_entities - 1 : Entry(cells, old, k).number # n
      BY <2>1, <2>4
    <3> QED BY <3>1, ShowsEntry DEF Mergeable
  <2> QED BY <2>5, <2>6, DifferenceIs DEF Mergeable
<1> QED BY <1>1, <1>2 DEF Merged

(* After as many turns as there are entities the loop has passed both. *)
LEMMA MergeIs ==
  ASSUME NEW cells, NEW old, NEW new, Mergeable(cells, old, new)
  PROVE  \E s : /\ Merged(cells, old, new, s)
                /\ s.newindex = new.num_entities /\ s.oldindex = old.num_entities
                /\ PacketEntities(cells, old, new) = s.msg
<1> DEFINE nn == new.num_entities
           no == old.num_entities
           n == nn + no
           S == {s \in Merging : Merged(cells, old, new, s)}
           start == [newindex |-> 0, oldindex |-> 0, msg |-> <<>>]
           turn(s) == Turn(cells, old, new, s)
           Loop(f) == f = [k \in 0 .. n |-> IF k = 0 THEN start
                                            ELSE Turn(cells, old, new, f[k - 1])]
           step == [k \in 1 .. n |-> [s \in S |-> turn(s)]]
           Far(s, k) == s.newindex + s.oldindex >= k \/ (s.newindex = nn /\ s.oldindex = no)
<1>1. nn \in Nat /\ no \in Nat /\ n \in Nat
  BY DEF Mergeable, Span
<1>2. \A s \in S : /\ Merged(cells, old, new, s)
                   /\ s.newindex \in Nat /\ s.oldindex \in Nat
                   /\ s.newindex <= nn /\ s.oldindex <= no
  BY DEF Merged, Merging
<1>3. start \in S
  <2>1. start \in Merging
    BY DEF Merging
  <2>2. start.newindex = 0 /\ start.oldindex = 0 /\ Len(start.msg) = 0
    OBVIOUS
  <2> HIDE DEF start
  <2>3. Merged(cells, old, new, start)
    BY <2>1, <2>2, MergeStart
  <2> QED BY <2>1, <2>3
<1>4. ASSUME NEW s \in S, ~(s.newindex = nn /\ s.oldindex = no)
      PROVE  turn(s) \in S /\ turn(s).newindex + turn(s).oldindex
                                >= s.newindex + s.oldindex + 1
  <2>1. s.newindex < nn \/ s.oldindex < no
    BY <1>1, <1>2, <1>4
  <2>2. Merged(cells, old, new, turn(s))
        /\ turn(s).newindex + turn(s).oldindex >= s.newindex + s.oldindex + 1
    BY <1>2, <2>1, TurnKeeps
  <2> HIDE DEF turn
  <2>3. turn(s) \in Merging
    BY <2>2 DEF Merged
  <2> QED BY <2>2, <2>3
<1>5. ASSUME NEW s \in S, s.newindex = nn, s.oldindex = no
      PROVE  turn(s) = s
  <2>1. s.newindex >= new.num_entities /\ s.oldindex >= old.num_entities
    BY <1>1, <1>5
  <2> QED BY <2>1 DEF Turn
<1>6. \A s \in S : turn(s) \in S
  BY <1>4, <1>5
<1>7. ASSUME NEW s \in S, NEW k \in 1 .. n, Far(s, k - 1)
      PROVE  Far(turn(s), k)
  <2>1. CASE s.newindex = nn /\ s.oldindex = no
    BY <1>5, <2>1
  <2>2. CASE ~(s.newindex = nn /\ s.oldindex = no)
    <3>1. s.newindex + s.oldindex >= k - 1
      BY <1>7, <2>2
    <3>2. /\ turn(s).newindex + turn(s).oldindex >= s.newindex + s.oldindex + 1
          /\ turn(s).newindex \in Nat /\ turn(s).oldindex \in Nat
          /\ s.newindex \in Nat /\ s.oldindex \in Nat
      BY <1>2, <1>4, <2>2
    <3> HIDE DEF turn, nn, no
    <3>3. turn(s).newindex + turn(s).oldindex >= k
      BY <3>1, <3>2
    <3> QED BY <3>3
  <2> QED BY <2>1, <2>2
<1> HIDE DEF n, S, start, turn
<1>8. PICK f \in [0 .. n -> S] : f[0] = start /\ Runs(f, n, step)
  <2>1. step \in [1 .. n -> [S -> S]]
    BY <1>6
  <2> HIDE DEF step
  <2> QED BY <1>1, <1>3, <2>1, Iterates
<1>9. \A k \in 1 .. n : k - 1 \in 0 .. n /\ f[k - 1] \in S /\ f[k] = turn(f[k - 1])
  <2> TAKE k \in 1 .. n
  <2>1. k - 1 \in 0 .. n
    BY <1>1
  <2>2. f[k - 1] \in S /\ f[k] = step[k][f[k - 1]]
    BY <1>8, <2>1 DEF Runs
  <2> QED BY <2>1, <2>2
<1>10. Loop(f)
  <2>1. ASSUME NEW k \in 0 .. n
        PROVE  f[k] = IF k = 0 THEN start ELSE Turn(cells, old, new, f[k - 1])
    <3>1. CASE k = 0
      BY <1>8, <3>1
    <3>2. CASE k # 0
      <4>1. k \in 1 .. n
        BY <1>1, <3>2
      <4> QED BY <1>9, <3>2, <4>1 DEF turn
    <3> QED BY <3>1, <3>2
  <2> QED BY <2>1
<1> DEFINE h == CHOOSE g : Loop(g)
<1>11. Loop(h)
  <2> HIDE DEF Loop
  <2> QED BY <1>10
<1>12. PacketEntities(cells, old, new) = h[n].msg
  BY DEF PacketEntities, n, nn, no, start
<1> HIDE DEF h
<1>13. h[0] = start /\ \A k \in 1 .. n : h[k] = turn(h[k - 1])
  <2>1. \A k \in 0 .. n : h[k] = IF k = 0 THEN start ELSE Turn(cells, old, new, h[k - 1])
    BY <1>11
  <2>2. \A k \in 1 .. n : k \in 0 .. n /\ k # 0
    BY <1>1
  <2>3. 0 \in 0 .. n
    BY <1>1
  <2> QED BY <2>1, <2>2, <2>3 DEF turn
<1> DEFINE G == {k \in 0 .. n : h[k] \in S /\ Far(h[k], k)}
<1>14. 0 \in G
  <2>1. start.newindex = 0 /\ start.oldindex = 0
    BY DEF start
  <2>2. Far(start, 0)
    BY <2>1
  <2> QED BY <1>1, <1>3, <1>13, <2>2
<1>15. \A k \in 1 .. n : k - 1 \in G => k \in G
  <2> SUFFICES ASSUME NEW k \in 1 .. n, k - 1 \in G PROVE k \in G
    OBVIOUS
  <2>1. h[k - 1] \in S /\ Far(h[k - 1], k - 1) /\ h[k] = turn(h[k - 1])
    BY <1>13
  <2> HIDE DEF Far
  <2>2. h[k] \in S /\ Far(h[k], k)
    BY <1>6, <1>7, <2>1
  <2>3. k \in 0 .. n
    BY <1>1
  <2> QED BY <2>2, <2>3
<1>16. n \in G
  <2> HIDE DEF G
  <2>1. 0 .. n \subseteq G
    BY <1>1, <1>14, <1>15, Steps
  <2> QED BY <1>1, <2>1
<1>17. h[n] \in S /\ Far(h[n], n)
  BY <1>16
<1>18. h[n].newindex = nn /\ h[n].oldindex = no
  <2>1. h[n].newindex \in Nat /\ h[n].oldindex \in Nat /\ h[n].newindex <= nn /\ h[n].oldindex <= no
    BY <1>2, <1>17
  <2> DEFINE a == h[n].newindex
             b == h[n].oldindex
  <2>2. a + b >= nn + no \/ (a = nn /\ b = no)
    BY <1>17 DEF n
  <2> HIDE DEF a, b, nn, no
  <2>3. a = nn /\ b = no
    BY <1>1, <2>1, <2>2 DEF a, b
  <2> QED BY <2>3 DEF a, b
<1> QED BY <1>2, <1>12, <1>17, <1>18

Ascending(w) ==
  \A k \in 1 .. Len(w) : \A j \in 1 .. k - 1 : w[j].number < w[k].number

(* What is written names each entity once, in order, and says of all of    *)
(* them what the difference of the two frames does.                        *)
LEMMA MessageIs ==
  ASSUME NEW cells, NEW old, NEW new, Mergeable(cells, old, new)
  PROVE  LET w == PacketEntities(cells, old, new)
         IN  /\ w \in Seq(Written) /\ Ascending(w)
             /\ AsDelta(w) = Difference(cells, old, new)
<1> DEFINE w == PacketEntities(cells, old, new)
           D == Difference(cells, old, new)
<1>1. PICK s : /\ Merged(cells, old, new, s)
               /\ s.newindex = new.num_entities /\ s.oldindex = old.num_entities
               /\ w = s.msg
  BY MergeIs
<1>2. w \in Seq(Written) /\ Ascending(w)
  <2>1. s.msg \in Seq(Written)
    BY <1>1 DEF Merged, Merging
  <2>2. \A k \in 1 .. Len(s.msg) : \A j \in 1 .. k - 1 : s.msg[j].number < s.msg[k].number
    BY <1>1 DEF Merged
  <2> HIDE DEF w
  <2> QED BY <1>1, <2>1, <2>2 DEF Ascending
<1>3. \A n \in Num : Behind(cells, old, new, s, n)
  <2>1. NumberAt(cells, new, s.newindex) = HIGH_NUMBER
    <3>1. new.num_entities >= new.num_entities
      BY DEF Mergeable, Span
    <3> QED BY <1>1, <3>1 DEF NumberAt
  <2>2. NumberAt(cells, old, s.oldindex) = HIGH_NUMBER
    <3>1. old.num_entities >= old.num_entities
      BY DEF Mergeable, Span
    <3> QED BY <1>1, <3>1 DEF NumberAt
  <2>3. \A n \in Num : n < HIGH_NUMBER
    BY HighNumberAssumption, RingAssumption DEF Num
  <2> QED BY <2>1, <2>2, <2>3 DEF Behind
<1>4. /\ \A k \in 1 .. Len(w) : w[k].update = D[w[k].number]
      /\ \A n \in Num : D[n] # Blank => \E k \in 1 .. Len(w) : w[k].number = n
  BY <1>1, <1>3 DEF Merged
<1>5. D = [n \in Num |-> D[n]]
  BY DifferenceIs DEF Mergeable
<1> HIDE DEF w, D
<1>6. ASSUME NEW n \in Num PROVE AsDelta(w)[n] = D[n]
  <2>1. AsDelta(w)[n] = IF \E i \in 1 .. Len(w) : w[i].number = n
                        THEN w[CHOOSE i \in 1 .. Len(w) : w[i].number = n].update
                        ELSE Blank
    BY DEF AsDelta, Blank
  <2>2. CASE \E i \in 1 .. Len(w) : w[i].number = n
    <3> DEFINE k == CHOOSE i \in 1 .. Len(w) : w[i].number = n
    <3>1. k \in 1 .. Len(w) /\ w[k].number = n
      BY <2>2
    <3>2. AsDelta(w)[n] = w[k].update
      BY <2>1, <2>2
    <3> HIDE DEF k
    <3> QED BY <1>4, <3>1, <3>2
  <2>3. CASE ~(\E i \in 1 .. Len(w) : w[i].number = n)
    BY <1>4, <2>1, <2>3
  <2> QED BY <2>2, <2>3
<1>7. AsDelta(w) = [n \in Num |-> AsDelta(w)[n]]
  BY DEF AsDelta
<1> QED BY <1>2, <1>5, <1>6, <1>7 DEF w, D

-----------------------------------------------------------------------------
(* The client reads a message.                                             *)
Tables == [Num -> [Field -> Value]]
Renewed(a, u) ==
  IF u = Removed THEN NoState
  ELSE [f \in Field |-> IF u[f] = Same THEN a[f] ELSE u[f]]

LEMMA RenewedIs ==
  ASSUME NEW a \in [Field -> Value], NEW u \in Updates
  PROVE  /\ Renewed(a, u) \in [Field -> Value]
         /\ Renewed(a, Blank) = a
<1>3. Renewed(a, Blank) = a
  <2>1. Blank # Removed
    BY EntityAssumption DEF Blank
  <2>2. Renewed(a, Blank) = [f \in Field |-> a[f]]
    BY <2>1 DEF Renewed, Blank
  <2> QED BY <2>2
<1>1. CASE u = Removed
  <2>1. NoState \in [Field -> Value]
    BY EntityAssumption DEF NoState
  <2>2. Renewed(a, u) = NoState
    BY <1>1 DEF Renewed
  <2> QED BY <2>1, <2>2, <1>3
<1>2. CASE u # Removed
  <2>1. u \in [Field -> Value \cup {Same}]
    BY <1>2 DEF Updates
  <2>2. Renewed(a, u) = [f \in Field |-> IF u[f] = Same THEN a[f] ELSE u[f]]
    BY <1>2 DEF Renewed
  <2>3. \A f \in Field : (IF u[f] = Same THEN a[f] ELSE u[f]) \in Value
    BY <2>1
  <2> QED BY <2>2, <2>3, <1>3
<1> QED BY <1>1, <1>2

(* An update touches one entity of the client's table. *)
LEMMA UpdatedIs ==
  ASSUME NEW t \in Tables, NEW u \in Written
  PROVE  /\ Updated(t, u) \in Tables
         /\ \A n \in Num : Updated(t, u)[n] = IF n = u.number THEN Renewed(t[n], u.update)
                                              ELSE t[n]
<1>1. u.number \in Num /\ u.update \in Updates
  BY DEF Written
<1>2. Updated(t, u) = [t EXCEPT ![u.number] = Renewed(t[u.number], u.update)]
  BY <1>1 DEF Updated, Renewed, Tables
<1>3. Renewed(t[u.number], u.update) \in [Field -> Value]
  BY <1>1, RenewedIs DEF Tables
<1> QED BY <1>1, <1>2, <1>3 DEF Tables

(* A message that names each entity once does to the table what the    *)
(* difference of DeltaView does.                                           *)
LEMMA ReadIs ==
  ASSUME NEW table \in Tables, NEW w \in Seq(Written), Ascending(w)
  PROVE  /\ AfterUpdates(table, w) = DV!Applied(table, AsDelta(w))
         /\ AfterUpdates(table, w) \in Tables
<1> DEFINE n == Len(w)
           S == Tables
           next(t, k) == Updated(t, w[k])
           Loop(f) == f = [k \in 0 .. n |-> IF k = 0 THEN table ELSE Updated(f[k - 1], w[k])]
           step == [k \in 1 .. n |-> [t \in S |-> next(t, k)]]
<1>1. n \in Nat /\ \A k \in 1 .. n : w[k] \in Written /\ w[k].number \in Num
                                     /\ w[k].update \in Updates
  <2>1. \A k \in 1 .. n : w[k] \in Written
    OBVIOUS
  <2>2. \A u \in Written : u.number \in Num /\ u.update \in Updates
    BY DEF Written
  <2> QED BY <2>1, <2>2
<1>2. \A t \in S, k \in 1 .. n : next(t, k) \in S
  BY <1>1, UpdatedIs
<1> HIDE DEF n, S, next
<1>3. PICK f \in [0 .. n -> S] : f[0] = table /\ Runs(f, n, step)
  <2>1. step \in [1 .. n -> [S -> S]]
    BY <1>2
  <2>2. table \in S
    BY DEF S
  <2> HIDE DEF step
  <2> QED BY <1>1, <2>1, <2>2, Iterates
<1>4. \A k \in 1 .. n : k - 1 \in 0 .. n /\ f[k - 1] \in S /\ f[k] = next(f[k - 1], k)
  <2> TAKE k \in 1 .. n
  <2>1. k - 1 \in 0 .. n
    BY <1>1
  <2>2. f[k - 1] \in S /\ f[k] = step[k][f[k - 1]]
    BY <1>3, <2>1 DEF Runs
  <2> QED BY <2>1, <2>2
<1>5. Loop(f)
  <2>1. ASSUME NEW k \in 0 .. n
        PROVE  f[k] = IF k = 0 THEN table ELSE Updated(f[k - 1], w[k])
    <3>1. CASE k = 0
      BY <1>3, <3>1
    <3>2. CASE k # 0
      <4>1. k \in 1 .. n
        BY <1>1, <3>2
      <4> QED BY <1>4, <3>2, <4>1 DEF next
    <3> QED BY <3>1, <3>2
  <2> QED BY <2>1
<1> DEFINE h == CHOOSE g : Loop(g)
<1>6. Loop(h)
  <2> HIDE DEF Loop
  <2> QED BY <1>5
<1>7. AfterUpdates(table, w) = h[n]
  BY DEF AfterUpdates, n
<1> HIDE DEF h
<1>8. h[0] = table /\ \A k \in 1 .. n : h[k] = next(h[k - 1], k)
  <2>1. \A k \in 0 .. n : h[k] = IF k = 0 THEN table ELSE Updated(h[k - 1], w[k])
    BY <1>6
  <2>2. \A k \in 1 .. n : k \in 0 .. n /\ k # 0
    BY <1>1
  <2>3. 0 \in 0 .. n
    BY <1>1
  <2> QED BY <2>1, <2>2, <2>3 DEF next
<1> DEFINE Read(k) ==
             /\ h[k] \in S
             /\ \A m \in Num :
                  /\ \A i \in 1 .. k : w[i].number = m
                                         => h[k][m] = Renewed(table[m], w[i].update)
                  /\ (\A i \in 1 .. k : w[i].number # m) => h[k][m] = table[m]
           G == {k \in 0 .. n : Read(k)}
<1>9. 0 \in G
  <2>1. Read(0)
    BY <1>8 DEF S
  <2> QED BY <1>1, <2>1
<1>10. ASSUME NEW k \in 1 .. n, k - 1 \in G PROVE k \in G
  <2>1. Read(k - 1) /\ k \in 0 .. n
    BY <1>1, <1>10
  <2>2. /\ h[k] \in S
        /\ \A m \in Num : h[k][m] = IF m = w[k].number
                                    THEN Renewed(h[k - 1][m], w[k].update)
                                    ELSE h[k - 1][m]
    <3>1. h[k - 1] \in Tables /\ w[k] \in Written /\ h[k] = Updated(h[k - 1], w[k])
      BY <1>1, <1>8, <2>1 DEF S, next
    <3> HIDE DEF S, Read
    <3>2. h[k] \in Tables
          /\ \A m \in Num : h[k][m] = IF m = w[k].number
                                      THEN Renewed(h[k - 1][m], w[k].update)
                                      ELSE h[k - 1][m]
      BY <3>1, UpdatedIs
    <3> QED BY <3>2 DEF S
  <2>3. ASSUME NEW m \in Num
        PROVE  /\ \A i \in 1 .. k : w[i].number = m
                                      => h[k][m] = Renewed(table[m], w[i].update)
               /\ (\A i \in 1 .. k : w[i].number # m) => h[k][m] = table[m]
    <3>1. 1 .. k - 1 \subseteq 1 .. k /\ \A i \in 1 .. k : i \in 1 .. k - 1 \/ i = k
      BY <1>1
    <3>2. CASE w[k].number = m
      <4>1. \A i \in 1 .. k - 1 : w[i].number # m
        <5>1. \A i \in 1 .. k - 1 : w[i].number < w[k].number /\ i \in 1 .. n
          BY <1>1 DEF Ascending, n
        <5>2. \A a \in Num : ~(a < a)
          BY DEF Num
        <5> QED BY <1>1, <3>2, <5>1, <5>2
      <4>2. h[k - 1][m] = table[m]
        BY <2>1, <4>1
      <4>3. h[k][m] = Renewed(table[m], w[k].update)
        BY <2>2, <3>2, <4>2
      <4>4. k \in 1 .. k
        BY <1>1
      <4> QED BY <3>1, <3>2, <4>1, <4>3, <4>4
    <3>3. CASE w[k].number # m
      <4>1. h[k][m] = h[k - 1][m]
        BY <2>2, <3>3
      <4> QED BY <2>1, <3>1, <3>3, <4>1
    <3> QED BY <3>2, <3>3
  <2>4. Read(k)
    BY <2>2, <2>3
  <2> QED BY <2>1, <2>4
<1>11. Read(n)
  <2> HIDE DEF G
  <2>1. 0 .. n \subseteq G
    BY <1>1, <1>9, <1>10, Steps
  <2>2. n \in G
    BY <1>1, <2>1
  <2> QED BY <2>2 DEF G
<1> DEFINE D == AsDelta(w)
<1>12. \A m \in Num : D[m] = IF \E i \in 1 .. n : w[i].number = m
                             THEN w[CHOOSE i \in 1 .. n : w[i].number = m].update
                             ELSE Blank
  BY DEF AsDelta, Blank, n
<1>13. DV!Applied(table, D) = [m \in Num |-> Renewed(table[m], D[m])]
  BY DEF DV!Applied, DV!NoState, DV!Patched, NoState, Renewed
<1> HIDE DEF D
<1>14. ASSUME NEW m \in Num PROVE h[n][m] = Renewed(table[m], D[m])
  <2>1. CASE \E i \in 1 .. n : w[i].number = m
    <3> DEFINE k == CHOOSE i \in 1 .. n : w[i].number = m
    <3>1. k \in 1 .. n /\ w[k].number = m
      BY <2>1
    <3>2. D[m] = w[k].update
      BY <1>12, <2>1
    <3> HIDE DEF k
    <3> QED BY <1>11, <3>1, <3>2
  <2>2. CASE ~(\E i \in 1 .. n : w[i].number = m)
    <3>1. D[m] = Blank /\ h[n][m] = table[m]
      BY <1>11, <1>12, <2>2
    <3>2. table[m] \in [Field -> Value] /\ Blank \in Updates
      BY DEF Tables, Updates, Blank
    <3> QED BY <3>1, <3>2, RenewedIs
  <2> QED BY <2>1, <2>2
<1>15. h[n] = [m \in Num |-> h[n][m]]
  BY <1>11 DEF S, Tables
<1> QED BY <1>7, <1>11, <1>13, <1>14, <1>15 DEF S, D

-----------------------------------------------------------------------------
(* The invariant of the ring.                                              *)
Frames == [Num -> State \cup {Absent}]
Messages ==
  [kind : {"baselines"}, states : Frames]
    \cup {m \in [kind : {"frame"}, new : Frames, updates : Seq(Written)] :
            Ascending(m.updates)}

RingTypes ==
  /\ RingTypeOK
  /\ edicts \in [Num -> State] /\ baselines \in [Num -> State]
  /\ cs \in [Client -> {"connected", "primed", "spawned"}]
  /\ pending \subseteq Client /\ \A c \in pending : cs[c] = "spawned"
  /\ chan \in [Client -> Seq(Messages)]
  /\ view \in [Client -> Tables]

(* The range of the frame last sent to a client. *)
LastRange(c) == frames[c][lastframe[c] % UPDATE_BACKUP]

(* So many cells were put into the ring since a range began in it that one *)
(* full frame of each client, whose turn came since, accounts for them.    *)
Aged(c, age) ==
  /\ age \in Nat /\ LastRange(c).num_entities <= age
  /\ next_client_entities = (LastRange(c).first_entity + age) % DWORD
  /\ IF c \in pending
     THEN \A d \in pending : age <= Full * (NumClients - c + d)
     ELSE /\ \A d \in pending : c < d /\ age <= Full * (d - c)
          /\ age <= Full * (NumClients - c)

(* The range is in order, and what it shows is of the frame now run, or of *)
(* the one before as long as its client waits for the next.                *)
Whole(c) ==
  /\ cs[c] = "spawned"
  /\ lastframe[c] = IF c \in pending THEN framenum - 1 ELSE framenum
  /\ Sorted(client_entities, LastRange(c))
  /\ \E age \in Nat : Aged(c, age)

RingInv ==
  RingTypes /\ \A c \in Client : lastframe[c] # NoFrame => Whole(c)

(* Frames to cells: only that multiplying keeps the order. *)
LEMMA Laps ==
  /\ \A a \in Int, b \in Int : a <= b => Full * a <= Full * b
  /\ \A a \in Int : Full * a \in Int /\ Full * (a + 1) = Full * a + Full
  /\ Full * 1 = Full
<1>1. Full \in Nat
  BY RingSizes
<1> HIDE DEF Full
<1>2. \A a \in Int, b \in Int : a <= b => Full * a <= Full * b
  BY <1>1, SMT
<1>3. \A a \in Int : Full * a \in Int /\ Full * (a + 1) = Full * a + Full
  BY <1>1, SMT
<1> QED BY <1>1, <1>2, <1>3

LEMMA ClientIs ==
  \A c \in Client : c \in Nat /\ c + 1 <= NumClients /\ NumClients \in Nat
BY RingSizes DEF Client

(* The ranges of a client, by the number of a frame. *)
LEMMA RangeType ==
  ASSUME RingTypes, NEW c \in Client, NEW k \in 0 .. MaxFrames
  PROVE  /\ k % UPDATE_BACKUP \in 0 .. UPDATE_BACKUP - 1
         /\ frames[c][k % UPDATE_BACKUP] \in Span
         /\ frames[c][k % UPDATE_BACKUP].num_entities <= Full
<1> DEFINE i == k % UPDATE_BACKUP
           Ranges == [first_entity : 0 .. DWORD - 1, num_entities : 0 .. MAX_PACKET_ENTITIES]
<1>1. UPDATE_BACKUP \in Nat \ {0} /\ k \in Int
  BY RingAssumption
<1>2. i \in 0 .. UPDATE_BACKUP - 1
  BY <1>1, DivMod
<1>3. frames \in [Client -> [0 .. UPDATE_BACKUP - 1 -> Ranges]]
  BY DEF RingTypes, RingTypeOK
<1> HIDE DEF i
<1>4. frames[c][i] \in Ranges
  BY <1>2, <1>3
<1>5. Ranges \subseteq Span /\ \A r \in Ranges : r.num_entities <= Full
  BY RingSizes DEF Span, Full
<1> QED BY <1>2, <1>4, <1>5 DEF i

(* The ring, of whatever it is full, keeps its type. *)
LEMMA PutType ==
  ASSUME RingTypes, NEW numbers \in Seq(Num), NEW states, Len(numbers) <= N,
         \A k \in 1 .. Len(numbers) : states[numbers[k]] \in State
  PROVE  Put(numbers, states) \in [0 .. N - 1 ->
                                    [number : 0 .. MaxNum, state : State \cup {NoState}]]
<1> DEFINE RingCell == [number : 0 .. MaxNum, state : State \cup {NoState}]
           at(k) == Index(next_client_entities + k - 1)
<1>1. client_entities \in [0 .. N - 1 -> RingCell] /\ next_client_entities \in Nat
  BY RingSizes DEF RingTypes, RingTypeOK, N
<1>2. \A n \in Num : n \in 0 .. MaxNum
  BY RingAssumption DEF Num
<1>3. ASSUME NEW i \in 0 .. N - 1 PROVE Put(numbers, states)[i] \in RingCell
  <2>1. CASE \E k \in 1 .. Len(numbers) : at(k) = i
    <3>1. PICK k \in 1 .. Len(numbers) : at(k) = i
      BY <2>1
    <3>2. Put(numbers, states)[i] = [number |-> numbers[k], state |-> states[numbers[k]]]
      BY <1>1, <3>1, PutCells
    <3>3. numbers[k] \in Num /\ states[numbers[k]] \in State
      OBVIOUS
    <3> QED BY <1>2, <3>2, <3>3
  <2>2. CASE ~(\E k \in 1 .. Len(numbers) : at(k) = i)
    <3>1. Put(numbers, states)[i] = client_entities[i]
      BY <1>1, <2>2, PutCells
    <3> QED BY <1>1, <3>1
  <2> QED BY <2>1, <2>2
<1>4. Put(numbers, states) = [i \in 0 .. N - 1 |-> Put(numbers, states)[i]]
  BY DEF Put, N
<1> QED BY <1>3, <1>4

(* What the code chooses for a frame: entities shown, no more than fit.    *)
Chosen(S, L) ==
  /\ S \in SUBSET Num /\ L \in SUBSET S
  /\ \A n \in S : edicts[n] \in Shown
  /\ Cardinality(S) <= Full

(* SV_AddVisibleEntityCandidate never chooses more than fit. *)
LEMMA ChosenIs ==
  ASSUME NEW seen \in SUBSET Num, \A n \in seen : edicts[n] \in Shown,
         NEW S \in Candidates(seen), NEW L \in SUBSET S
  PROVE  Chosen(S, L)
<1>1. Cardinality(seen) \in Nat /\ Full \in Nat
  BY Ranks, RingSizes
<1>2. Min({Cardinality(seen), Full}) <= Full
  <2> DEFINE x == Cardinality(seen)
             m == Min({x, Full})
  <2>1. \E a \in {x, Full} : \A b \in {x, Full} : a <= b
    BY <1>1
  <2>2. m = CHOOSE a \in {x, Full} : \A b \in {x, Full} : a <= b
    BY DEF Min
  <2> HIDE DEF x, m
  <2>3. \A b \in {x, Full} : m <= b
    BY <2>1, <2>2
  <2> QED BY <2>3 DEF m, x
<1>3. S \in SUBSET seen /\ Cardinality(S) = Min({Cardinality(seen), Full})
  BY DEF Candidates, kSubset, Full
<1> QED BY <1>2, <1>3 DEF Chosen

(* A frame of the ring is one that DeltaView may choose. *)
LEMMA ListedIs ==
  ASSUME NEW S, NEW L, Chosen(S, L), edicts \in [Num -> State]
  PROVE  /\ Listed(S, L) \in Frames /\ Listed(S, L) \in [Num -> Shown \cup {Absent}]
         /\ DV!Sight(Listed(S, L))
         /\ \A n \in Num : IF n \in S THEN Listed(S, L)[n] \in State
                                      ELSE Listed(S, L)[n] = Absent
<1>1. \A n \in Num : Listed(S, L)[n] = IF n \in S \cap L THEN Selected[edicts[n]]
                                       ELSE IF n \in S THEN edicts[n] ELSE Absent
  BY DEF Listed
<1>2. Shown \subseteq State /\ Selected \in [Shown -> Shown]
  BY EntityAssumption
<1>3. ASSUME NEW n \in S
      PROVE  /\ n \in Num /\ edicts[n] \in Shown
             /\ Listed(S, L)[n] \in {edicts[n], Selected[edicts[n]]}
             /\ Listed(S, L)[n] \in Shown
  <2>1. n \in Num /\ edicts[n] \in Shown /\ Selected[edicts[n]] \in Shown
    BY <1>2 DEF Chosen
  <2> QED BY <1>1, <2>1
<1>4. \A n \in Num : n \notin S => Listed(S, L)[n] = Absent
  BY <1>1
<1>5. Listed(S, L) = [n \in Num |-> Listed(S, L)[n]]
  BY DEF Listed
<1>6. \A n \in Num : Listed(S, L)[n] \in Shown \cup {Absent}
  BY <1>3, <1>4
<1>7. DV!Sight(Listed(S, L))
  BY <1>3, <1>4 DEF DV!Sight
<1> QED BY <1>2, <1>3, <1>4, <1>5, <1>6, <1>7 DEF Frames

-----------------------------------------------------------------------------
(* A frame is put into the ring and sent.                                  *)

(* What was put is a range that shows the frame built, and the ring keeps  *)
(* its type.                                                               *)
LEMMA PutIs ==
  ASSUME RingTypes, NEW S, NEW L, Chosen(S, L)
  PROVE  LET numbers == InOrder(S)
             cells == Put(numbers, Listed(S, L))
             new == [first_entity |-> next_client_entities,
                     num_entities |-> Len(numbers)]
         IN  /\ numbers \in Seq(Num) /\ Len(numbers) \in 0 .. Full /\ Len(numbers) <= N
             /\ new \in [first_entity : 0 .. DWORD - 1, num_entities : 0 .. Full]
             /\ new \in Span /\ Sorted(cells, new)
             /\ ShowsIn(cells, new) = Listed(S, L)
             /\ cells \in [0 .. N - 1 ->
                             [number : 0 .. MaxNum, state : State \cup {NoState}]]
<1> DEFINE numbers == InOrder(S)
           states == Listed(S, L)
           new == [first_entity |-> next_client_entities, num_entities |-> Len(numbers)]
<1>1. /\ next_client_entities \in 0 .. DWORD - 1 /\ next_client_entities \in Nat
      /\ edicts \in [Num -> State] /\ S \in SUBSET Num
  BY RingSizes DEF RingTypes, RingTypeOK, Chosen
<1>2. /\ Cardinality(S) \in Nat /\ numbers \in [1 .. Cardinality(S) -> S]
      /\ numbers \in Seq(Num) /\ Len(numbers) = Cardinality(S)
  BY <1>1, InOrderIs
<1>3. /\ states \in Frames
      /\ \A n \in Num : IF n \in S THEN states[n] \in State ELSE states[n] = Absent
  BY <1>1, ListedIs
<1>4. Full \in Nat /\ Full <= N /\ N \in Nat
  <2>1. /\ Full \in Nat \ {0} /\ NumClients \in Nat \ {0} /\ N \in Nat
        /\ Full * (NumClients + 1) <= N
    BY RingSizes
  <2>2. Full * 1 <= Full * (NumClients + 1) /\ Full * (NumClients + 1) \in Int
    BY <2>1, Laps
  <2> QED BY <2>1, <2>2, Laps
<1>5. Len(numbers) \in 0 .. Full /\ Len(numbers) <= N
  BY <1>2, <1>4 DEF Chosen
<1> HIDE DEF numbers, states
<1>6. \A k \in 1 .. Len(numbers) : states[numbers[k]] \in State
  BY <1>1, <1>2, <1>3
<1>7. Put(numbers, states) \in [0 .. N - 1 ->
                                 [number : 0 .. MaxNum, state : State \cup {NoState}]]
  BY <1>2, <1>5, <1>6, PutType
<1>8. /\ new \in Span /\ Sorted(Put(numbers, states), new)
      /\ ShowsIn(Put(numbers, states), new) = states
  BY <1>1, <1>2, <1>3, <1>5, PutShows DEF numbers, states, Frames
<1>9. new \in [first_entity : 0 .. DWORD - 1, num_entities : 0 .. Full]
  BY <1>1, <1>5
<1> QED BY <1>2, <1>5, <1>7, <1>8, <1>9 DEF numbers, states

(* The age of a range is never more than a full frame of each client.      *)
LEMMA AgeFits ==
  ASSUME RingTypes, NEW d \in Client, NEW age, Aged(d, age)
  PROVE  age \in Nat /\ age <= Full * NumClients
<1>1. d \in Nat /\ d + 1 <= NumClients /\ NumClients \in Nat /\ age \in Nat
  BY ClientIs DEF Aged
<1>2. CASE d \in pending
  <2>1. age <= Full * (NumClients - d + d)
    BY <1>2 DEF Aged
  <2>2. NumClients - d + d = NumClients
    BY <1>1
  <2> QED BY <1>1, <2>1, <2>2
<1>3. CASE d \notin pending
  <2>1. age <= Full * (NumClients - d)
    BY <1>3 DEF Aged
  <2> DEFINE room == NumClients - d
  <2>2. room \in Int /\ room <= NumClients
    BY <1>1
  <2> HIDE DEF room
  <2>3. NumClients \in Int
    BY <1>1
  <2>5. /\ Full * room <= Full * NumClients
        /\ Full * NumClients \in Int /\ Full * room \in Int
    BY <2>2, <2>3, Laps, Zenon
  <2>4. age <= Full * room
    BY <2>1 DEF room
  <2> QED BY <1>1, <2>4, <2>5
<1> QED BY <1>2, <1>3

(* No frame put into the ring runs over the last frame of any client.      *)
LEMMA RangesKept ==
  ASSUME RingInv, NEW S, NEW L, Chosen(S, L),
         NEW d \in Client, lastframe[d] # NoFrame
  PROVE  LET cells == Put(InOrder(S), Listed(S, L))
         IN  /\ LastRange(d) \in Span /\ LastRange(d).num_entities <= Full
             /\ Sorted(cells, LastRange(d))
             /\ ShowsIn(cells, LastRange(d)) = LastSent(d)
<1> DEFINE numbers == InOrder(S)
           states == Listed(S, L)
           r == LastRange(d)
<1>1. RingTypes /\ Whole(d)
  BY DEF RingInv
<1>2. lastframe[d] \in 0 .. MaxFrames /\ next_client_entities \in Nat
  BY <1>1, RingSizes DEF RingTypes, RingTypeOK
<1>3. r \in Span /\ r.num_entities <= Full
  BY <1>1, <1>2, RangeType DEF LastRange
<1>4. numbers \in Seq(Num) /\ Len(numbers) \in 0 .. Full
  BY <1>1, PutIs
<1>5. PICK age \in Nat : Aged(d, age)
  BY <1>1 DEF Whole
<1>6. /\ age <= Full * NumClients /\ r.num_entities <= age
      /\ next_client_entities = (r.first_entity + age) % DWORD
  <2>1. age <= Full * NumClients
    BY <1>1, <1>5, AgeFits
  <2> QED BY <1>5, <2>1 DEF Aged
<1>7. age + Len(numbers) <= N
  <2>1. /\ Full \in Nat /\ NumClients \in Nat /\ N \in Nat
        /\ Full * (NumClients + 1) <= N
    BY RingSizes
  <2>2. Full * NumClients \in Int /\ Full * (NumClients + 1) = Full * NumClients + Full
    BY <2>1, Laps
  <2> QED BY <1>4, <1>6, <2>1, <2>2
<1> HIDE DEF numbers, states, r
<1>8. \A i \in 0 .. r.num_entities - 1 :
        Entry(client_entities, r, i) = Entry(Put(numbers, states), r, i)
  BY <1>3, <1>4, <1>6, <1>7, PutSpares
<1>9. /\ Sorted(client_entities, r) => Sorted(Put(numbers, states), r)
      /\ ShowsIn(client_entities, r) = ShowsIn(Put(numbers, states), r)
  BY <1>3, <1>8, SameEntries
<1>10. Sorted(client_entities, r)
  BY <1>1 DEF Whole, r
<1>11. LastSent(d) = ShowsIn(client_entities, r)
  BY ShowsIs DEF LastSent, LastRange, r
<1> QED BY <1>3, <1>9, <1>10, <1>11 DEF numbers, states, r

(* The merge writes the difference of the last frame sent and the new one. *)
LEMMA MessageSent ==
  ASSUME RingInv, NEW c \in Client, c \in pending, NEW S, NEW L, Chosen(S, L)
  PROVE  LET numbers == InOrder(S)
             cells == Put(numbers, Listed(S, L))
             new == [first_entity |-> next_client_entities,
                     num_entities |-> Len(numbers)]
             built == [frames EXCEPT ![c][framenum % UPDATE_BACKUP] = new]
             old == IF lastframe[c] = NoFrame THEN NothingSent
                    ELSE built[c][lastframe[c] % UPDATE_BACKUP]
             w == PacketEntities(cells, old, new)
         IN  /\ w \in Seq(Written) /\ Ascending(w)
             /\ AsDelta(w) = DV!Delta(LastSent(c), Listed(S, L), baselines)
<1> DEFINE numbers == InOrder(S)
           cells == Put(numbers, Listed(S, L))
           new == [first_entity |-> next_client_entities, num_entities |-> Len(numbers)]
           built == [frames EXCEPT ![c][framenum % UPDATE_BACKUP] = new]
           old == IF lastframe[c] = NoFrame THEN NothingSent
                  ELSE built[c][lastframe[c] % UPDATE_BACKUP]
<1>1. RingTypes
  BY DEF RingInv
<1>2. new \in Span /\ Sorted(cells, new) /\ ShowsIn(cells, new) = Listed(S, L)
  BY <1>1, PutIs
<1> HIDE DEF cells, new
<1>3. old \in Span /\ Sorted(cells, old) /\ ShowsIn(cells, old) = LastSent(c)
  <2>1. CASE lastframe[c] = NoFrame
    <3>1. old = NothingSent
      BY <2>1
    <3>2. NothingSent \in Span /\ 0 .. NothingSent.num_entities - 1 = {}
      BY DEF NothingSent, Span
    <3>3. Sorted(cells, NothingSent) /\ EntriesOf(cells, NothingSent) = {}
      BY <3>2 DEF Sorted, EntriesOf
    <3>4. ShowsIn(cells, NothingSent) = EmptyFrame
      BY <3>3 DEF ShowsIn, EmptyFrame
    <3> QED BY <2>1, <3>1, <3>2, <3>3, <3>4 DEF LastSent
  <2>2. CASE lastframe[c] # NoFrame
    <3> DEFINE i == framenum % UPDATE_BACKUP
               j == lastframe[c] % UPDATE_BACKUP
    <3>1. /\ lastframe[c] = framenum - 1 /\ framenum \in Int
          /\ UPDATE_BACKUP \in Nat \ {0, 1}
      BY <1>1, <2>2, RingAssumption DEF RingInv, Whole, RingTypes, RingTypeOK
    <3>2. i # j
      <4> DEFINE x == framenum - 1
      <4>1. x \in Int /\ x < framenum /\ framenum < x + UPDATE_BACKUP /\ lastframe[c] = x
        BY <3>1
      <4> HIDE DEF x
      <4>2. x % UPDATE_BACKUP # framenum % UPDATE_BACKUP
        BY <3>1, <4>1, ModApart
      <4> QED BY <4>1, <4>2
    <3>3. frames[c] = [x \in 0 .. UPDATE_BACKUP - 1 |-> frames[c][x]]
      BY <1>1 DEF RingTypes, RingTypeOK
    <3>4. j \in 0 .. UPDATE_BACKUP - 1
      BY <3>1, DivMod
    <3> HIDE DEF i, j
    <3>5. [frames EXCEPT ![c][i] = new][c][j] = frames[c][j]
      <4>1. frames \in [Client -> [0 .. UPDATE_BACKUP - 1 ->
                   [first_entity : 0 .. DWORD - 1,
                    num_entities : 0 .. MAX_PACKET_ENTITIES]]]
        BY <1>1 DEF RingTypes, RingTypeOK
      <4> QED BY <3>2, <3>3, <3>4, <4>1
    <3>6. old = LastRange(c)
      BY <2>2, <3>5 DEF LastRange, i, j
    <3> QED BY <2>2, <3>6, RangesKept DEF cells
  <2> QED BY <2>1, <2>2
<1> HIDE DEF old
<1>4. Mergeable(cells, old, new)
  BY <1>1, <1>2, <1>3 DEF Mergeable, RingTypes
<1>5. LET w == PacketEntities(cells, old, new)
      IN  /\ w \in Seq(Written) /\ Ascending(w)
          /\ AsDelta(w) = Difference(cells, old, new)
  BY <1>4, MessageIs
<1>6. Difference(cells, old, new) = DV!Delta(LastSent(c), Listed(S, L), baselines)
  BY <1>2, <1>3 DEF Difference
<1> QED BY <1>5, <1>6 DEF cells, new, old

(* What the other clients wait for is a little older, and what this one    *)
(* waits for is new.                                                       *)
LEMMA AgedMore ==
  ASSUME RingTypes, NEW c \in Client, c \in pending, \A e \in pending : c <= e,
         NEW d \in Client, d # c, NEW age \in Nat, Aged(d, age),
         NEW len \in 0 .. Full,
         next_client_entities' = (next_client_entities + len) % DWORD,
         pending' = pending \ {c}, LastRange(d)' = LastRange(d),
         LastRange(d) \in Span
  PROVE  Aged(d, age + len)'
<1> DEFINE r == LastRange(d)
<1>1. /\ c \in Nat /\ d \in Nat /\ c + 1 <= NumClients /\ d + 1 <= NumClients
      /\ NumClients \in Nat /\ Full \in Nat /\ len \in Nat /\ len <= Full
      /\ DWORD \in Nat \ {0} /\ age \in Nat
  BY ClientIs, RingSizes
<1>2. /\ r.first_entity \in Int /\ r.num_entities \in Nat /\ r.num_entities <= age
      /\ next_client_entities = (r.first_entity + age) % DWORD
  BY DEF Aged, Span
<1>3. \A e \in pending' : e \in pending /\ e \in Nat /\ c + 1 <= e
  <2> SUFFICES ASSUME NEW e \in pending' PROVE e \in pending /\ e \in Nat /\ c + 1 <= e
    OBVIOUS
  <2>1. e \in pending /\ e # c /\ e \in Client
    BY DEF RingTypes
  <2> QED BY <1>1, <2>1, ClientIs
<1> HIDE DEF r
<1>4. r.num_entities <= age + len /\ age + len \in Nat
  BY <1>1, <1>2
<1>5. next_client_entities' = (r.first_entity + (age + len)) % DWORD
  <2> DEFINE x == r.first_entity + age
  <2>1. x \in Int /\ next_client_entities = x % DWORD /\ len \in Int
    BY <1>1, <1>2
  <2> HIDE DEF x
  <2>2. ((x % DWORD) + len) % DWORD = (x + len) % DWORD
    BY <1>1, <2>1, ModSum
  <2>3. x + len = r.first_entity + (age + len)
    BY <1>1, <1>2 DEF x
  <2> QED BY <2>1, <2>2, <2>3
<1>6. ASSUME NEW near \in Int, NEW far \in Int, near + 1 <= far, age <= Full * near
      PROVE  age + len <= Full * far
  <2>1. /\ Full * (near + 1) = Full * near + Full /\ Full * near \in Int
        /\ near + 1 \in Int /\ Full * far \in Int
    BY <1>6, Laps
  <2> DEFINE next == near + 1
  <2>2. next \in Int /\ next <= far /\ Full * next = Full * near + Full
    BY <1>6, <2>1
  <2> HIDE DEF next
  <2>3. Full * next <= Full * far
    BY <2>2, Laps
  <2>4. Full * next \in Int
    BY <2>2, Laps
  <2> QED BY <1>1, <1>6, <2>1, <2>2, <2>3, <2>4
<1>7. CASE d \in pending
  <2>1. age <= Full * (NumClients - d + c)
    BY <1>7 DEF Aged
  <2>2. ASSUME NEW e \in pending' PROVE age + len <= Full * (NumClients - d + e)
    <3>1. /\ NumClients - d + c \in Int /\ NumClients - d + e \in Int
          /\ (NumClients - d + c) + 1 <= NumClients - d + e
      BY <1>1, <1>3
    <3> QED BY <1>6, <2>1, <3>1
  <2>3. d \in pending'
    BY <1>7
  <2> QED BY <1>4, <1>5, <2>2, <2>3 DEF Aged, r
<1>8. CASE d \notin pending
  <2>1. d < c /\ age <= Full * (c - d)
    BY <1>8 DEF Aged
  <2>2. ASSUME NEW e \in pending' PROVE d < e /\ age + len <= Full * (e - d)
    <3>1. /\ c - d \in Int /\ e - d \in Int /\ (c - d) + 1 <= e - d /\ d < e
      BY <1>1, <1>3, <2>1
    <3> QED BY <1>6, <2>1, <3>1
  <2>3. age + len <= Full * (NumClients - d)
    <3>1. /\ c - d \in Int /\ NumClients - d \in Int /\ (c - d) + 1 <= NumClients - d
      BY <1>1
    <3> QED BY <1>6, <2>1, <3>1
  <2>4. d \notin pending'
    BY <1>8
  <2> QED BY <1>4, <1>5, <2>2, <2>3, <2>4 DEF Aged, r
<1> QED BY <1>7, <1>8

(* The client a frame was just sent to waits for a range of that age. *)
LEMMA AgedAnew ==
  ASSUME RingTypes, NEW c \in Client, c \in pending, \A e \in pending : c <= e,
         NEW len \in 0 .. Full,
         next_client_entities' = (next_client_entities + len) % DWORD,
         pending' = pending \ {c},
         LastRange(c)' = [first_entity |-> next_client_entities, num_entities |-> len]
  PROVE  Aged(c, len)'
<1>1. /\ c \in Nat /\ c + 1 <= NumClients
      /\ NumClients \in Nat /\ Full \in Nat /\ len \in Nat /\ len <= Full
  BY ClientIs, RingSizes
<1>2. ASSUME NEW room \in Int, 1 <= room PROVE len <= Full * room
  <2>1. 1 \in Int
    OBVIOUS
  <2>2. Full * 1 <= Full * room /\ Full * 1 = Full /\ Full * room \in Int
    BY <1>2, <2>1, Laps, Zenon
  <2> QED BY <1>1, <2>2
<1>3. ASSUME NEW e \in pending' PROVE c < e /\ len <= Full * (e - c)
  <2>1. e \in pending /\ e # c /\ e \in Client
    BY DEF RingTypes
  <2>2. e - c \in Int /\ 1 <= e - c /\ c < e
    BY <1>1, <2>1, ClientIs
  <2> QED BY <1>2, <2>2
<1>4. len <= Full * (NumClients - c)
  <2>1. NumClients - c \in Int /\ 1 <= NumClients - c
    BY <1>1
  <2> QED BY <1>2, <2>1
<1>5. /\ LastRange(c)'.num_entities = len
      /\ next_client_entities' = (LastRange(c)'.first_entity + len) % DWORD
  OBVIOUS
<1> QED BY <1>1, <1>3, <1>4, <1>5 DEF Aged

(* SendSnapshot keeps the invariant; the frame sent is the last one of its *)
(* client, and those of the others are what they were.                     *)
LEMMA SnapshotKeeps ==
  ASSUME RingInv, NEW c \in Client, c \in pending, \A e \in pending : c <= e,
         NEW S, NEW L, Chosen(S, L), SendSnapshot(c, S, L),
         pending' = pending \ {c},
         UNCHANGED <<edicts, baselines, cs, framenum, view, applied, known>>
  PROVE  /\ RingInv'
         /\ \A d \in Client : LastSent(d)' = IF d = c THEN Listed(S, L) ELSE LastSent(d)
<1> DEFINE numbers == InOrder(S)
           states == Listed(S, L)
           cells == Put(numbers, states)
           len == Len(numbers)
           new == [first_entity |-> next_client_entities, num_entities |-> len]
           at == framenum % UPDATE_BACKUP
           Cells == [0 .. N - 1 -> [number : 0 .. MaxNum, state : State \cup {NoState}]]
           Ranges == [first_entity : 0 .. DWORD - 1, num_entities : 0 .. MAX_PACKET_ENTITIES]
           built == [frames EXCEPT ![c][at] = new]
           old == IF lastframe[c] = NoFrame THEN NothingSent
                  ELSE built[c][lastframe[c] % UPDATE_BACKUP]
           w == PacketEntities(cells, old, new)
           m == [kind |-> "frame", new |-> states, updates |-> w]
<1>1. /\ client_entities' = cells
      /\ next_client_entities' = (next_client_entities + len) % DWORD
      /\ frames' = built
      /\ chan' = [chan EXCEPT ![c] = Append(@, m)]
      /\ lastframe' = [lastframe EXCEPT ![c] = framenum]
  BY DEF SendSnapshot, Send
<1>2. RingTypes
  BY DEF RingInv
<1>3. /\ len \in 0 .. Full /\ new \in Ranges /\ new \in Span /\ cells \in Cells
      /\ Sorted(cells, new) /\ ShowsIn(cells, new) = states
  BY <1>2, PutIs DEF Full
<1>4. w \in Seq(Written) /\ Ascending(w)
  BY MessageSent
<1>5. /\ frames \in [Client -> [0 .. UPDATE_BACKUP - 1 -> Ranges]]
      /\ lastframe \in [Client -> {NoFrame} \cup 0 .. MaxFrames]
      /\ framenum \in 0 .. MaxFrames /\ next_client_entities \in 0 .. DWORD - 1
      /\ chan \in [Client -> Seq(Messages)] /\ edicts \in [Num -> State]
  BY <1>2 DEF RingTypes, RingTypeOK
<1>6. at \in 0 .. UPDATE_BACKUP - 1
  BY <1>2, <1>5, RangeType
<1>7. states \in Frames
  BY <1>5, ListedIs
<1> HIDE DEF numbers, states, cells, len, new, at, Cells, Ranges, old, w
<1>8. m \in Messages
  BY <1>4, <1>7 DEF Messages
<1> HIDE DEF m
<1>9. RingTypes'
  <2>1. chan' \in [Client -> Seq(Messages)]
    BY <1>1, <1>5, <1>8
  <2>2. frames' \in [Client -> [0 .. UPDATE_BACKUP - 1 -> Ranges]]
    BY <1>1, <1>3, <1>5, <1>6
  <2>3. next_client_entities' \in 0 .. DWORD - 1
    <3>1. next_client_entities + len \in Int /\ DWORD \in Nat \ {0}
      BY <1>3, <1>5, RingSizes
    <3> QED BY <1>1, <3>1, DivMod
  <2>4. lastframe' \in [Client -> {NoFrame} \cup 0 .. MaxFrames] /\ framenum' \in 0 .. MaxFrames
    BY <1>1, <1>5
  <2>5. client_entities' \in Cells
    BY <1>1, <1>3
  <2>6. pending' \subseteq Client /\ \A d \in pending' : cs'[d] = "spawned"
    BY <1>2 DEF RingTypes
  <2>7. RingTypeOK'
    BY <2>2, <2>3, <2>4, <2>5 DEF RingTypeOK, Cells, Ranges, N
  <2>8. /\ edicts' = edicts /\ baselines' = baselines /\ cs' = cs /\ view' = view
    OBVIOUS
  <2> QED BY <1>2, <2>1, <2>6, <2>7, <2>8 DEF RingTypes
<1>10. LastRange(c)' = new /\ lastframe'[c] = framenum
  <2>1. lastframe'[c] = framenum
    BY <1>1, <1>5
  <2>2. frames'[c][at] = new
    BY <1>1, <1>3, <1>5, <1>6
  <2> QED BY <2>1, <2>2 DEF LastRange, at
<1>11. \A d \in Client : d # c => LastRange(d)' = LastRange(d) /\ lastframe'[d] = lastframe[d]
  <2> SUFFICES ASSUME NEW d \in Client, d # c
               PROVE  LastRange(d)' = LastRange(d) /\ lastframe'[d] = lastframe[d]
    OBVIOUS
  <2>1. lastframe'[d] = lastframe[d] /\ frames'[d] = frames[d]
    BY <1>1, <1>5
  <2> QED BY <2>1 DEF LastRange
<1>12. Whole(c)' /\ LastSent(c)' = states
  <2>1. cs'[c] = "spawned" /\ c \notin pending' /\ framenum' = framenum
    BY <1>2 DEF RingTypes
  <2>2. Sorted(client_entities, LastRange(c))'
    BY <1>1, <1>3, <1>10 DEF Sorted, Entry
  <2>3. Aged(c, len)' /\ len \in Nat
    BY <1>1, <1>2, <1>3, <1>10, AgedAnew, RingSizes DEF new
  <2>4. Whole(c)'
    BY <1>10, <2>1, <2>2, <2>3 DEF Whole
  <2>5. Shows(LastRange(c))' = states
    <3>1. Shows(LastRange(c))' = ShowsIn(cells, new)
      BY <1>1, <1>10 DEF Shows, ShowsIn, EntriesOf, Entry
    <3> QED BY <1>3, <3>1
  <2>6. framenum # NoFrame
    BY <1>5 DEF NoFrame
  <2>7. LastSent(c)' = Shows(LastRange(c))'
    BY <1>10, <2>6 DEF LastSent, LastRange
  <2> QED BY <2>4, <2>5, <2>7
<1>13. ASSUME NEW d \in Client, d # c
       PROVE  /\ lastframe'[d] # NoFrame => Whole(d)'
              /\ LastSent(d)' = LastSent(d)
  <2>1. LastRange(d)' = LastRange(d) /\ lastframe'[d] = lastframe[d]
    BY <1>11, <1>13
  <2>2. CASE lastframe[d] = NoFrame
    BY <2>1, <2>2 DEF LastSent
  <2>3. CASE lastframe[d] # NoFrame
    <3>1. /\ LastRange(d) \in Span /\ Sorted(cells, LastRange(d))
          /\ ShowsIn(cells, LastRange(d)) = LastSent(d)
      BY <2>3, RangesKept DEF cells, numbers, states
    <3>2. Whole(d)
      BY <2>3 DEF RingInv
    <3>3. PICK age \in Nat : Aged(d, age)
      BY <3>2 DEF Whole
    <3>4. Aged(d, age + len)' /\ age + len \in Nat
      BY <1>1, <1>2, <1>3, <1>13, <2>1, <3>1, <3>3, AgedMore, RingSizes
    <3>5. Sorted(client_entities, LastRange(d))'
      BY <1>1, <2>1, <3>1 DEF Sorted, Entry
    <3>6. cs'[d] = "spawned" /\ framenum' = framenum /\ (d \in pending' <=> d \in pending)
      BY <1>13, <3>2 DEF Whole
    <3>7. Whole(d)'
      BY <2>1, <3>2, <3>4, <3>5, <3>6 DEF Whole
    <3>8. Shows(LastRange(d))' = ShowsIn(cells, LastRange(d))
      BY <1>1, <2>1 DEF Shows, ShowsIn, EntriesOf, Entry
    <3>9. LastSent(d)' = Shows(LastRange(d))'
      BY <2>1, <2>3 DEF LastSent, LastRange
    <3> QED BY <3>1, <3>7, <3>8, <3>9
  <2> QED BY <2>2, <2>3
<1>14. RingInv'
  BY <1>9, <1>12, <1>13 DEF RingInv
<1> QED BY <1>12, <1>13, <1>14 DEF states

-----------------------------------------------------------------------------
(* The invariant of the ring holds in every state.                         *)

(* A new game has sent nothing. *)
LEMMA RingInit == SnapshotInit => RingInv
<1> SUFFICES ASSUME SnapshotInit PROVE RingInv
  OBVIOUS
<1>1. /\ 0 \in 0 .. MaxNum /\ 0 \in 0 .. MaxFrames /\ 0 \in 0 .. DWORD - 1
      /\ 0 \in 0 .. MAX_PACKET_ENTITIES
  BY RingAssumption
<1>2. NothingSent \in [first_entity : 0 .. DWORD - 1, num_entities : 0 .. MAX_PACKET_ENTITIES]
  BY <1>1 DEF NothingSent
<1>3. RingTypeOK
  <2>1. next_client_entities \in 0 .. DWORD - 1
    BY RingAssumption DEF SnapshotInit
  <2>2. [number |-> 0, state |-> NoState]
          \in [number : 0 .. MaxNum, state : State \cup {NoState}]
    BY <1>1
  <2> QED BY <1>1, <1>2, <2>1, <2>2 DEF SnapshotInit, RingTypeOK
<1>4. edicts \in [Num -> State] /\ baselines \in [Num -> State]
  BY EntityAssumption DEF SnapshotInit
<1>5. view \in [Client -> Tables]
  BY EntityAssumption DEF SnapshotInit, Tables, NoState
<1>6. /\ cs \in [Client -> {"connected", "primed", "spawned"}]
      /\ pending = {} /\ chan \in [Client -> Seq(Messages)]
  BY DEF SnapshotInit
<1>7. \A c \in Client : lastframe[c] = NoFrame
  BY DEF SnapshotInit
<1> QED BY <1>3, <1>4, <1>5, <1>6, <1>7 DEF RingInv, RingTypes

(* A step that leaves the ring, and all who wait for it, alone.            *)
LEMMA RingStays ==
  ASSUME RingInv, RingTypes', UNCHANGED ring, pending' = pending,
         \A c \in Client : cs[c] = "spawned" => cs'[c] = "spawned"
  PROVE  RingInv' /\ \A c \in Client : LastSent(c)' = LastSent(c)
<1>1. /\ framenum' = framenum /\ client_entities' = client_entities
      /\ next_client_entities' = next_client_entities
      /\ frames' = frames /\ lastframe' = lastframe
  BY DEF ring
<1>2. \A c \in Client : LastRange(c)' = LastRange(c) /\ LastSent(c)' = LastSent(c)
  BY <1>1 DEF LastRange, LastSent, Shows, Entry
<1>3. ASSUME NEW c \in Client, lastframe'[c] # NoFrame PROVE Whole(c)'
  <2>1. Whole(c)
    BY <1>1, <1>3 DEF RingInv
  <2>2. Sorted(client_entities, LastRange(c))'
    BY <1>1, <1>2, <2>1 DEF Whole, Sorted, Entry
  <2>3. \E age \in Nat : Aged(c, age)'
    BY <1>1, <1>2, <2>1 DEF Whole, Aged
  <2> QED BY <1>1, <2>1, <2>2, <2>3 DEF Whole
<1> QED BY <1>2, <1>3 DEF RingInv

(* Each of the other actions keeps it too, and the last frames with it. *)
LEMMA BaselinesKeeps ==
  ASSUME RingInv, NEW c \in Client, Baselines(c)
  PROVE  RingInv' /\ \A d \in Client : LastSent(d)' = LastSent(d)
<1> DEFINE m == [kind |-> "baselines",
                 states |-> Listed({n \in Num : edicts[n] \notin Hidden}, {})]
<1>1. RingTypes
  BY DEF RingInv
<1>2. m \in Messages
  BY <1>1 DEF RingTypes, Messages, Frames, Listed
<1> HIDE DEF m
<1>3. /\ chan' = [chan EXCEPT ![c] = Append(@, m)]
      /\ cs' = [cs EXCEPT ![c] = "primed"] /\ cs[c] = "connected"
      /\ UNCHANGED <<edicts, baselines, pending, ring, view>>
  BY DEF Baselines, Send, m
<1>4. RingTypes'
  <2>1. chan' \in [Client -> Seq(Messages)]
    BY <1>1, <1>2, <1>3 DEF RingTypes
  <2>2. RingTypeOK'
    BY <1>1, <1>3 DEF RingTypes, RingTypeOK, ring
  <2>3. cs' \in [Client -> {"connected", "primed", "spawned"}]
        /\ \A d \in pending' : cs'[d] = "spawned"
    BY <1>1, <1>3 DEF RingTypes
  <2> QED BY <1>1, <1>3, <2>1, <2>2, <2>3 DEF RingTypes
<1>5. \A d \in Client : cs[d] = "spawned" => cs'[d] = "spawned"
  BY <1>1, <1>3 DEF RingTypes
<1> QED BY <1>3, <1>4, <1>5, RingStays

(* A client that begins has been sent nothing, and was not yet spawned.    *)
LEMMA BeginKeeps ==
  ASSUME RingInv, NEW c \in Client, Begin(c)
  PROVE  /\ RingInv' /\ LastSent(c) = EmptyFrame
         /\ \A d \in Client : LastSent(d)' = LastSent(d)
<1>1. RingTypes
  BY DEF RingInv
<1>2. lastframe[c] = NoFrame
  BY DEF RingInv, Whole, Begin
<1>3. lastframe \in [Client -> {NoFrame} \cup 0 .. MaxFrames]
  BY <1>1 DEF RingTypes, RingTypeOK
<1>4. lastframe' = lastframe
  BY <1>2, <1>3 DEF Begin
<1>5. /\ cs' = [cs EXCEPT ![c] = "spawned"]
      /\ UNCHANGED <<edicts, baselines, pending, ring, chan, view>>
  BY <1>4 DEF Begin, ring
<1>6. RingTypes'
  <2>1. RingTypeOK'
    BY <1>1, <1>5 DEF RingTypes, RingTypeOK, ring
  <2>2. cs' \in [Client -> {"connected", "primed", "spawned"}]
        /\ \A d \in pending' : cs'[d] = "spawned"
    BY <1>1, <1>5 DEF RingTypes
  <2> QED BY <1>1, <1>5, <2>1, <2>2 DEF RingTypes
<1>7. \A d \in Client : cs[d] = "spawned" => cs'[d] = "spawned"
  BY <1>1, <1>5 DEF RingTypes
<1>8. LastSent(c) = EmptyFrame
  BY <1>2 DEF LastSent
<1> QED BY <1>5, <1>6, <1>7, <1>8, RingStays

(* A message is taken from a channel and read.                             *)
LEMMA ReadKeeps ==
  ASSUME RingInv, NEW c \in Client, chan[c] # <<>>,
         chan' = [chan EXCEPT ![c] = Tail(@)],
         NEW table \in Tables, view' = [view EXCEPT ![c] = table],
         UNCHANGED <<edicts, baselines, cs, pending, ring>>
  PROVE  RingInv' /\ \A d \in Client : LastSent(d)' = LastSent(d)
<1>1. RingTypes
  BY DEF RingInv
<1>2. chan[c] \in Seq(Messages)
  BY <1>1 DEF RingTypes
<1>3. Tail(chan[c]) \in Seq(Messages)
  BY <1>2
<1>4. RingTypes'
  <2>1. chan' \in [Client -> Seq(Messages)] /\ view' \in [Client -> Tables]
    BY <1>1, <1>3 DEF RingTypes
  <2>2. RingTypeOK'
    BY <1>1 DEF RingTypes, RingTypeOK, ring
  <2> QED BY <1>1, <2>1, <2>2 DEF RingTypes
<1> QED BY <1>4, RingStays

(* What a client takes from its channel is a message of either kind.       *)
LEMMA HeadIs ==
  ASSUME RingInv, NEW c \in Client, chan[c] # <<>>
  PROVE  LET m == Head(chan[c])
         IN  /\ m \in Messages
             /\ m.kind = "baselines" => m.states \in Frames
             /\ m.kind = "frame" => /\ m.new \in Frames /\ m.updates \in Seq(Written)
                                    /\ Ascending(m.updates)
<1>1. chan[c] \in Seq(Messages)
  BY DEF RingInv, RingTypes
<1>2. Head(chan[c]) \in Messages
  BY <1>1
<1> QED BY <1>2 DEF Messages

(* CL_ParseBaseline, as both specifications have it. *)
LEMMA PrimedIs ==
  ASSUME NEW table \in Tables, NEW states \in Frames
  PROVE  /\ DV!Primed(table, states)
              = [n \in Num |-> IF states[n] = Absent THEN table[n]
                               ELSE [f \in Field |->
                                       IF f \in WireField /\ states[n][f] # Zero
                                       THEN Wire[f][states[n][f]] ELSE Zero]]
         /\ DV!Primed(table, states) \in Tables
<1> DEFINE Row(s) == [f \in Field |-> IF f \in WireField /\ s[f] # Zero
                                      THEN Wire[f][s[f]] ELSE Zero]
           P(s) == DV!Patched(DV!NoState, DV!Changed(DV!NoState, s))
<1>1. \A n \in Num : states[n] # Absent => states[n] \in State
  BY DEF Frames
<1>2. ASSUME NEW s \in State PROVE P(s) = Row(s) /\ Row(s) \in [Field -> Value]
  <2>1. /\ s \in [Field -> Value] /\ Zero \in Value /\ Same \notin Value
        /\ Wire \in [Field -> [Value -> Value]]
    BY EntityAssumption
  <2>2. \A f \in Field : Wire[f][s[f]] \in Value /\ Wire[f][s[f]] # Same
    BY <2>1
  <2>3. \A f \in Field :
          (IF DV!Changed(DV!NoState, s)[f] = Same THEN DV!NoState[f]
           ELSE DV!Changed(DV!NoState, s)[f]) = Row(s)[f]
    BY <2>2 DEF DV!Changed, DV!NoState
  <2>4. P(s) = Row(s)
    BY <2>3 DEF DV!Patched
  <2>5. Row(s) \in [Field -> Value]
    BY <2>1, <2>2
  <2> QED BY <2>4, <2>5
<1> HIDE DEF Row, P
<1>3. DV!Primed(table, states)
        = [n \in Num |-> IF states[n] = Absent THEN table[n] ELSE P(states[n])]
  BY DEF DV!Primed, P
<1>4. \A n \in Num : (IF states[n] = Absent THEN table[n] ELSE P(states[n]))
                       = (IF states[n] = Absent THEN table[n] ELSE Row(states[n]))
  BY <1>1, <1>2
<1>5. \A n \in Num : (IF states[n] = Absent THEN table[n] ELSE P(states[n]))
                       \in [Field -> Value]
  BY <1>1, <1>2 DEF Tables
<1> QED BY <1>3, <1>4, <1>5 DEF Row, Tables

LEMMA ReadBaselinesKeeps ==
  ASSUME RingInv, NEW c \in Client, ReadBaselines(c)
  PROVE  /\ RingInv' /\ \A d \in Client : LastSent(d)' = LastSent(d)
         /\ view' = [view EXCEPT ![c] = DV!Primed(@, Head(chan[c]).states)]
<1> DEFINE states == Head(chan[c]).states
<1>1. chan[c] # <<>> /\ Head(chan[c]).kind = "baselines"
  BY DEF ReadBaselines
<1>2. states \in Frames /\ view[c] \in Tables
  BY <1>1, HeadIs DEF RingInv, RingTypes
<1>3. view' = [view EXCEPT ![c] = DV!Primed(view[c], states)]
  BY <1>2, PrimedIs DEF ReadBaselines
<1>4. DV!Primed(view[c], states) \in Tables
  BY <1>2, PrimedIs
<1> HIDE DEF states
<1>5. /\ chan' = [chan EXCEPT ![c] = Tail(@)]
      /\ UNCHANGED <<edicts, baselines, cs, pending, ring>>
  BY DEF ReadBaselines
<1> QED BY <1>1, <1>3, <1>4, <1>5, ReadKeeps DEF states

LEMMA ReadFrameKeeps ==
  ASSUME RingInv, NEW c \in Client, ReadFrame(c)
  PROVE  /\ RingInv' /\ \A d \in Client : LastSent(d)' = LastSent(d)
         /\ view' = [view EXCEPT ![c] = DV!Applied(@, AsDelta(Head(chan[c]).updates))]
<1> DEFINE w == Head(chan[c]).updates
<1>1. chan[c] # <<>> /\ Head(chan[c]).kind = "frame"
  BY DEF ReadFrame
<1>2. w \in Seq(Written) /\ Ascending(w) /\ view[c] \in Tables
  BY <1>1, HeadIs DEF RingInv, RingTypes
<1>3. view' = [view EXCEPT ![c] = AfterUpdates(view[c], w)]
  BY DEF ReadFrame
<1> HIDE DEF w
<1>4. /\ AfterUpdates(view[c], w) = DV!Applied(view[c], AsDelta(w))
      /\ AfterUpdates(view[c], w) \in Tables
  BY <1>2, ReadIs
<1>5. /\ chan' = [chan EXCEPT ![c] = Tail(@)]
      /\ UNCHANGED <<edicts, baselines, cs, pending, ring>>
  BY DEF ReadFrame
<1>6. RingInv' /\ \A d \in Client : LastSent(d)' = LastSent(d)
  BY <1>1, <1>3, <1>4, <1>5, ReadKeeps
<1> QED BY <1>3, <1>4, <1>6 DEF w

LEMMA RunKeeps ==
  ASSUME RingInv, RunGameFrame
  PROVE  RingInv' /\ \A d \in Client : LastSent(d)' = LastSent(d)
<1>1. RingTypes
  BY DEF RingInv
<1>2. /\ pending = {} /\ framenum < MaxFrames /\ framenum' = framenum + 1
      /\ edicts' \in [Num -> State]
      /\ pending' = {c \in Client : cs[c] = "spawned"}
      /\ UNCHANGED <<baselines, cs, client_entities, next_client_entities, frames,
                     lastframe, chan, view>>
  BY DEF RunGameFrame
<1>3. framenum' \in 0 .. MaxFrames /\ framenum \in Int
  BY <1>1, <1>2, RingAssumption DEF RingTypes, RingTypeOK
<1>4. RingTypes'
  <2>1. RingTypeOK'
    BY <1>1, <1>2, <1>3 DEF RingTypes, RingTypeOK
  <2> QED BY <1>1, <1>2, <2>1 DEF RingTypes
<1>5. \A c \in Client : LastRange(c)' = LastRange(c) /\ LastSent(c)' = LastSent(c)
  BY <1>2 DEF LastRange, LastSent, Shows, Entry
<1>6. ASSUME NEW c \in Client, lastframe'[c] # NoFrame PROVE Whole(c)'
  <2>1. Whole(c) /\ cs[c] = "spawned" /\ lastframe[c] = framenum /\ c \in pending'
    BY <1>2, <1>6 DEF RingInv, Whole
  <2>2. Sorted(client_entities, LastRange(c))'
    BY <1>2, <1>5, <2>1 DEF Whole, Sorted, Entry
  <2>3. PICK age \in Nat : Aged(c, age)
    BY <2>1 DEF Whole
  <2>4. ASSUME NEW d \in pending' PROVE age <= Full * (NumClients - c + d)
    <3> DEFINE a == NumClients - c
               b == NumClients - c + d
    <3>1. c \in Nat /\ d \in Nat /\ NumClients \in Nat
      BY <1>2, ClientIs
    <3>2. a \in Int /\ b \in Int /\ a <= b
      BY <3>1
    <3>3. age <= Full * a
      BY <1>2, <2>3 DEF Aged
    <3> HIDE DEF a, b
    <3>4. Full * a <= Full * b /\ Full * a \in Int /\ Full * b \in Int
      BY <3>2, Laps, Zenon
    <3>5. age <= Full * b
      BY <3>3, <3>4
    <3> QED BY <3>5 DEF b
  <2>5. Aged(c, age)'
    BY <1>2, <1>5, <2>1, <2>3, <2>4 DEF Aged
  <2>6. lastframe'[c] = framenum' - 1 /\ cs'[c] = "spawned"
    BY <1>2, <1>3, <2>1
  <2> QED BY <2>1, <2>2, <2>5, <2>6 DEF Whole
<1> QED BY <1>4, <1>5, <1>6 DEF RingInv

-----------------------------------------------------------------------------
(* The refinement of DeltaView.                                            *)

(* The messages and the last frames as DeltaView has them. *)
Carried(m) == IF m.kind = "baselines" THEN m
              ELSE [kind |-> "frame", new |-> m.new, delta |-> AsDelta(m.updates)]
CarriedAll(q) == [i \in 1 .. Len(q) |-> Carried(q[i])]
ChanBar == [c \in Client |-> CarriedAll(chan[c])]
FromBar == [c \in Client |-> LastSent(c)]

(* The bars are what DeltaView is instantiated with. *)
LEMMA Bars ==
  /\ ChanBar = [c \in Client |->
                  [i \in 1 .. Len(chan[c]) |->
                     IF chan[c][i].kind = "baselines" THEN chan[c][i]
                     ELSE [kind |-> "frame", new |-> chan[c][i].new,
                           delta |-> AsDelta(chan[c][i].updates)]]]
  /\ FromBar = [c \in Client |-> LastSent(c)]
  /\ ChanBar' = [c \in Client |->
                   [i \in 1 .. Len(chan'[c]) |->
                      IF chan'[c][i].kind = "baselines" THEN chan'[c][i]
                      ELSE [kind |-> "frame", new |-> chan'[c][i].new,
                            delta |-> AsDelta(chan'[c][i].updates)]]]
  /\ FromBar' = [c \in Client |-> LastSent(c)']
BY DEF ChanBar, FromBar, CarriedAll, Carried

(* Sending and reading a message mean the same on both kinds of channel. *)
LEMMA CarriedAppend ==
  ASSUME NEW q \in Seq(Messages), NEW m \in Messages
  PROVE  CarriedAll(Append(q, m)) = Append(CarriedAll(q), Carried(m))
<1> DEFINE n == Len(q)
           s == CarriedAll(q)
           C == {Carried(q[i]) : i \in 1 .. n} \cup {Carried(m)}
<1>1. /\ n \in Nat /\ Len(Append(q, m)) = n + 1 /\ Append(q, m)[n + 1] = m
      /\ \A i \in 1 .. n : Append(q, m)[i] = q[i]
  OBVIOUS
<1> HIDE DEF C
<1>2. Carried(m) \in C /\ \A i \in 1 .. n : Carried(q[i]) \in C
  BY DEF C
<1>3. s \in Seq(C) /\ Len(s) = n /\ \A i \in 1 .. n : s[i] = Carried(q[i])
  BY <1>1, <1>2 DEF CarriedAll
<1> HIDE DEF s
<1>4. /\ Append(s, Carried(m)) \in Seq(C) /\ Len(Append(s, Carried(m))) = n + 1
      /\ Append(s, Carried(m))[n + 1] = Carried(m)
      /\ \A i \in 1 .. n : Append(s, Carried(m))[i] = s[i]
  BY <1>1, <1>2, <1>3
<1>5. Append(s, Carried(m)) = [i \in 1 .. n + 1 |-> Append(s, Carried(m))[i]]
  <2>1. \A z \in Seq(C) : z = [i \in 1 .. Len(z) |-> z[i]]
    OBVIOUS
  <2> QED BY <1>4, <2>1
<1>6. CarriedAll(Append(q, m)) = [i \in 1 .. n + 1 |-> Carried(Append(q, m)[i])]
  BY <1>1 DEF CarriedAll
<1>7. \A i \in 1 .. n + 1 : Carried(Append(q, m)[i]) = Append(s, Carried(m))[i]
  <2> TAKE i \in 1 .. n + 1
  <2>1. i \in 1 .. n \/ i = n + 1
    BY <1>1
  <2>2. CASE i \in 1 .. n
    <3>1. Append(q, m)[i] = q[i] /\ Append(s, Carried(m))[i] = s[i] /\ s[i] = Carried(q[i])
      BY <1>1, <1>3, <1>4, <2>2
    <3> QED BY <3>1
  <2>3. CASE i = n + 1
    BY <1>1, <1>4, <2>3
  <2> QED BY <2>1, <2>2, <2>3
<1> QED BY <1>5, <1>6, <1>7 DEF s

LEMMA CarriedTail ==
  ASSUME NEW q \in Seq(Messages), q # <<>>
  PROVE  /\ CarriedAll(q) # <<>> /\ Head(CarriedAll(q)) = Carried(Head(q))
         /\ CarriedAll(Tail(q)) = Tail(CarriedAll(q))
<1> DEFINE n == Len(q)
           s == CarriedAll(q)
           C == {Carried(q[i]) : i \in 1 .. n}
<1>1. /\ n \in Nat /\ n >= 1 /\ Head(q) = q[1]
      /\ Tail(q) \in Seq(Messages) /\ Len(Tail(q)) = n - 1
      /\ \A i \in 1 .. n - 1 : Tail(q)[i] = q[i + 1]
  <2>1. Len(q) \in Nat /\ Len(q) # 0
    OBVIOUS
  <2>2. Len(q) >= 1
    BY <2>1
  <2> QED BY <2>1, <2>2
<1> HIDE DEF C
<1>2. \A i \in 1 .. n : Carried(q[i]) \in C
  BY DEF C
<1>3. s \in Seq(C) /\ Len(s) = n /\ \A i \in 1 .. n : s[i] = Carried(q[i])
  BY <1>1, <1>2 DEF CarriedAll
<1> HIDE DEF s
<1>4. s # <<>> /\ Head(s) = Carried(Head(q))
  BY <1>1, <1>3
<1>5. /\ Tail(s) \in Seq(C) /\ Len(Tail(s)) = n - 1
      /\ \A i \in 1 .. n - 1 : Tail(s)[i] = s[i + 1]
  BY <1>1, <1>3, <1>4
<1>6. Tail(s) = [i \in 1 .. n - 1 |-> Tail(s)[i]]
  <2>1. \A z \in Seq(C) : z = [i \in 1 .. Len(z) |-> z[i]]
    OBVIOUS
  <2> QED BY <1>5, <2>1
<1>7. CarriedAll(Tail(q)) = [i \in 1 .. n - 1 |-> Carried(Tail(q)[i])]
  BY <1>1 DEF CarriedAll
<1>8. \A i \in 1 .. n - 1 : Carried(Tail(q)[i]) = Tail(s)[i]
  <2> TAKE i \in 1 .. n - 1
  <2>1. i + 1 \in 1 .. n /\ Tail(q)[i] = q[i + 1] /\ Tail(s)[i] = s[i + 1]
    BY <1>1, <1>5
  <2> QED BY <1>3, <2>1
<1> QED BY <1>4, <1>6, <1>7, <1>8 DEF s

LEMMA SendBar ==
  ASSUME RingInv, NEW c \in Client, NEW m \in Messages,
         chan' = [chan EXCEPT ![c] = Append(@, m)], Len(chan[c]) < MaxInFlight
  PROVE  /\ Len(ChanBar[c]) < MaxInFlight
         /\ ChanBar' = [ChanBar EXCEPT ![c] = Append(@, Carried(m))]
<1>1. chan \in [Client -> Seq(Messages)]
  BY DEF RingInv, RingTypes
<1>2. Len(ChanBar[c]) = Len(chan[c])
  <2>1. Len(chan[c]) \in Nat
    BY <1>1
  <2>2. ChanBar[c] = CarriedAll(chan[c])
    BY DEF ChanBar
  <2>3. CarriedAll(chan[c]) = [i \in 1 .. Len(chan[c]) |-> Carried(chan[c][i])]
    BY DEF CarriedAll
  <2> QED BY <2>1, <2>2, <2>3
<1>3. CarriedAll(chan'[c]) = Append(CarriedAll(chan[c]), Carried(m))
  <2>1. chan'[c] = Append(chan[c], m) /\ chan[c] \in Seq(Messages)
    BY <1>1
  <2> QED BY <2>1, CarriedAppend
<1>4. \A d \in Client : d # c => chan'[d] = chan[d]
  BY <1>1
<1>5. /\ ChanBar = [d \in Client |-> CarriedAll(chan[d])]
      /\ ChanBar' = [d \in Client |-> CarriedAll(chan'[d])]
  BY DEF ChanBar
<1>6. \A d \in Client : CarriedAll(chan'[d]) = IF d = c THEN Append(ChanBar[c], Carried(m))
                                               ELSE ChanBar[d]
  <2> TAKE d \in Client
  <2>1. ChanBar[c] = CarriedAll(chan[c]) /\ ChanBar[d] = CarriedAll(chan[d])
    BY <1>5
  <2>2. d # c => CarriedAll(chan'[d]) = CarriedAll(chan[d])
    BY <1>4
  <2> QED BY <1>3, <2>1, <2>2
<1>7. ChanBar' = [ChanBar EXCEPT ![c] = Append(@, Carried(m))]
  BY <1>5, <1>6
<1> QED BY <1>2, <1>7

LEMMA ReadBar ==
  ASSUME RingInv, NEW c \in Client, chan[c] # <<>>,
         chan' = [chan EXCEPT ![c] = Tail(@)]
  PROVE  /\ ChanBar[c] # <<>> /\ Head(ChanBar[c]) = Carried(Head(chan[c]))
         /\ ChanBar' = [ChanBar EXCEPT ![c] = Tail(@)]
<1>1. chan \in [Client -> Seq(Messages)]
  BY DEF RingInv, RingTypes
<1>2. /\ CarriedAll(chan[c]) # <<>> /\ Head(CarriedAll(chan[c])) = Carried(Head(chan[c]))
      /\ CarriedAll(Tail(chan[c])) = Tail(CarriedAll(chan[c]))
  BY <1>1, CarriedTail
<1>3. chan'[c] = Tail(chan[c]) /\ \A d \in Client : d # c => chan'[d] = chan[d]
  BY <1>1
<1>4. /\ ChanBar = [d \in Client |-> CarriedAll(chan[d])]
      /\ ChanBar' = [d \in Client |-> CarriedAll(chan'[d])]
  BY DEF ChanBar
<1>5. \A d \in Client : CarriedAll(chan'[d]) = IF d = c THEN Tail(ChanBar[c]) ELSE ChanBar[d]
  <2> TAKE d \in Client
  <2>1. ChanBar[c] = CarriedAll(chan[c]) /\ ChanBar[d] = CarriedAll(chan[d])
    BY <1>4
  <2>2. d # c => CarriedAll(chan'[d]) = CarriedAll(chan[d])
    BY <1>3
  <2>3. CarriedAll(chan'[c]) = Tail(CarriedAll(chan[c]))
    BY <1>2, <1>3
  <2> QED BY <2>1, <2>2, <2>3
<1>6. ChanBar' = [ChanBar EXCEPT ![c] = Tail(@)]
  BY <1>4, <1>5
<1>7. ChanBar[c] = CarriedAll(chan[c])
  BY <1>4
<1> QED BY <1>2, <1>6, <1>7

(* A frame sent is a frame that DeltaView sends. *)
LEMMA SendFrameIs ==
  ASSUME RingInv, NEW c \in Client, SendFrame(c)
  PROVE  RingInv' /\ DV!SendFrame(c)
<1> DEFINE shown == {n \in Num : edicts[n] \in Shown}
<1>1. /\ c \in pending /\ \A d \in pending : c <= d
      /\ pending' = pending \ {c}
      /\ UNCHANGED <<edicts, baselines, cs, framenum, view, applied, known>>
  BY DEF SendFrame
<1>2. PICK near \in SUBSET (shown \ Owned[c]) :
        \E S \in Candidates((shown \cap Owned[c]) \cup near) :
          \E L \in SUBSET S : SendSnapshot(c, S, L)
  BY DEF SendFrame
<1>3. PICK S \in Candidates((shown \cap Owned[c]) \cup near) :
        \E L \in SUBSET S : SendSnapshot(c, S, L)
  BY <1>2
<1>4. PICK L \in SUBSET S : SendSnapshot(c, S, L)
  BY <1>3
<1>5. Chosen(S, L)
  <2> DEFINE seen == (shown \cap Owned[c]) \cup near
  <2>1. seen \in SUBSET Num /\ \A n \in seen : edicts[n] \in Shown
    OBVIOUS
  <2>2. S \in Candidates(seen)
    OBVIOUS
  <2> HIDE DEF seen
  <2> QED BY <2>1, <2>2, ChosenIs
<1>6. /\ RingInv'
      /\ \A d \in Client : LastSent(d)' = IF d = c THEN Listed(S, L) ELSE LastSent(d)
  BY <1>1, <1>4, <1>5, SnapshotKeeps
<1> DEFINE states == Listed(S, L)
           numbers == InOrder(S)
           cells == Put(numbers, states)
           new == [first_entity |-> next_client_entities, num_entities |-> Len(numbers)]
           built == [frames EXCEPT ![c][framenum % UPDATE_BACKUP] = new]
           old == IF lastframe[c] = NoFrame THEN NothingSent
                  ELSE built[c][lastframe[c] % UPDATE_BACKUP]
           w == PacketEntities(cells, old, new)
           m == [kind |-> "frame", new |-> states, updates |-> w]
<1>7. chan' = [chan EXCEPT ![c] = Append(@, m)] /\ Len(chan[c]) < MaxInFlight
  BY <1>4 DEF SendSnapshot, Send
<1>8. /\ w \in Seq(Written) /\ Ascending(w)
      /\ AsDelta(w) = DV!Delta(LastSent(c), states, baselines)
  BY <1>1, <1>5, MessageSent
<1>9. /\ states \in Frames /\ states \in [Num -> Shown \cup {Absent}] /\ DV!Sight(states)
  BY <1>5, ListedIs DEF RingInv, RingTypes
<1> HIDE DEF states, w
<1>10. m \in Messages
  BY <1>8, <1>9 DEF Messages
<1>11. Carried(m) = [kind |-> "frame", new |-> states,
                    delta |-> DV!Delta(LastSent(c), states, baselines)]
  BY <1>8 DEF Carried
<1> HIDE DEF m
<1>12. /\ Len(ChanBar[c]) < MaxInFlight
       /\ ChanBar' = [ChanBar EXCEPT ![c] = Append(@, Carried(m))]
  BY <1>7, <1>10, SendBar
<1>13. FromBar' = [FromBar EXCEPT ![c] = states] /\ FromBar[c] = LastSent(c)
  BY <1>6 DEF FromBar, states
<1>14. FromBar' = [FromBar EXCEPT ![c] = states]
  BY <1>13
<1>15. \E shows \in [Num -> Shown \cup {Absent}] :
         /\ \A n \in Num : shows[n] # Absent =>
              edicts[n] \in Shown /\ shows[n] \in {edicts[n], Selected[edicts[n]]}
         /\ ChanBar' = [ChanBar EXCEPT ![c] =
              Append(@, [kind |-> "frame", new |-> shows,
                         delta |-> DV!Delta(FromBar[c], shows, baselines)])]
         /\ FromBar' = [FromBar EXCEPT ![c] = shows]
  <2>1. ChanBar' = [ChanBar EXCEPT ![c] =
          Append(@, [kind |-> "frame", new |-> states,
                     delta |-> DV!Delta(FromBar[c], states, baselines)])]
    BY <1>11, <1>12, <1>13
  <2>2. \A n \in Num : states[n] # Absent =>
          edicts[n] \in Shown /\ states[n] \in {edicts[n], Selected[edicts[n]]}
    BY <1>9 DEF DV!Sight
  <2> QED BY <1>9, <1>14, <2>1, <2>2
<1>16. DV!SendFrame(c)
  BY <1>1, <1>12, <1>15, Bars DEF DV!SendFrame, DV!Send, DV!Sight
<1> QED BY <1>6, <1>16

LEMMA InitRefines == SnapshotInit => DV!Init
<1> SUFFICES ASSUME SnapshotInit PROVE DV!Init
  OBVIOUS
<1>1. FromBar = [c \in Client |-> EmptyFrame]
  BY DEF FromBar, LastSent, SnapshotInit
<1>2. CarriedAll(<<>>) = <<>>
  BY DEF CarriedAll
<1>3. ChanBar = [c \in Client |-> <<>>]
  BY <1>2 DEF ChanBar, SnapshotInit
<1> QED BY <1>1, <1>3, Bars
        DEF SnapshotInit, DV!Init, DV!EmptyFrame, EmptyFrame, DV!NoState, NoState

(* The other actions are those of DeltaView. *)
LEMMA BaselinesRefines ==
  ASSUME RingInv, NEW c \in Client, Baselines(c)
  PROVE  DV!Baselines(c)
<1> DEFINE m == [kind |-> "baselines",
                 states |-> Listed({n \in Num : edicts[n] \notin Hidden}, {})]
<1>1. m \in Messages
  BY DEF RingInv, RingTypes, Messages, Frames, Listed
<1>2. m = [kind |-> "baselines", states |-> DV!Listed]
  BY DEF Listed, DV!Listed
<1> HIDE DEF m
<1>3. Carried(m) = m
  BY <1>2 DEF Carried
<1>4. /\ chan' = [chan EXCEPT ![c] = Append(@, m)] /\ Len(chan[c]) < MaxInFlight
      /\ cs[c] = "connected" /\ pending = {}
      /\ cs' = [cs EXCEPT ![c] = "primed"]
      /\ UNCHANGED <<edicts, baselines, pending, view, applied, known>>
  BY DEF Baselines, Send, m
<1>5. /\ Len(ChanBar[c]) < MaxInFlight
      /\ ChanBar' = [ChanBar EXCEPT ![c] = Append(@, m)]
  BY <1>1, <1>3, <1>4, SendBar
<1>6. FromBar' = FromBar
  BY BaselinesKeeps DEF FromBar
<1> QED BY <1>2, <1>4, <1>5, <1>6, Bars DEF DV!Baselines, DV!Send

LEMMA BeginRefines ==
  ASSUME RingInv, NEW c \in Client, Begin(c)
  PROVE  DV!Begin(c)
<1>1. /\ chan[c] = <<>> /\ chan' = chan
      /\ cs[c] = "primed" /\ pending = {} /\ cs' = [cs EXCEPT ![c] = "spawned"]
      /\ UNCHANGED <<edicts, baselines, pending, view, applied, known>>
  BY DEF Begin
<1>2. ChanBar[c] = <<>> /\ ChanBar' = ChanBar
  BY <1>1 DEF ChanBar, CarriedAll
<1>3. FromBar' = [FromBar EXCEPT ![c] = EmptyFrame]
  BY BeginKeeps DEF FromBar
<1> QED BY <1>1, <1>2, <1>3, Bars DEF DV!Begin, DV!EmptyFrame, EmptyFrame

LEMMA RunRefines ==
  ASSUME RingInv, RunGameFrame
  PROVE  DV!RunGameFrame
<1>1. FromBar' = FromBar
  BY RunKeeps DEF FromBar
<1>2. ChanBar' = ChanBar
  BY DEF ChanBar, RunGameFrame
<1> QED BY <1>1, <1>2, Bars DEF RunGameFrame, DV!RunGameFrame

LEMMA ReadBaselinesRefines ==
  ASSUME RingInv, NEW c \in Client, ReadBaselines(c)
  PROVE  DV!ReadBaselines(c)
<1> DEFINE m == Head(chan[c])
<1>1. /\ chan[c] # <<>> /\ m.kind = "baselines"
      /\ chan' = [chan EXCEPT ![c] = Tail(@)]
      /\ UNCHANGED <<edicts, baselines, cs, pending, applied, known>>
  BY DEF ReadBaselines
<1>2. view' = [view EXCEPT ![c] = DV!Primed(@, m.states)]
  BY ReadBaselinesKeeps
<1> HIDE DEF m
<1>3. Carried(m) = m
  BY <1>1 DEF Carried
<1>4. /\ ChanBar[c] # <<>> /\ Head(ChanBar[c]) = m
      /\ ChanBar' = [ChanBar EXCEPT ![c] = Tail(@)]
  BY <1>1, <1>3, ReadBar DEF m
<1>5. FromBar' = FromBar
  BY ReadBaselinesKeeps DEF FromBar
<1> QED BY <1>1, <1>2, <1>4, <1>5, Bars DEF DV!ReadBaselines

LEMMA ReadFrameRefines ==
  ASSUME RingInv, NEW c \in Client, ReadFrame(c)
  PROVE  DV!ReadFrame(c)
<1> DEFINE m == Head(chan[c])
<1>1. /\ chan[c] # <<>> /\ m.kind = "frame"
      /\ chan' = [chan EXCEPT ![c] = Tail(@)]
      /\ applied' = [applied EXCEPT ![c] = m.new]
      /\ known' = [known EXCEPT ![c] = @ \cup {n \in Num : m.new[n] # Absent}]
      /\ UNCHANGED <<edicts, baselines, cs, pending>>
  BY DEF ReadFrame
<1>2. view' = [view EXCEPT ![c] = DV!Applied(@, AsDelta(m.updates))]
  BY ReadFrameKeeps
<1> HIDE DEF m
<1> DEFINE b == Carried(m)
<1>3. b.kind = "frame" /\ b.new = m.new /\ b.delta = AsDelta(m.updates)
  BY <1>1 DEF Carried
<1> HIDE DEF b
<1>4. /\ ChanBar[c] # <<>> /\ Head(ChanBar[c]) = b
      /\ ChanBar' = [ChanBar EXCEPT ![c] = Tail(@)]
  BY <1>1, ReadBar DEF m, b
<1>5. FromBar' = FromBar
  BY ReadFrameKeeps DEF FromBar
<1> QED BY <1>1, <1>2, <1>3, <1>4, <1>5, Bars DEF DV!ReadFrame

(* The invariant is inductive. *)
LEMMA RunStep == RingInv /\ [SnapshotNext]_snapshotVars => RingInv'
<1> SUFFICES ASSUME RingInv, [SnapshotNext]_snapshotVars PROVE RingInv'
  OBVIOUS
<1>1. CASE RunGameFrame
  BY <1>1, RunKeeps
<1>2. ASSUME NEW c \in Client, Baselines(c) PROVE RingInv'
  BY <1>2, BaselinesKeeps
<1>3. ASSUME NEW c \in Client, Begin(c) PROVE RingInv'
  BY <1>3, BeginKeeps
<1>4. ASSUME NEW c \in Client, SendFrame(c) PROVE RingInv'
  BY <1>4, SendFrameIs
<1>5. ASSUME NEW c \in Client, ReadBaselines(c) PROVE RingInv'
  BY <1>5, ReadBaselinesKeeps
<1>6. ASSUME NEW c \in Client, ReadFrame(c) PROVE RingInv'
  BY <1>6, ReadFrameKeeps
<1>7. CASE UNCHANGED snapshotVars
  <2>1. UNCHANGED ring /\ UNCHANGED <<edicts, baselines, cs, pending, chan, view>>
    BY <1>7 DEF snapshotVars, ring
  <2>2. RingTypes'
    BY <2>1 DEF RingInv, RingTypes, RingTypeOK, ring
  <2> QED BY <2>1, <2>2, RingStays
<1> QED BY <1>1, <1>2, <1>3, <1>4, <1>5, <1>6, <1>7 DEF SnapshotNext

(* The ring and the merge of sv_ents.c implement DeltaView for any number  *)
(* of clients and of entities and any size of the ring: when a client's    *)
(* frame is compared with the last one sent to it, that one is still whole *)
(* in the ring, whatever the other clients put there since, and the merge  *)
(* writes each entity once; what the client makes of it is what DeltaView  *)
(* says.  (With the types of the ring.)                                    *)
THEOREM SnapshotRefines == SnapshotSpec => ImplementsDeltaView
<1>1. RingInv => RingTypeOK
  BY DEF RingInv, RingTypes
<1>2. RingInv /\ [SnapshotNext]_snapshotVars => [DV!Next]_(DV!vars)
  <2> SUFFICES ASSUME RingInv, [SnapshotNext]_snapshotVars
               PROVE  DV!Next \/ UNCHANGED DV!vars
    OBVIOUS
  <2>1. CASE RunGameFrame
    BY <2>1, RunRefines DEF DV!Next
  <2>2. ASSUME NEW c \in Client, Baselines(c) PROVE DV!Next
    BY <2>2, BaselinesRefines DEF DV!Next
  <2>3. ASSUME NEW c \in Client, Begin(c) PROVE DV!Next
    BY <2>3, BeginRefines DEF DV!Next
  <2>4. ASSUME NEW c \in Client, SendFrame(c) PROVE DV!Next
    BY <2>4, SendFrameIs DEF DV!Next
  <2>5. ASSUME NEW c \in Client, ReadBaselines(c) PROVE DV!Next
    BY <2>5, ReadBaselinesRefines DEF DV!Next
  <2>6. ASSUME NEW c \in Client, ReadFrame(c) PROVE DV!Next
    BY <2>6, ReadFrameRefines DEF DV!Next
  <2>7. CASE UNCHANGED snapshotVars
    <3>1. UNCHANGED <<edicts, baselines, cs, pending, view, applied, known>>
      BY <2>7 DEF snapshotVars
    <3>2. FromBar' = FromBar /\ ChanBar' = ChanBar
      BY <2>7 DEF snapshotVars, FromBar, ChanBar, LastSent, Shows, Entry
    <3> QED BY <3>1, <3>2, Bars DEF DV!vars
  <2> QED BY <2>1, <2>2, <2>3, <2>4, <2>5, <2>6, <2>7 DEF SnapshotNext
<1> QED BY RingInit, RunStep, InitRefines, <1>1, <1>2, PTL
        DEF SnapshotSpec, DV!Spec, ImplementsDeltaView
==============================================================================
