------------------------------ MODULE MCSnapshot ------------------------------
(* Two clients of three entities: each owns one, and the first may change. *)
(* A frame holds two entities at most, so one that sees all three is cut.  *)
(* The ring has eight cells: it is full after two frames of each client,   *)
(* the third goes over the first, and the counter of the ring, one before  *)
(* DWORD when the map begins, starts again on the way.  The selection and  *)
(* the loss of precision on the wire are the identity: the run of          *)
(* DeltaView covers them, and they do not meet the ring.                   *)
EXTENDS Snapshot

Unit(renderfx) == [f \in Field |-> IF f = "model" THEN 1 ELSE renderfx]
MCState == {Unit(0), Unit(1)}
MCLoaded == {<<Unit(0), Unit(0), Unit(1)>>}
MCOwned == [c \in Client |-> {c + 1}]
MCSelected == [s \in MCState |-> s]
MCWire == [f \in Field |-> [v \in Value |-> v]]
===============================================================================
