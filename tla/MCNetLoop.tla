------------------------------ MODULE MCNetLoop ------------------------------
(* A ring of 11 cells and packets of 0 to 8 bytes, the longest of which    *)
(* does not fit; counters run past two laps of the ring.                   *)
EXTENDS NetLoop

MCPacket == {<<>>, <<1>>, <<0, 1>>, <<1, 0, 1, 1, 0>>,
             <<1, 1, 1, 1, 1, 1, 1, 1>>}
==============================================================================
