---------------------------- MODULE MCFlowField ----------------------------
(* Two units, a pool of three waypoints, which two orders use up, three    *)
(* cells and a cache of two fields.  Budget is one more than the slots, so *)
(* that a field is evicted: with the numbers of the code, two bakes and    *)
(* four slots, none ever is.                                               *)
EXTENDS FlowField, TLC

Interchangeable == Permutations(Unit) \cup Permutations(Cell \ {Corner})
=============================================================================
