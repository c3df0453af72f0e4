-------------------------------- MODULE MCFog --------------------------------
(* A grid of four by two cells.  A unit of the first player sees two cells *)
(* far and one of the second player, hidden at first, one; a tree between  *)
(* the places stands in the way.  One modifier is the first player's, the  *)
(* other the second's and shared.                                          *)
(* A chunk takes one row of both planes or two of one, and a run ends at   *)
(* three: full runs, also at the end of a row, and empty ones occur.       *)
(* One client of either player, or one of each, is there when the map      *)
(* starts; a second may come later.  The client of the second player goes  *)
(* on being sent its rows then, that of the first does not, and where both *)
(* are there at once the first client is sent the second player's.         *)
EXTENDS Fog

MCStart == [u \in 1 .. 2 |->
  [cell |-> IF u = 1 THEN <<0, 0>> ELSE <<2, 1>>, owner |-> u - 1,
   reveals |-> u = 1]]
MCRadius == <<2, 1>>
MCPlace == {<<0, 0>>, <<2, 1>>}
MCFootprint == [t \in Tree |-> {<<1, 0>>}]
MCEffect == [m \in Modifier |->
  [player |-> IF m = "shared" THEN 1 ELSE 0, shared |-> m = "shared",
   visible |-> TRUE,
   cells |-> IF m = "shared" THEN {<<3, 0>>, <<3, 1>>}
                             ELSE {<<0, 0>>, <<1, 0>>, <<2, 0>>}]]
MCSeatings == {<<0>>, <<1>>, <<0, 1>>}
==============================================================================
