----------------------------- MODULE MCDeltaView -----------------------------
(* One client and two entities that are free, or hidden, or have a model   *)
(* and are selected or not, at a place that messages round down from 2 to  *)
(* 1; two messages may be on their way to the client.                      *)
EXTENDS DeltaView

Unit(place, renderfx, svflags) ==
  [f \in Field |-> CASE f = "model" -> 1 [] f = "origin" -> place
                     [] f = "renderfx" -> renderfx [] f = "svflags" -> svflags]

MCShown == {Unit(2, 0, 0), Unit(2, 1, 0)}
MCHidden == {Unit(2, 0, 1)}
MCState == MCShown \cup MCHidden \cup {NoState}
MCLoaded == [Num -> State]
MCSelected == [s \in Shown |-> [s EXCEPT !["renderfx"] = 1]]
MCWire == [f \in Field |->
             [v \in Value |-> IF f = "origin" /\ v = 2 THEN 1 ELSE v]]
==============================================================================
