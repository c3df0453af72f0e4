---------------------------- MODULE MCGameEvents ----------------------------
(* Two players, a unit of the second, two triggers and four registrations:  *)
(* the death of the unit, the deaths of the second player's units, the      *)
(* defeat of the first player, and a region.                                *)
EXTENDS GameEvents, TLC

CONSTANTS u1, t1, t2

MCUnitOrder == <<u1>>
MCFirstOwner == u1 :> 1
MCHandlers ==
  <<[type |-> "enter_region", subject |-> Nobody, trigger |-> t2],
    [type |-> "player_defeat", subject |-> 0, trigger |-> t2],
    [type |-> "player_unit_death", subject |-> 1, trigger |-> t1],
    [type |-> "unit_death", subject |-> u1, trigger |-> t1]>>
=============================================================================
