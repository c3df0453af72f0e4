---------------------------- MODULE MCLobbyScreen ----------------------------
(* A map with a slot for the host and one for a remote player, who finds   *)
(* it open or closed, one client too many, and a host who clicks before    *)
(* the packets of the iteration are read.                                  *)
EXTENDS LobbyScreen, TLC

MCMapSlots == (0 :> [visible |-> TRUE, map_player |-> 0, type |-> "human"])
           @@ (1 :> [visible |-> TRUE, map_player |-> 1, type |-> "open"])
==============================================================================
