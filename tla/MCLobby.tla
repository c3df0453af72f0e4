------------------------------- MODULE MCLobby -------------------------------
(* Two remote clients and a host for two slots: one client too many.  The  *)
(* slots change between shown and hidden, the types that may seat a client *)
(* and one that may not, and players valid, shared and out of range.       *)
EXTENDS Lobby, TLC

Slots(visible, players, types) ==
  [visible : {visible}, map_player : players, type : types]

MCConfig == Slots(TRUE, {0, 1}, {"human", "open"})
              \cup Slots(TRUE, {0}, {"closed"})
              \cup Slots(FALSE, {1}, {"human", "computer"})
              \cup Slots(TRUE, {MAX_PLAYERS}, {"open"})

Symmetry == Permutations(Remote)
==============================================================================
