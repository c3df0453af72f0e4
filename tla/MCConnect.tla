------------------------------ MODULE MCConnect ------------------------------
(* Two maps, two tries to connect, one fault of the network at any point:  *)
(* enough for a client that loses its server, comes back to find its       *)
(* record still taken, or comes back to the next map.                      *)
EXTENDS Connect
==============================================================================
