------------------------------ MODULE MCHarvest ------------------------------
(* Three workers, a mine for two and two trees: one waits while two are     *)
(* inside, is called, or waits at a mine one of whose places is taken by one *)
(* who was called away; two strike one tree, or one a tree that the other    *)
(* has felled.  What the player has wraps at five.                           *)
EXTENDS Harvest
==============================================================================
