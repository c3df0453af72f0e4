------------------------------ MODULE MCCombat ------------------------------
(* Two units against a hero; the third throws missiles and, as its number   *)
(* has it, finds its targets by itself.                                    *)
EXTENDS Combat

MCPlayer == <<1, 0, 1>>
==============================================================================
