--------------------------- MODULE MCConfigStrings ---------------------------
(* Three clients, a pool of two usable indices and three names, so that it *)
(* fills up, and messages of four strings: what waits for a client and all *)
(* strings together do not fit.  One name is a key of the theme.           *)
EXTENDS ConfigStrings

MCName == {"peasant.blp", "archer.blp", "StatBar"}
MCTheme == [n \in MCName |-> IF n = "StatBar" THEN "statbar.blp" ELSE n]
==============================================================================
