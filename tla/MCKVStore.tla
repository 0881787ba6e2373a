------------------------------ MODULE MCKVStore ------------------------------
(* Four keys that collide in small tables and part in larger ones.  With a  *)
(* load factor of 1 and one bucket to start with the table grows three      *)
(* times, and the move of one node per command spreads each resizing over   *)
(* several commands.                                                        *)
EXTENDS KVStore

CONSTANTS k1, k2, k3, k4

MCKey == {k1, k2, k3, k4}
MCHash == k1 :> 0 @@ k2 :> 4 @@ k3 :> 2 @@ k4 :> 1
==============================================================================
