---------------------------- MODULE MCHashTable ----------------------------
(* Five keys whose hashes collide in every capacity and wrap round the end *)
(* of the array; the table grows from 4 slots to 16.                       *)
EXTENDS HashTable, TLC

CONSTANTS a, b, c, d, f

MCKeys == {a, b, c, d, f}
MCHash == (a :> 3) @@ (b :> 3) @@ (c :> 7) @@ (d :> 4) @@ (f :> 11)
=============================================================================
